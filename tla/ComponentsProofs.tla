-------------------------- MODULE ComponentsProofs --------------------------
(***************************************************************************)
(* What is proved about the components of Components.tla, one section for  *)
(* each: an invariant of the component that its steps keep, from which its *)
(* domains and its property follow.  KaliOk counts the calls in flight to  *)
(* an agent; LabOk follows each request to the end of what it does to its  *)
(* lab; LimiterOk is about the call that is to set the EXPIRE; DiffOk      *)
(* compares each job with the one it took for its baseline; GraphOk says   *)
(* what the jobs that run have read and drafted; ReviewOk says what a      *)
(* request of the review has seen.  At the end the component that runs is  *)
(* put back among the others.                                              *)
(***************************************************************************)
EXTENDS Components, FiniteSetTheorems, WellFoundedInduction, TLAPS

-----------------------------------------------------------------------------
(* KaliDispatch.                                                           *)

\* The calls in flight are counted as any set is.
LEMMA SameCardinality == \A T : K!Cardinality(T) = Cardinality(T)
BY DEF K!Cardinality, Cardinality, K!IsFiniteSet, IsFiniteSet

\* Where a call is held in an agent's counter.
Flying == {"post", "waiting"} \cup K!Answers

CallType == [at : K!States, asked : SUBSET Urls, compatible : SUBSET Urls,
             url : Urls \cup {NoUrl}, behind : BOOLEAN]

KaliShape ==
  /\ call \in [Workers -> CallType]
  /\ busy \in [Urls -> Int]
  /\ kills \in Nat /\ misses \in Nat /\ forgotten \in [Urls -> Nat]

(* The invariant of KaliDispatch: the property and its domains; no other
   state of a call matters to the counters.                                *)
KaliOk == KaliShape /\ K!CountersAreCalls

\* A worker whose call counts the same for every agent after the step.
Steady(w) ==
  /\ call'[w].at \in Flying <=> call[w].at \in Flying
  /\ call[w].at \in Flying => call'[w].url = call[w].url

\* The faults are those there were.
NoFault == UNCHANGED <<kills, misses, forgotten>>

-----------------------------------------------------------------------------

(* The calls in flight to an agent are finitely many.                      *)
LEMMA FlightSize ==
  ASSUME NEW u \in Urls
  PROVE  IsFiniteSet(K!InFlight(u)) /\ Cardinality(K!InFlight(u)) \in Nat
<1>1. K!InFlight(u) \in SUBSET Workers
  BY DEF K!InFlight
<1>2. QED
  BY <1>1, FS_Subset, FS_CardinalityType, ComponentsAssumption

(* A call that goes on, ends or is given its agent has the shape of a call. *)
LEMMA Moved ==
  ASSUME KaliShape, NEW w \in Workers, NEW at \in K!States,
         \/ K!Goes(w, at)
         \/ K!Ends(w, at)
         \/ \E u \in Urls : K!Selects(w, u) /\ at = "chosen"
  PROVE  /\ call' \in [Workers -> CallType] /\ call'[w].at = at
         /\ K!Goes(w, at) => call'[w].url = call[w].url
         /\ \A v \in Workers \ {w} : call'[v] = call[v]
<1>1. \A c \in CallType : [c EXCEPT !.at = at] \in CallType /\ [c EXCEPT !.at = at].url = c.url
                          /\ [c EXCEPT !.at = at].at = at
  BY DEF CallType
<1>2. K!NoCall \in CallType /\ \A u \in Urls : [K!NoCall EXCEPT !.at = "chosen", !.url = u] \in CallType
  BY DEF K!NoCall, CallType, K!States
<1>3. CASE K!Goes(w, at)
  <2>1. call' = [call EXCEPT ![w] = [call[w] EXCEPT !.at = at]]
    BY <1>3 DEF K!Goes
  <2>2. QED
    BY <1>1, <2>1 DEF KaliShape
<1>4. CASE K!Ends(w, at) /\ ~K!Goes(w, at)
  BY <1>1, <1>2, <1>4 DEF K!Ends, KaliShape
<1>5. CASE (\E u \in Urls : K!Selects(w, u) /\ at = "chosen") /\ ~K!Goes(w, at)
  <2>1. PICK u \in Urls : K!Selects(w, u) /\ at = "chosen"
    BY <1>5
  <2>2. [K!NoCall EXCEPT !.at = "chosen", !.url = u].at = "chosen"
    BY DEF K!NoCall
  <2>3. QED
    BY <1>2, <1>5, <2>1, <2>2 DEF K!Selects, KaliShape
<1>6. QED
  BY <1>3, <1>4, <1>5

(* A step on the way to an agent, or in an agent, moves no counter and lets
   no call begin or end.                                                   *)
LEMMA SteadyStep ==
  ASSUME KaliOk, call' \in [Workers -> CallType], busy' = busy, NoFault, \A w \in Workers : Steady(w)
  PROVE  KaliOk'
<1>1. \A u \in Urls : K!InFlight(u)' = K!InFlight(u)
  BY DEF K!InFlight, Steady, Flying
<1>2. QED
  BY <1>1 DEF KaliOk, KaliShape, NoFault, K!CountersAreCalls, K!multi

\* It is such a step if one call goes from a state to one of its kind.
LEMMA CallStep ==
  ASSUME KaliOk, NEW w \in Workers, NEW at \in K!States,
         \/ K!Goes(w, at) /\ (at \in Flying <=> call[w].at \in Flying)
         \/ K!Ends(w, at) /\ at \notin Flying /\ call[w].at \notin Flying
         \/ \E u \in Urls : K!Selects(w, u) /\ at = "chosen" /\ call[w].at \notin Flying,
         busy' = busy, NoFault
  PROVE  KaliOk'
<1>1. /\ call' \in [Workers -> CallType] /\ call'[w].at = at
      /\ K!Goes(w, at) => call'[w].url = call[w].url
      /\ \A v \in Workers \ {w} : call'[v] = call[v]
  BY Moved DEF KaliOk
<1>2. "chosen" \notin Flying
  BY DEF Flying, K!Answers
<1>3. \A v \in Workers : Steady(v)
  BY <1>1, <1>2 DEF Steady
<1>4. QED
  BY <1>1, <1>3, SteadyStep

LEMMA SelectionStep ==
  ASSUME KaliOk, NEW w \in Workers,
         K!Begin(w) \/ (\E u \in Urls : K!Ask(w, u)) \/ K!Choose(w)
  PROVE  KaliOk'
<1>1. /\ {"select", "chosen", "failed"} \subseteq K!States
      /\ {"idle", "select", "chosen", "failed"} \cap Flying = {}
  BY DEF K!States, Flying, K!Answers
<1>2. CASE K!Begin(w)
  <2>1. K!Goes(w, "select") \/ \E u \in Urls : K!Selects(w, u)
    BY <1>2 DEF K!Begin
  <2>2. call[w].at = "idle" /\ busy' = busy /\ NoFault
    BY <1>2 DEF K!Begin, K!counters, NoFault
  <2>3. QED
    BY <1>1, <2>1, <2>2, CallStep
<1>3. CASE \E u \in Urls : K!Ask(w, u)
  <2>1. PICK u \in Urls, b \in BOOLEAN :
          /\ call[w].at = "select"
          /\ call' = [call EXCEPT ![w].asked = @ \cup {u},
                                  ![w].compatible = IF b THEN @ \cup {u} ELSE @]
          /\ busy' = busy /\ NoFault
    BY <1>3 DEF K!Ask, K!counters, NoFault
  <2>2. call' \in [Workers -> CallType]
    <3>1. /\ [call[w] EXCEPT !.asked = @ \cup {u}, !.compatible = IF b THEN @ \cup {u} ELSE @] \in CallType
          /\ call' = [call EXCEPT ![w] =
                        [call[w] EXCEPT !.asked = @ \cup {u}, !.compatible = IF b THEN @ \cup {u} ELSE @]]
      BY <2>1 DEF KaliOk, KaliShape, CallType
    <3>2. QED
      BY <3>1 DEF KaliOk, KaliShape
  <2>3. \A v \in Workers : Steady(v)
    BY <2>1 DEF KaliOk, KaliShape, CallType, Steady, Flying, K!Answers
  <2>4. QED
    BY <2>1, <2>2, <2>3, SteadyStep
<1>4. CASE K!Choose(w)
  <2>1. K!Ends(w, "failed") \/ \E u \in Urls : K!Selects(w, u)
    <3>1. call[w].compatible \subseteq Urls
      BY DEF KaliOk, KaliShape, CallType
    <3>2. QED
      BY <1>4, <3>1 DEF K!Choose, K!LeastBusy
  <2>2. call[w].at = "select" /\ busy' = busy /\ NoFault
    BY <1>4 DEF K!Choose, K!counters, NoFault
  <2>3. QED
    BY <1>1, <2>1, <2>2, CallStep
<1>5. QED
  BY <1>2, <1>3, <1>4

LEMMA AgentStep ==
  ASSUME KaliOk,
         \/ \E w \in Workers : K!Post(w) \/ K!PostFails(w) \/ K!GiveUp(w) \/ K!Again(w)
         \/ \E u \in Urls : K!Exec(u)
  PROVE  KaliOk'
<1>1. /\ K!Answers \cup {"idle"} \subseteq K!States
      /\ K!Answers \cup {"post", "waiting"} \subseteq Flying
      /\ {"idle", "done", "failed", "killed"} \cap Flying = {}
  BY DEF K!States, Flying, K!Answers
<1>2. "lost" \in K!Answers /\ "answered" \in K!Answers /\ "rejected" \in K!Answers
  BY DEF K!Answers
<1>3. ASSUME NEW w \in Workers, K!Post(w) PROVE KaliOk'
  <2>1. /\ call' = [call EXCEPT ![w].at = "waiting", ![w].behind = ~K!Idle(call[w].url)]
        /\ call[w].at = "post" /\ busy' = busy /\ NoFault
    BY <1>3 DEF K!Post, K!counters, NoFault
  <2>2. K!Idle(call[w].url) \in BOOLEAN
    BY DEF K!Idle
  <2>3. /\ [call[w] EXCEPT !.at = "waiting", !.behind = ~K!Idle(call[w].url)] \in CallType
        /\ call' = [call EXCEPT ![w] = [call[w] EXCEPT !.at = "waiting", !.behind = ~K!Idle(call[w].url)]]
    BY <2>1, <2>2 DEF KaliOk, KaliShape, CallType, K!States
  <2>4. call' \in [Workers -> CallType]
    BY <2>3 DEF KaliOk, KaliShape
  <2>5. \A v \in Workers : Steady(v)
    BY <2>1, <2>3 DEF KaliOk, KaliShape, CallType, Steady, Flying
  <2>6. QED
    BY <2>1, <2>4, <2>5, SteadyStep
<1>4. ASSUME NEW w \in Workers, K!PostFails(w) \/ K!GiveUp(w) PROVE KaliOk'
  <2>1. K!Goes(w, "lost") /\ call[w].at \in {"post", "waiting"} /\ busy' = busy /\ NoFault
    BY <1>4 DEF K!PostFails, K!GiveUp, K!counters, NoFault
  <2>2. QED
    BY <1>1, <1>2, <2>1, CallStep
<1>5. ASSUME NEW w \in Workers, K!Again(w) PROVE KaliOk'
  <2>1. K!Ends(w, "idle") /\ call[w].at \in {"done", "failed", "killed"} /\ busy' = busy /\ NoFault
    BY <1>5 DEF K!Again, K!counters, NoFault
  <2>2. QED
    BY <1>1, <2>1, CallStep
<1>6. ASSUME NEW u \in Urls, K!Exec(u) PROVE KaliOk'
  <2>1. busy' = busy /\ NoFault
    BY <1>6 DEF K!Exec, K!counters, NoFault
  <2>2. CASE call' = call
    BY <2>1, <2>2, SteadyStep DEF KaliOk, KaliShape, Steady
  <2>3. ASSUME NEW w \in K!Waiting, NEW at \in {"answered", "rejected"}, call' = [call EXCEPT ![w].at = at]
        PROVE  KaliOk'
    BY <1>1, <1>2, <2>1, <2>3, CallStep DEF K!Goes, K!Waiting
  <2>4. QED
    BY <1>6, <2>2, <2>3 DEF K!Exec
<1>7. QED
  BY <1>3, <1>4, <1>5, <1>6

\* A step adds n to the counter of the call's agent, and m to the calls to it.
Counts(w, n) ==
  K!multi => \A u \in Urls : busy'[u] = busy[u] + (IF u = call[w].url THEN n ELSE 0)
Changes(w, at, m) ==
  \/ m = 1 /\ K!Goes(w, at) /\ at \in Flying /\ call[w].at \notin Flying
  \/ m = 0 /\ K!Ends(w, at) /\ at \notin Flying /\ call[w].at \notin Flying
  \/ m = -1 /\ K!Ends(w, at) /\ at \notin Flying /\ call[w].at \in Flying

LEMMA ChangedFlight ==
  ASSUME KaliOk, NEW w \in Workers, NEW at \in K!States, NEW m, Changes(w, at, m), NEW u \in Urls
  PROVE  /\ call' \in [Workers -> CallType]
         /\ Cardinality(K!InFlight(u)') = Cardinality(K!InFlight(u)) + (IF u = call[w].url THEN m ELSE 0)
<1>1. /\ call' \in [Workers -> CallType] /\ call'[w].at = at
      /\ at \in Flying => call'[w].url = call[w].url
      /\ \A v \in Workers \ {w} : call'[v] = call[v]
  BY Moved DEF KaliOk, Changes
<1>2. IsFiniteSet(K!InFlight(u)) /\ Cardinality(K!InFlight(u)) \in Nat
  BY FlightSize
<1>3. CASE u = call[w].url /\ m = 1
  <2>1. K!InFlight(u)' = K!InFlight(u) \cup {w} /\ w \notin K!InFlight(u)
    BY <1>1, <1>3 DEF K!InFlight, Flying, Changes
  <2>2. QED
    BY <1>1, <1>2, <1>3, <2>1, FS_AddElement
<1>4. CASE u = call[w].url /\ m = -1
  <2>1. K!InFlight(u)' = K!InFlight(u) \ {w} /\ w \in K!InFlight(u)
    BY <1>1, <1>4 DEF K!InFlight, Flying, Changes
  <2>2. QED
    BY <1>1, <1>2, <1>4, <2>1, FS_RemoveElement
<1>5. CASE u # call[w].url \/ m = 0
  <2>1. K!InFlight(u)' = K!InFlight(u)
    BY <1>1, <1>5 DEF K!InFlight, Flying, Changes
  <2>2. QED
    BY <1>1, <1>2, <1>5, <2>1
<1>6. QED
  BY <1>3, <1>4, <1>5 DEF Changes

\* Where the two are not the same there is a fault more.
LEMMA CallCountStep ==
  ASSUME KaliOk, NEW w \in Workers, NEW at \in K!States,
         NEW n \in -1 .. 1, NEW m \in -1 .. 1, Counts(w, n), Changes(w, at, m),
         busy' \in [Urls -> Int], forgotten' = forgotten,
         NEW faults \in 0 .. 1, kills' + misses' = kills + misses + faults,
         kills' \in Nat, misses' \in Nat,
         0 <= n - m, n - m <= faults
  PROVE  KaliOk'
<1>1. kills \in Nat /\ misses \in Nat
  BY DEF KaliOk, KaliShape
<1>2. KaliShape'
  <2>1. CASE Urls = {}
    <3>1. call' \in [Workers -> CallType]
      BY Moved DEF KaliOk, Changes
    <3>2. QED
      BY <3>1 DEF KaliOk, KaliShape
  <2>2. CASE Urls # {}
    BY <2>2, ChangedFlight DEF KaliOk, KaliShape
  <2>3. QED
    BY <2>1, <2>2
<1>3. ASSUME K!multi, NEW u \in Urls
      PROVE  busy'[u] - Cardinality(K!InFlight(u)') \in -forgotten[u] .. kills' + misses'
  <2>1. /\ busy[u] - Cardinality(K!InFlight(u)) \in -forgotten[u] .. kills + misses
        /\ busy[u] \in Int /\ forgotten[u] \in Nat /\ Cardinality(K!InFlight(u)) \in Nat
    BY <1>3, FlightSize, SameCardinality DEF KaliOk, KaliShape, K!CountersAreCalls
  <2>2. PICK d \in {0, n}, e \in {0, m} :
          /\ busy'[u] = busy[u] + d
          /\ Cardinality(K!InFlight(u)') = Cardinality(K!InFlight(u)) + e
          /\ 0 <= d - e /\ d - e <= faults
    BY <1>3, ChangedFlight DEF Counts
  <2>3. d \in Int /\ e \in Int /\ faults \in Int
    OBVIOUS
  <2>4. busy'[u] - Cardinality(K!InFlight(u)') = (busy[u] - Cardinality(K!InFlight(u))) + (d - e)
    BY <2>1, <2>2, <2>3
  <2>5. QED
    BY <1>1, <2>1, <2>2, <2>3, <2>4
<1>4. QED
  BY <1>2, <1>3, SameCardinality DEF KaliOk, K!CountersAreCalls, K!multi

(* The increment begins a call and the decrement ends one; a horse that is
   killed, or a command that fails, may leave its count behind.            *)
LEMMA CommandStep ==
  ASSUME KaliOk, NEW w \in Workers, K!Incr(w) \/ K!Return(w) \/ K!RedisFails(w) \/ K!Kill(w)
  PROVE  KaliOk'
<1>1. /\ "post" \in Flying /\ K!Answers \cup {"post", "waiting"} \subseteq Flying
      /\ {"select", "chosen", "done", "failed", "killed"} \cap Flying = {}
      /\ {"post", "done", "failed", "killed"} \subseteq K!States
  BY DEF Flying, K!Answers, K!States
<1>2. busy \in [Urls -> Int] /\ kills \in Nat /\ misses \in Nat /\ kills + 1 \in Nat /\ misses + 1 \in Nat
  BY DEF KaliOk, KaliShape
<1>3. /\ busy' = busy => Counts(w, 0) /\ busy' \in [Urls -> Int]
      /\ busy' = [busy EXCEPT ![call[w].url] = @ + 1] => Counts(w, 1) /\ busy' \in [Urls -> Int]
      /\ busy' = [busy EXCEPT ![call[w].url] = @ - 1] => Counts(w, -1) /\ busy' \in [Urls -> Int]
      /\ busy' = busy /\ ~K!multi => Counts(w, 1) /\ Counts(w, -1)
  BY <1>2 DEF Counts
<1>4. CASE K!Incr(w)
  <2>1. Changes(w, "post", 1) /\ NoFault
    BY <1>1, <1>4 DEF K!Incr, K!Adds, Changes, NoFault
  <2>2. Counts(w, 1) /\ busy' \in [Urls -> Int]
    BY <1>3, <1>4 DEF K!Incr, K!Adds
  <2>3. kills' + misses' = kills + misses + 0
    BY <1>2, <2>1 DEF NoFault
  <2>4. QED
    BY <1>1, <1>2, <2>1, <2>2, <2>3, CallCountStep DEF NoFault
<1>5. CASE K!Return(w)
  <2>1. PICK at \in {"done", "failed"} : Changes(w, at, -1) /\ NoFault
    BY <1>1, <1>5 DEF K!Return, K!Adds, Changes, NoFault
  <2>2. Counts(w, -1) /\ busy' \in [Urls -> Int]
    <3>1. busy' = IF K!multi THEN [busy EXCEPT ![call[w].url] = @ - 1] ELSE busy
      BY <1>2, <1>5 DEF K!Return, K!Adds
    <3>2. QED
      BY <1>3, <3>1
  <2>3. kills' + misses' = kills + misses + 0
    BY <1>2, <2>1 DEF NoFault
  <2>4. QED
    BY <1>1, <1>2, <2>1, <2>2, <2>3, CallCountStep DEF NoFault
<1>6. CASE K!RedisFails(w)
  <2>1. K!Ends(w, "failed") /\ misses' = misses + 1 /\ kills' = kills /\ forgotten' = forgotten
    BY <1>6 DEF K!RedisFails
  <2>2. kills' + misses' = kills + misses + 1
    BY <1>2, <2>1
  <2>3. CASE call[w].at \in {"select", "chosen"}
    <3>1. Changes(w, "failed", 0)
      BY <1>1, <2>1, <2>3 DEF Changes
    <3>2. PICK n \in {0, 1} : Counts(w, n) /\ busy' \in [Urls -> Int]
      BY <1>1, <1>3, <1>6, <2>3 DEF K!RedisFails
    <3>3. QED
      BY <1>1, <1>2, <2>1, <2>2, <3>1, <3>2, CallCountStep
  <2>4. CASE call[w].at \in K!Answers
    <3>1. Changes(w, "failed", -1)
      BY <1>1, <2>1, <2>4 DEF Changes
    <3>2. PICK n \in {0, -1} : Counts(w, n) /\ busy' \in [Urls -> Int]
      BY <1>1, <1>3, <1>6, <2>4 DEF K!RedisFails
    <3>3. QED
      BY <1>1, <1>2, <2>1, <2>2, <3>1, <3>2, CallCountStep
  <2>5. QED
    BY <1>6, <2>3, <2>4 DEF K!RedisFails
<1>7. CASE K!Kill(w)
  <2>1. kills' = kills + 1 /\ misses' = misses /\ forgotten' = forgotten /\ busy' = busy
    BY <1>7 DEF K!Kill, K!counters
  <2>2. Changes(w, "killed", -1)
    BY <1>1, <1>7 DEF K!Kill, Changes
  <2>3. kills' + misses' = kills + misses + 1
    BY <1>2, <2>1
  <2>4. QED
    BY <1>1, <1>2, <1>3, <2>1, <2>2, <2>3, CallCountStep
<1>8. QED
  BY <1>4, <1>5, <1>6, <1>7

(* When Redis has lost its data the counters are below the calls by exactly
   the calls there are.                                                    *)
LEMMA LossStep ==
  ASSUME KaliOk, K!KeysAreLost PROVE KaliOk'
<1>1. /\ busy' = [u \in Urls |-> 0] /\ forgotten' = [u \in Urls |-> Cardinality(K!InFlight(u))]
      /\ UNCHANGED <<call, kills, misses>>
  BY SameCardinality DEF K!KeysAreLost
<1>2. \A u \in Urls : K!InFlight(u)' = K!InFlight(u) /\ Cardinality(K!InFlight(u)) \in Nat
  BY <1>1, FlightSize DEF K!InFlight
<1>3. KaliShape'
  BY <1>1, <1>2 DEF KaliOk, KaliShape
<1>4. ASSUME NEW u \in Urls
      PROVE  busy'[u] - Cardinality(K!InFlight(u)') \in -forgotten'[u] .. kills' + misses'
  <2>1. kills' \in Nat /\ misses' \in Nat
    BY <1>3 DEF KaliShape
  <2>2. busy'[u] = 0 /\ forgotten'[u] = Cardinality(K!InFlight(u)) /\ K!InFlight(u)' = K!InFlight(u)
    BY <1>1, <1>2
  <2>3. QED
    BY <1>2, <2>1, <2>2
<1>5. QED
  BY <1>3, <1>4, SameCardinality DEF KaliOk, K!CountersAreCalls

-----------------------------------------------------------------------------

LEMMA KaliInvariance ==
  ASSUME KaliOk, [K!Next]_(K!vars) PROVE KaliOk'
<1>1. CASE UNCHANGED K!vars
  BY <1>1 DEF KaliOk, KaliShape, K!CountersAreCalls, K!InFlight, K!multi, K!vars, K!counters
<1>2. CASE K!Next
  BY <1>2, SelectionStep, AgentStep, CommandStep, LossStep DEF K!Next, K!Run
<1>3. QED
  BY <1>1, <1>2

LEMMA KaliInitially ==
  ASSUME K!Init PROVE KaliOk
<1>1. KaliShape
  BY DEF K!Init, K!NoCall, KaliShape, CallType, K!States
<1>2. \A u \in Urls : K!InFlight(u) = {}
  BY DEF K!Init, K!NoCall, K!InFlight, K!Answers
<1>3. ASSUME NEW u \in Urls PROVE busy[u] - Cardinality(K!InFlight(u)) \in -forgotten[u] .. kills + misses
  <2>1. Cardinality(K!InFlight(u)) = 0
    BY <1>2, FS_EmptySet
  <2>2. busy[u] = 0 /\ kills = 0 /\ misses = 0 /\ forgotten[u] = 0
    BY DEF K!Init
  <2>3. QED
    BY <2>1, <2>2
<1>4. QED
  BY <1>1, <1>3, SameCardinality DEF KaliOk, K!CountersAreCalls

\* The rest of the domains: what the agents have received, and the bounds.
KaliRest ==
  /\ queue \in [Urls -> Seq(Workers \cup {Nobody})]
  /\ kills \in 0 .. MaxKills /\ blips \in 0 .. MaxBlips /\ misses \in 0 .. MaxRedisFailures

\* Those who wait for the requests may have gone.
LEMMA DesertedQueue ==
  ASSUME KaliRest, NEW w PROVE K!Deserted(w) \in [Urls -> Seq(Workers \cup {Nobody})]
<1>1. ASSUME NEW u \in Urls
      PROVE  [i \in DOMAIN queue[u] |-> IF queue[u][i] = w THEN Nobody ELSE queue[u][i]]
               \in Seq(Workers \cup {Nobody})
  <2>1. queue[u] \in Seq(Workers \cup {Nobody})
    BY DEF KaliRest
  <2>2. /\ DOMAIN queue[u] = 1 .. Len(queue[u]) /\ Len(queue[u]) \in Nat
        /\ \A i \in 1 .. Len(queue[u]) : queue[u][i] \in Workers \cup {Nobody}
    BY <2>1
  <2>3. QED
    BY <2>2
<1>2. QED
  BY <1>1 DEF K!Deserted

LEMMA KaliRestStep ==
  ASSUME KaliRest, [K!Next]_(K!vars) PROVE KaliRest'
<1>. USE DEF K!counters
<1>1. CASE UNCHANGED K!vars
  BY <1>1 DEF KaliRest, K!vars
<1>2. ASSUME NEW w \in Workers, K!Post(w) PROVE KaliRest'
  <2>1. \A u \in Urls : Append(queue[u], w) \in Seq(Workers \cup {Nobody})
    BY DEF KaliRest
  <2>2. queue' \in [Urls -> Seq(Workers \cup {Nobody})]
    BY <1>2, <2>1 DEF KaliRest, K!Post
  <2>3. QED
    BY <1>2, <2>2 DEF KaliRest, K!Post
<1>3. ASSUME NEW u \in Urls, K!Exec(u) PROVE KaliRest'
  <2>1. queue[u] \in Seq(Workers \cup {Nobody}) /\ queue[u] # <<>>
    BY <1>3 DEF KaliRest, K!Exec, K!Idle
  <2>2. Tail(queue[u]) \in Seq(Workers \cup {Nobody})
    BY <2>1
  <2>3. queue' \in [Urls -> Seq(Workers \cup {Nobody})]
    BY <1>3, <2>2 DEF KaliRest, K!Exec
  <2>4. QED
    BY <1>3, <2>3 DEF KaliRest, K!Exec
<1>4. ASSUME NEW w \in Workers,
             \/ K!Kill(w) \/ K!GiveUp(w) \/ K!PostFails(w) \/ K!RedisFails(w)
             \/ \E u \in Urls : K!Ask(w, u)
      PROVE  KaliRest'
  <2>1. MaxKills \in Nat /\ MaxBlips \in Nat /\ MaxRedisFailures \in Nat
    BY ComponentsAssumption
  <2>2. CASE K!Kill(w) \/ K!GiveUp(w)
    <3>1. queue' = K!Deserted(w) /\ UNCHANGED <<misses, blips>>
      BY <2>2 DEF K!Kill, K!GiveUp
    <3>2. kills' \in 0 .. MaxKills
      BY <2>1, <2>2 DEF KaliRest, K!Kill, K!GiveUp
    <3>3. QED
      BY <3>1, <3>2, DesertedQueue DEF KaliRest
  <2>3. CASE K!PostFails(w)
    BY <2>1, <2>3 DEF KaliRest, K!PostFails, K!Blip
  <2>4. CASE K!RedisFails(w)
    BY <2>1, <2>4 DEF KaliRest, K!RedisFails
  <2>5. CASE \E u \in Urls : K!Ask(w, u)
    BY <2>1, <2>5 DEF KaliRest, K!Ask, K!Blip
  <2>6. QED
    BY <1>4, <2>2, <2>3, <2>4, <2>5
<1>5. ASSUME \/ \E w \in Workers : K!Begin(w) \/ K!Choose(w) \/ K!Incr(w) \/ K!Return(w) \/ K!Again(w)
             \/ K!KeysAreLost
      PROVE  KaliRest'
  BY <1>5 DEF KaliRest, K!Begin, K!Choose, K!Incr, K!Return, K!Adds, K!Again, K!KeysAreLost
<1>6. QED
  BY <1>1, <1>2, <1>3, <1>4, <1>5 DEF K!Next, K!Run

LEMMA KaliRestInitially == K!Init => KaliRest
BY ComponentsAssumption DEF K!Init, KaliRest

LEMMA KaliTypes == KaliOk /\ KaliRest => K!TypeOK
BY DEF KaliOk, KaliShape, KaliRest, CallType, K!TypeOK

-----------------------------------------------------------------------------
(* RateLimiter.                                                            *)

(* The invariant of RateLimiter: a counter that is not there has no end. *)
LimiterOk ==
  /\ R!TypeOK
  /\ R!KeyExpires
  /\ key.count = 0 => key.ttl = 0

(* A call that counts itself either starts the window and has its EXPIRE to
   come, or finds a counter that already had what it needs.                *)
LEMMA CountStep ==
  ASSUME LimiterOk, NEW c \in Calls, R!INCR(c) PROVE LimiterOk'
<1>1. /\ key' = [key EXCEPT !.count = @ + 1] /\ key \in [count : Nat, ttl : 0 .. window]
      /\ key'.count = key.count + 1 /\ key'.ttl = key.ttl
  BY DEF R!INCR, LimiterOk, R!TypeOK
<1>2. R!TypeOK'
  BY <1>1 DEF R!INCR, LimiterOk, R!TypeOK, R!Phases
<1>3. R!KeyExpires'
  <2>1. CASE key.count = 0
    BY <1>1, <2>1 DEF R!INCR, LimiterOk, R!TypeOK, R!KeyExpires
  <2>2. CASE key.count > 0
    BY <1>1, <2>2 DEF R!INCR, LimiterOk, R!TypeOK, R!KeyExpires
  <2>3. QED
    BY <1>1, <2>1, <2>2
<1>4. QED
  BY <1>1, <1>2, <1>3 DEF LimiterOk

(* The command that gives the counter its end.                             *)
LEMMA ExpireStep ==
  ASSUME LimiterOk, NEW c \in Calls, R!EXPIRE(c) PROVE LimiterOk'
<1>1. key \in [count : Nat, ttl : 0 .. window]
  BY DEF LimiterOk, R!TypeOK
<1>2. CASE key.count > 0
  <2>1. key' = [key EXCEPT !.ttl = window] /\ key'.ttl = window /\ key'.count = key.count
    BY <1>1, <1>2 DEF R!EXPIRE
  <2>2. QED
    BY <1>1, <1>2, <2>1, ComponentsAssumption DEF R!EXPIRE, LimiterOk, R!TypeOK, R!KeyExpires, R!Phases
<1>3. CASE key.count = 0
  BY <1>1, <1>3, ComponentsAssumption DEF R!EXPIRE, LimiterOk, R!TypeOK, R!KeyExpires, R!Phases
<1>4. QED
  BY <1>1, <1>2, <1>3

(* Any command may be the one that fails; the failures count it.           *)
LEMMA FailureStep ==
  ASSUME LimiterOk, NEW c \in Calls, R!RedisFails(c) PROVE LimiterOk'
<1>1. key \in [count : Nat, ttl : 0 .. window] /\ redisFailures' > 0
  BY ComponentsAssumption DEF LimiterOk, R!TypeOK, R!RedisFails
<1>2. /\ key' \in [count : Nat, ttl : 0 .. window]
      /\ key'.count = 0 => key'.ttl = 0
  BY <1>1, ComponentsAssumption DEF LimiterOk, R!RedisFails
<1>3. QED
  BY <1>1, <1>2, ComponentsAssumption DEF LimiterOk, R!TypeOK, R!RedisFails, R!KeyExpires, R!Phases

(* Time takes a counter away when its own comes to an end.                 *)
LEMMA TickStep ==
  ASSUME LimiterOk, R!Tick PROVE LimiterOk'
<1>1. key \in [count : Nat, ttl : 0 .. window]
  BY DEF LimiterOk, R!TypeOK
<1>2. /\ key' \in [count : Nat, ttl : 0 .. window]
      /\ key'.count = 0 => key'.ttl = 0
      /\ key'.count > 0 /\ key'.ttl = 0 => key' = key
  BY <1>1, ComponentsAssumption DEF LimiterOk, R!Tick, R!Absent
<1>3. QED
  BY <1>1, <1>2, ComponentsAssumption DEF LimiterOk, R!TypeOK, R!Tick, R!KeyExpires

-----------------------------------------------------------------------------

LEMMA LimiterInvariance ==
  ASSUME LimiterOk, [R!Next]_(R!vars) PROVE LimiterOk'
<1>1. CASE UNCHANGED R!vars
  BY <1>1 DEF LimiterOk, R!TypeOK, R!KeyExpires, R!vars
<1>2. CASE R!Next
  <2>1. ASSUME NEW c \in Calls, R!Judge(c) PROVE LimiterOk'
    BY <2>1 DEF R!Judge, LimiterOk, R!TypeOK, R!KeyExpires, R!Phases
  <2>2. QED
    BY <1>2, <2>1, CountStep, ExpireStep, FailureStep, TickStep DEF R!Next
<1>3. QED
  BY <1>1, <1>2

LEMMA LimiterInitially == R!Init => LimiterOk
  BY ComponentsAssumption DEF R!Init, LimiterOk, R!TypeOK, R!KeyExpires, R!Absent, R!Phases

-----------------------------------------------------------------------------
(* LabManager.                                                             *)

\* The generations are counted as any set is.
LEMMA SameLabCardinality == \A T : L!Cardinality(T) = Cardinality(T)
BY DEF L!Cardinality, Cardinality, L!IsFiniteSet, IsFiniteSet

\* Containers and requests.
LabType == [status : {"none", "running", "exited"}, gen : L!Gens]
LabCallType == [at : L!Steps, op : L!Operations \cup {"none"}, lab : Labs \cup {NoLab}, gen : L!Gens]

\* Requests that may still give a lab a container, and the steps of the others.
Spent == {"connect", "done", "error"}
Live == {r \in LabRequests : request[r].at \notin Spent}

\* A step removes only what its operation may remove.
Sensible(c) ==
  /\ c.at # "new" => c.lab \in Labs
  /\ c.at = "stop" => c.op \in {"stop", "reset", "delete"}
  /\ c.at = "remove" => c.op \in {"reset", "delete"}
  /\ c.at = "rmnet" => c.op = "delete"

\* What a reset has removed, it or another one is about to run again.
Kept(l) == l \in networks /\ (L!Exists(l) \/ \E r \in LabRequests : request[r].lab = l /\ request[r].at = "run")

\* Each request still under way can number at most one more container.
GenInv == \A l \in Labs : container[l].gen + Cardinality(Live) <= Cardinality(LabRequests)

(* The invariant of LabManager: while the daemon has not failed, a lab that
   is to stay is kept at every point of every reset.                       *)
LabOk ==
  /\ L!TypeOK
  /\ GenInv
  /\ \A r \in LabRequests :
       Sensible(request[r]) /\ (request[r].op = "delete" => request[r].lab \in unmade)
  /\ labFailures = 0 => \A l \in made \ unmade : Kept(l)

\* Each request that has not ended may make one container more, no other.
LEMMA GenStep ==
  ASSUME LabOk, NEW r \in LabRequests, NEW c, r \in Live \/ c.at \in Spent,
         request' = [request EXCEPT ![r] = c],
         \A l \in Labs : container'[l].gen \in Nat
           /\ \/ container'[l].gen = container[l].gen
              \/ container'[l].gen = container[l].gen + 1 /\ r \in Live /\ c.at \in Spent
  PROVE  GenInv' /\ \A l \in Labs : container'[l].gen \in L!Gens
<1>1. IsFiniteSet(LabRequests) /\ IsFiniteSet(Live) /\ Live' \subseteq Live /\ IsFiniteSet(Live')
  <2>1. Live \subseteq LabRequests /\ Live' \subseteq Live
    BY DEF Live, LabOk, L!TypeOK
  <2>2. QED
    BY <2>1, FS_Subset, ComponentsAssumption
<1>2. /\ Cardinality(LabRequests) \in Nat /\ Cardinality(Live) \in Nat /\ Cardinality(Live') \in Nat
      /\ Cardinality(Live') <= Cardinality(Live)
  BY <1>1, FS_CardinalityType, FS_Subset
<1>3. r \in Live /\ c.at \in Spent => Cardinality(Live') = Cardinality(Live) - 1
  <2>1. r \in Live /\ c.at \in Spent => Live' = Live \ {r}
    BY DEF Live, LabOk, L!TypeOK
  <2>2. QED
    BY <1>1, <2>1, FS_RemoveElement
<1>4. ASSUME NEW l \in Labs
      PROVE  container'[l].gen + Cardinality(Live') <= Cardinality(LabRequests)
  <2>1. container[l].gen \in Nat /\ container[l].gen + Cardinality(Live) <= Cardinality(LabRequests)
    BY SameLabCardinality, <1>2 DEF LabOk, GenInv, L!TypeOK, L!Gens
  <2>2. QED
    BY <1>2, <1>3, <2>1
<1>5. QED
  BY <1>2, <1>4, SameLabCardinality DEF GenInv, L!Gens

\* A step that keeps the labs keeps the invariant.
LEMMA LabMove ==
  ASSUME LabOk, NEW r \in LabRequests, NEW c \in LabCallType, r \in Live \/ c.at \in Spent,
         request' = [request EXCEPT ![r] = c],
         container' \in [Labs -> [status : {"none", "running", "exited"}, gen : Nat]],
         \A l \in Labs : \/ container'[l].gen = container[l].gen
                         \/ container'[l].gen = container[l].gen + 1 /\ r \in Live /\ c.at \in Spent,
         networks' \in SUBSET Labs, made' \in SUBSET Labs, unmade' \in SUBSET Labs,
         labFailures' \in 0 .. MaxLabFailures, unmade \subseteq unmade',
         Sensible(c), c.op = "delete" => c.lab \in unmade',
         labFailures' = 0 => \A l \in made' \ unmade' : Kept(l)'
  PROVE  LabOk'
<1>1. GenInv' /\ \A l \in Labs : container'[l].gen \in L!Gens
  BY GenStep
<1>2. container' \in [Labs -> LabType]
  BY <1>1 DEF LabType
<1>3. request' \in [LabRequests -> LabCallType]
  BY DEF LabOk, L!TypeOK, LabCallType
<1>4. L!TypeOK'
  BY <1>2, <1>3 DEF L!TypeOK, LabType, LabCallType
<1>5. ASSUME NEW q \in LabRequests
      PROVE  (Sensible(request[q]) /\ (request[q].op = "delete" => request[q].lab \in unmade))'
  BY DEF LabOk, L!TypeOK, Sensible
<1>6. QED
  BY <1>1, <1>4, <1>5 DEF LabOk

\* A step further on the way of the same operation.
LEMMA LabGoes ==
  ASSUME LabOk, NEW r \in LabRequests, NEW at \in L!Steps
  PROVE  /\ request[r] \in LabCallType /\ [request[r] EXCEPT !.at = at] \in LabCallType
         /\ [request EXCEPT ![r].at = at] = [request EXCEPT ![r] = [request[r] EXCEPT !.at = at]]
BY DEF LabOk, L!TypeOK, LabCallType

\* Containers, without the bound on what they are numbered by.
PlainLab == [status : {"none", "running", "exited"}, gen : Nat]

LEMMA LabTypes == LabOk => container \in [Labs -> PlainLab] /\ \A l \in Labs : container[l].gen \in Nat
BY DEF LabOk, L!TypeOK, PlainLab, L!Gens

LEMMA LabPut ==
  ASSUME LabOk, NEW l \in Labs, NEW d \in PlainLab, container' = [container EXCEPT ![l] = d]
  PROVE  /\ container' \in [Labs -> PlainLab] /\ container'[l] = d
         /\ \A k \in Labs \ {l} : container'[k] = container[k]
BY LabTypes

\* A request that has nothing to run yet may move while the labs stay.
LEMMA StillKept ==
  ASSUME LabOk, NEW r \in LabRequests, request[r].at # "run", NEW c \in LabCallType,
         request' = [request EXCEPT ![r] = c], container' = container, networks \subseteq networks'
  PROVE  \A l \in Labs : Kept(l) => Kept(l)'
<1>1. \A q \in LabRequests : request[q].at = "run" => request'[q] = request[q]
  BY DEF LabOk, L!TypeOK
<1>2. QED
  BY <1>1 DEF Kept, L!Exists

LEMMA LabBegin ==
  ASSUME LabOk, NEW r \in LabRequests, L!BeginCreate(r) \/ L!Find(r) \/ L!CreateNetwork(r)
  PROVE  LabOk'
<1>. USE DEF L!Steps, L!Operations
<1>1. CASE L!BeginCreate(r)
  <2>1. PICK l \in Labs :
          request' = [request EXCEPT ![r] = [at |-> "network", op |-> "create", lab |-> l, gen |-> 0]]
    BY <1>1 DEF L!BeginCreate
  <2> DEFINE c == [at |-> "network", op |-> "create", lab |-> l, gen |-> 0]
  <2>2. c \in LabCallType
    BY SameLabCardinality, FS_CardinalityType, ComponentsAssumption DEF LabCallType, L!Gens
  <2>3. r \in Live /\ request[r].at # "run" /\ UNCHANGED <<container, networks, made, unmade, labFailures>>
    BY <1>1 DEF L!BeginCreate, L!At, Live, Spent
  <2>4. \A k \in Labs : Kept(k) => Kept(k)'
    BY <2>1, <2>2, <2>3, StillKept
  <2>5. labFailures' = 0 => \A k \in made' \ unmade' : Kept(k)'
    BY <2>3, <2>4 DEF LabOk, L!TypeOK
  <2>6. Sensible(c)
    BY DEF Sensible
  <2>7. QED
    BY <2>1, <2>2, <2>3, <2>5, <2>6, LabMove, LabTypes DEF LabOk, L!TypeOK, PlainLab
<1>2. CASE L!Find(r)
  <2>1. PICK l \in made : \E o \in L!Operations \ {"create"} :
          /\ request' = [request EXCEPT ![r] =
               [at |-> IF L!Exists(l) THEN L!First[o] ELSE "error", op |-> o, lab |-> l,
                gen |-> container[l].gen]]
          /\ unmade' = IF o = "delete" THEN unmade \cup {l} ELSE unmade
    BY <1>2 DEF L!Find
  <2>2. PICK o \in L!Operations \ {"create"} :
          /\ request' = [request EXCEPT ![r] =
               [at |-> IF L!Exists(l) THEN L!First[o] ELSE "error", op |-> o, lab |-> l,
                gen |-> container[l].gen]]
          /\ unmade' = IF o = "delete" THEN unmade \cup {l} ELSE unmade
    BY <2>1
  <2> DEFINE c == [at |-> IF L!Exists(l) THEN L!First[o] ELSE "error", op |-> o, lab |-> l,
                   gen |-> container[l].gen]
  <2>3. l \in Labs /\ container[l].gen \in L!Gens
    BY DEF LabOk, L!TypeOK
  <2>4. L!First[o] \in {"start", "stop"} /\ (L!First[o] = "stop" => o \in {"stop", "reset", "delete"})
    BY DEF L!First
  <2>5. c \in LabCallType /\ Sensible(c) /\ (c.op = "delete" => c.lab \in unmade')
    BY <2>2, <2>3, <2>4 DEF LabCallType, Sensible
  <2>6. /\ r \in Live /\ request[r].at # "run" /\ UNCHANGED <<container, networks, made, labFailures>>
        /\ unmade \subseteq unmade' /\ unmade' \in SUBSET Labs
    BY <1>2, <2>2, <2>3 DEF L!Find, L!At, Live, Spent, LabOk, L!TypeOK
  <2>7. \A k \in Labs : Kept(k) => Kept(k)'
    BY <2>2, <2>6, <2>5, StillKept
  <2>8. labFailures' = 0 => \A k \in made' \ unmade' : Kept(k)'
    BY <2>6, <2>7 DEF LabOk, L!TypeOK
  <2>10. QED
    BY <2>2, <2>6, <2>8, <2>5, LabMove, LabTypes DEF LabOk, L!TypeOK, PlainLab
<1>3. CASE L!CreateNetwork(r)
  <2> DEFINE c == [request[r] EXCEPT !.at = "run"]
  <2>1. /\ request[r].at = "network" /\ request' = [request EXCEPT ![r] = c] /\ c \in LabCallType
        /\ networks' = networks \cup {request[r].lab}
        /\ UNCHANGED <<container, made, unmade, labFailures>>
    BY <1>3, LabGoes DEF L!CreateNetwork, L!At, L!Goes, L!Lab
  <2>2. c.at = "run" /\ c.op = request[r].op /\ c.lab = request[r].lab /\ request[r].lab \in Labs
    BY <2>1, LabGoes DEF LabOk, LabCallType, Sensible
  <2>3. Sensible(c) /\ (c.op = "delete" => c.lab \in unmade')
    BY <2>1, <2>2 DEF LabOk, Sensible
  <2>4. r \in Live /\ networks' \in SUBSET Labs
    BY <2>1, <2>2 DEF Live, Spent, LabOk, L!TypeOK
  <2>5. labFailures' = 0 => \A k \in made' \ unmade' : Kept(k)'
    BY <2>1, StillKept DEF LabOk, L!TypeOK
  <2>6. QED
    BY <2>1, <2>3, <2>4, <2>5, LabMove, LabTypes DEF LabOk, L!TypeOK, PlainLab
<1>4. QED
  BY <1>1, <1>2, <1>3

\* What a step on the same way leaves of the request.
LEMMA LabOnward ==
  ASSUME LabOk, NEW r \in LabRequests, NEW at \in L!Steps, request[r].at # "new",
         request' = [request EXCEPT ![r].at = at]
  PROVE  LET c == [request[r] EXCEPT !.at = at] IN
         /\ c \in LabCallType /\ request' = [request EXCEPT ![r] = c]
         /\ c.at = at /\ c.op = request[r].op /\ c.lab = request[r].lab /\ request[r].lab \in Labs
<1>1. request[r].lab \in Labs
  BY DEF LabOk, Sensible
<1>2. request[r] \in LabCallType
  BY LabGoes
<1>3. QED
  BY <1>1, <1>2, LabGoes DEF LabCallType

\* A call on the container the request has found: the lab stays as it is kept.
LEMMA LabCall ==
  ASSUME LabOk, NEW r \in LabRequests, L!Missing(r) \/ L!Start(r) \/ L!Stop(r) \/ L!Connect(r)
  PROVE  LabOk'
<1>. USE DEF L!Steps
<1>1. PICK at \in {"done", "error", "remove"} :
        /\ request' = [request EXCEPT ![r].at = at]
        /\ request[r].at \in {"start", "stop", "remove", "connect"}
        /\ at = "remove" \/ at \in Spent
        /\ UNCHANGED <<networks, made, unmade, labFailures>>
        /\ \/ container' = container
           \/ /\ L!Same(r)
              /\ \E status \in {"running", "exited"} : container' = [container EXCEPT ![request[r].lab].status = status]
        /\ at = "remove" => request[r].at = "stop" /\ request[r].op # "stop"
  BY DEF L!Missing, L!Start, L!Stop, L!Connect, L!Goes, L!At, L!Lab, Spent
<1> DEFINE c == [request[r] EXCEPT !.at = at]
<1>2. /\ c \in LabCallType /\ request' = [request EXCEPT ![r] = c] /\ (r \in Live \/ c.at \in Spent)
      /\ c.at = at /\ c.op = request[r].op /\ c.lab = request[r].lab /\ request[r].lab \in Labs
  <2>1. r \in Live \/ at \in Spent
    BY <1>1 DEF Live, Spent
  <2>2. at \in L!Steps /\ request[r].at # "new" /\ request' = [request EXCEPT ![r].at = at]
    BY <1>1
  <2>3. QED
    BY <2>1, <2>2, LabOnward
<1>3. Sensible(c) /\ (c.op = "delete" => c.lab \in unmade')
  BY <1>1, <1>2 DEF LabOk, Sensible
<1>4. \A l \in Labs : container'[l].gen = container[l].gen /\ (L!Exists(l) => L!Exists(l)')
  <2>1. container[request[r].lab] \in PlainLab /\ request[r].lab \in Labs
    BY <1>2, LabTypes
  <2>2. \A s \in {"running", "exited"} :
          LET x == [container[request[r].lab] EXCEPT !.status = s]
          IN  x \in PlainLab /\ x.gen = container[request[r].lab].gen /\ x.status = s
    BY <2>1 DEF PlainLab
  <2>3. \/ container' = container
        \/ \E s \in {"running", "exited"} :
             container' = [container EXCEPT ![request[r].lab] = [container[request[r].lab] EXCEPT !.status = s]]
    BY <1>1
  <2>4. QED
    BY <2>1, <2>2, <2>3, LabPut DEF L!Exists
<1>5. container' \in [Labs -> PlainLab]
  <2>1. \A x \in PlainLab : \A s \in {"running", "exited"} :
          [x EXCEPT !.status = s] \in PlainLab
    BY DEF PlainLab
  <2>2. CASE container' = container
    BY <2>2, LabTypes
  <2>3. ASSUME NEW s \in {"running", "exited"}, container' = [container EXCEPT ![request[r].lab].status = s]
        PROVE  container' \in [Labs -> PlainLab]
    <3>1. container' = [container EXCEPT ![request[r].lab] = [container[request[r].lab] EXCEPT !.status = s]]
      BY <2>3
    <3>2. QED
      BY <2>1, <3>1, <1>2, LabTypes
  <2>4. QED
    BY <1>1, <2>2, <2>3
<1>6. labFailures' = 0 => \A l \in made' \ unmade' : Kept(l)'
  <2>1. \A q \in LabRequests : request[q].at = "run" => request'[q] = request[q]
    BY <1>1, <1>2 DEF LabOk, L!TypeOK
  <2>2. \A l \in Labs : Kept(l) => Kept(l)'
    BY <1>1, <1>4, <2>1 DEF Kept
  <2>3. QED
    BY <1>1, <2>2 DEF LabOk, L!TypeOK
<1>7. QED
  BY <1>1, <1>2, <1>3, <1>4, <1>5, <1>6, LabMove DEF LabOk, L!TypeOK, PlainLab

\* What a reset removes it goes on to run; a delete has taken the lab out of account.
LEMMA LabRemove ==
  ASSUME LabOk, NEW r \in LabRequests, L!Remove(r) \/ L!RemoveNetwork(r)
  PROVE  LabOk'
<1>. USE DEF L!Steps
<1>1. PICK at \in {"done", "error", "run", "rmnet"} :
        /\ request' = [request EXCEPT ![r].at = at]
        /\ request[r].at \in {"remove", "rmnet"}
        /\ UNCHANGED <<made, unmade, labFailures>>
        /\ \/ container' = container /\ networks' = networks /\ at = "error"
           \/ /\ container' = [container EXCEPT ![request[r].lab].status = "none"] /\ networks' = networks
              /\ request[r].at = "remove" /\ at = IF request[r].op = "reset" THEN "run" ELSE "rmnet"
           \/ /\ networks' = networks \ {request[r].lab} /\ container' = container
              /\ request[r].at = "rmnet" /\ at = "done"
  BY DEF L!Remove, L!RemoveNetwork, L!Goes, L!At, L!Lab
<1> DEFINE c == [request[r] EXCEPT !.at = at]
<1>2. /\ c \in LabCallType /\ request' = [request EXCEPT ![r] = c] /\ r \in Live
      /\ c.at = at /\ c.op = request[r].op /\ c.lab = request[r].lab /\ request[r].lab \in Labs
      /\ request[r].op \in {"reset", "delete"}
  <2>1. r \in Live
    BY <1>1 DEF Live, Spent
  <2>2. request[r].op \in {"reset", "delete"}
    BY <1>1 DEF LabOk, Sensible
  <2>3. at \in L!Steps /\ request[r].at # "new" /\ request' = [request EXCEPT ![r].at = at]
    BY <1>1
  <2>4. QED
    BY <2>1, <2>2, <2>3, LabOnward
<1>3. Sensible(c) /\ (c.op = "delete" => c.lab \in unmade')
  BY <1>1, <1>2 DEF LabOk, Sensible
<1>4. /\ container' \in [Labs -> PlainLab]
      /\ \A l \in Labs : container'[l].gen = container[l].gen
  <2>1. \A x \in PlainLab :
          /\ [x EXCEPT !.status = "none"] \in PlainLab
          /\ [x EXCEPT !.status = "none"].gen = x.gen
    BY DEF PlainLab
  <2>2. \/ container' = container
        \/ container' = [container EXCEPT ![request[r].lab] = [container[request[r].lab] EXCEPT !.status = "none"]]
    BY <1>1
  <2>3. container[request[r].lab] \in PlainLab
    BY <1>2, LabTypes
  <2>4. QED
    BY <1>2, <2>1, <2>2, <2>3, LabPut, LabTypes
<1>5. labFailures' = 0 => \A l \in made' \ unmade' : Kept(l)'
  <2> SUFFICES ASSUME NEW l \in made \ unmade, Kept(l) PROVE Kept(l)'
    BY <1>1 DEF LabOk, L!TypeOK
  <2>1. l \in Labs /\ (request[r].lab = l => request[r].op = "reset")
    BY <1>2 DEF LabOk, L!TypeOK
  <2>2. l \in networks'
    BY <1>1, <1>2, <2>1 DEF Kept, LabOk, Sensible
  <2>3. CASE request[r].lab = l /\ at = "run"
    BY <1>1, <1>2, <2>2, <2>3 DEF Kept, LabOk, L!TypeOK
  <2>4. CASE ~(request[r].lab = l /\ at = "run")
    <3>1. container'[l] = container[l]
      BY <1>1, <2>1, <2>4, LabTypes
    <3>2. \A q \in LabRequests : request[q].at = "run" => request'[q] = request[q]
      BY <1>1, <1>2 DEF LabOk, L!TypeOK
    <3>3. QED
      BY <2>2, <3>1, <3>2 DEF Kept, L!Exists
  <2>5. QED
    BY <2>3, <2>4
<1>6. networks' \in SUBSET Labs
  BY <1>1 DEF LabOk, L!TypeOK
<1>7. \A l \in Labs :
        \/ container'[l].gen = container[l].gen
        \/ container'[l].gen = container[l].gen + 1 /\ r \in Live /\ c.at \in Spent
  BY <1>4
<1>8. /\ made' \in SUBSET Labs /\ unmade' \in SUBSET Labs
      /\ unmade' = unmade /\ labFailures' \in 0 .. MaxLabFailures
  BY <1>1 DEF LabOk, L!TypeOK
<1>9. QED
  BY <1>2, <1>3, <1>4, <1>5, <1>6, <1>7, <1>8, LabMove DEF PlainLab

\* What Makes() does to the containers.
LEMMA LabMakes ==
  ASSUME LabOk, NEW l \in Labs, NEW status \in {"running", "exited"},
         container' = [container EXCEPT ![l] = [status |-> status, gen |-> @.gen + 1]]
  PROVE  /\ container' \in [Labs -> PlainLab] /\ container[l].gen \in Nat /\ container'[l].status # "none"
         /\ \A k \in Labs : container'[k].gen = container[k].gen \/ container'[k].gen = container[k].gen + 1
         /\ \A k \in Labs \ {l} : container'[k] = container[k]
<1> DEFINE d == [status |-> status, gen |-> container[l].gen + 1]
<1>1. container[l].gen \in Nat /\ d \in PlainLab
  BY LabTypes DEF PlainLab
<1>2. QED
  BY <1>1, LabPut

\* The container this request has made is numbered as any other.
LEMMA NextGen ==
  ASSUME LabOk, NEW r \in Live, NEW l \in Labs
  PROVE  container[l].gen + 1 \in L!Gens
<1>1. IsFiniteSet(Live) /\ Live \subseteq LabRequests
  BY FS_Subset, ComponentsAssumption DEF Live
<1>2. Cardinality(Live) \in Nat /\ Cardinality(Live) # 0 /\ Cardinality(LabRequests) \in Nat
  BY <1>1, FS_CardinalityType, FS_EmptySet, ComponentsAssumption
<1>3. container[l].gen \in Nat /\ container[l].gen + Cardinality(Live) <= Cardinality(LabRequests)
  BY LabTypes DEF LabOk, GenInv
<1>4. QED
  BY <1>2, <1>3, SameLabCardinality DEF L!Gens

\* Of two that run a lab's container, the one that comes too late leaves the other's.
LEMMA LabRun ==
  ASSUME LabOk, NEW r \in LabRequests, L!Run(r)
  PROVE  LabOk'
<1>. USE DEF L!Steps
<1>1. request[r].at = "run" /\ UNCHANGED <<networks, unmade, labFailures>> /\ r \in Live
  BY DEF L!Run, L!At, Live, Spent
<1>2. request[r].lab \in Labs /\ request[r] \in LabCallType
  BY <1>1, LabGoes DEF LabOk, Sensible
<1>3. networks' \in SUBSET Labs /\ unmade' \in SUBSET Labs /\ labFailures' \in 0 .. MaxLabFailures
  BY <1>1 DEF LabOk, L!TypeOK
<1>4. CASE L!MayRun(r)
  <2> DEFINE c == [request[r] EXCEPT !.at = "connect", !.gen = container[request[r].lab].gen + 1]
  <2>1. /\ container' = [container EXCEPT ![request[r].lab] = [status |-> "running", gen |-> @.gen + 1]]
        /\ made' = made \cup {request[r].lab} /\ request[r].lab \in networks
        /\ request' = [request EXCEPT ![r].at = "connect", ![r].gen = container[request[r].lab].gen + 1]
    BY <1>4 DEF L!Run, L!MayRun, L!Makes, L!Lab
  <2>2. container[request[r].lab].gen + 1 \in L!Gens
    BY <1>1, <1>2, NextGen
  <2>3. /\ c \in LabCallType /\ request' = [request EXCEPT ![r] = c]
        /\ c.at = "connect" /\ c.op = request[r].op /\ c.lab = request[r].lab
    BY <1>2, <2>1, <2>2 DEF LabCallType, LabOk, L!TypeOK
  <2>4. /\ container' \in [Labs -> PlainLab] /\ container'[request[r].lab].status # "none"
        /\ \A k \in Labs : container'[k].gen = container[k].gen \/ container'[k].gen = container[k].gen + 1
        /\ \A k \in Labs \ {request[r].lab} : container'[k] = container[k]
    BY <1>2, <2>1, LabMakes
  <2>5. labFailures' = 0 => \A l \in made' \ unmade' : Kept(l)'
    <3> SUFFICES ASSUME labFailures = 0, NEW l \in made' \ unmade PROVE Kept(l)'
      BY <1>1
    <3>1. CASE l = request[r].lab
      BY <1>1, <2>1, <2>4, <3>1 DEF Kept, L!Exists
    <3>2. CASE l # request[r].lab
      <4>1. Kept(l) /\ l \in Labs
        BY <2>1, <3>2 DEF LabOk, L!TypeOK
      <4>2. \A q \in LabRequests : request[q].lab = l => request'[q] = request[q]
        BY <2>3, <3>2 DEF LabOk, L!TypeOK
      <4>3. QED
        BY <1>1, <2>4, <3>2, <4>1, <4>2 DEF Kept, L!Exists
    <3>3. QED
      BY <3>1, <3>2
  <2>6. Sensible(c) /\ (c.op = "delete" => c.lab \in unmade')
    BY <1>1, <1>2, <2>3 DEF LabOk, Sensible
  <2>7. \A l \in Labs : \/ container'[l].gen = container[l].gen
                        \/ container'[l].gen = container[l].gen + 1 /\ r \in Live /\ c.at \in Spent
    BY <1>1, <2>3, <2>4 DEF Spent
  <2>8. made' \in SUBSET Labs
    BY <1>2, <2>1 DEF LabOk, L!TypeOK
  <2>9. QED
    BY <1>1, <1>3, <2>3, <2>4, <2>5, <2>6, <2>7, <2>8, LabMove DEF PlainLab
<1>5. CASE ~L!MayRun(r)
  <2> DEFINE c == [request[r] EXCEPT !.at = "error"]
  <2>1. /\ request' = [request EXCEPT ![r].at = "error"] /\ UNCHANGED <<container, made>>
        /\ L!Exists(request[r].lab) \/ request[r].lab \notin networks
    BY <1>1, <1>5 DEF L!Run, L!MayRun, L!Goes, L!At, L!Lab
  <2>2. /\ c \in LabCallType /\ request' = [request EXCEPT ![r] = c]
        /\ c.at = "error" /\ c.op = request[r].op /\ c.lab = request[r].lab
    BY <1>1, <2>1, LabOnward
  <2>3. labFailures' = 0 => \A l \in made' \ unmade' : Kept(l)'
    <3> SUFFICES ASSUME labFailures = 0, NEW l \in made \ unmade, Kept(l) PROVE Kept(l)'
      BY <1>1, <2>1 DEF LabOk
    <3>1. \A q \in LabRequests \ {r} : request'[q] = request[q]
      BY <2>2 DEF LabOk, L!TypeOK
    <3>2. QED
      BY <1>1, <2>1, <3>1 DEF Kept, L!Exists
  <2>4. Sensible(c) /\ (c.op = "delete" => c.lab \in unmade')
    BY <1>1, <1>2, <2>2 DEF LabOk, Sensible
  <2>5. QED
    BY <1>1, <1>3, <2>1, <2>2, <2>3, <2>4, LabMove, LabTypes DEF LabOk, L!TypeOK, PlainLab
<1>6. QED
  BY <1>4, <1>5

\* Nothing that a failing call leaves is looked at: not before it either.
LEMMA LabFail ==
  ASSUME LabOk, NEW r \in LabRequests, L!Fail(r) PROVE LabOk'
<1> DEFINE c == [request[r] EXCEPT !.at = "error"]
<1>1. /\ request[r].at \notin {"new", "done", "error"} /\ request' = [request EXCEPT ![r].at = "error"]
      /\ labFailures < MaxLabFailures /\ labFailures' = labFailures + 1
      /\ UNCHANGED <<networks, unmade>>
  BY DEF L!Fail, L!Goes
<1>2. "error" \in L!Steps
  BY DEF L!Steps
<1>3. /\ c \in LabCallType /\ request' = [request EXCEPT ![r] = c] /\ c.at \in Spent
      /\ c.at = "error" /\ c.op = request[r].op /\ c.lab = request[r].lab /\ request[r].lab \in Labs
  BY <1>1, <1>2, LabOnward DEF Spent
<1>4. Sensible(c) /\ (c.op = "delete" => c.lab \in unmade')
  BY <1>1, <1>3 DEF LabOk, Sensible
<1>5. labFailures' \in 0 .. MaxLabFailures /\ labFailures' # 0
  BY <1>1, ComponentsAssumption DEF LabOk, L!TypeOK
<1>6. /\ container' \in [Labs -> PlainLab] /\ made' \in SUBSET Labs
      /\ \A l \in Labs : \/ container'[l].gen = container[l].gen
                         \/ container'[l].gen = container[l].gen + 1 /\ r \in Live /\ c.at \in Spent
  <2>1. CASE UNCHANGED <<container, made>>
    BY <2>1, LabTypes DEF LabOk, L!TypeOK
  <2>2. CASE L!MayRun(r) /\ L!Makes(r, "exited")
    <3>1. /\ r \in Live /\ made' = made \cup {request[r].lab}
          /\ container' = [container EXCEPT ![request[r].lab] = [status |-> "exited", gen |-> @.gen + 1]]
      BY <2>2 DEF L!MayRun, L!Makes, L!Lab, L!At, Live, Spent
    <3>2. made' \in SUBSET Labs
      BY <1>3, <3>1 DEF LabOk, L!TypeOK
    <3>3. QED
      BY <1>3, <3>1, <3>2, LabMakes
  <2>3. QED
    BY <2>1, <2>2 DEF L!Fail
<1>7. networks' \in SUBSET Labs /\ unmade' \in SUBSET Labs /\ unmade' = unmade
  BY <1>1 DEF LabOk, L!TypeOK
<1>8. QED
  BY <1>3, <1>4, <1>5, <1>6, <1>7, LabMove DEF PlainLab

LEMMA LabInvariance ==
  ASSUME LabOk, [L!Next]_(L!vars) PROVE LabOk'
<1>1. CASE UNCHANGED L!vars
  BY <1>1 DEF LabOk, L!TypeOK, GenInv, Live, Spent, Sensible, Kept, L!Exists, L!vars
<1>2. CASE L!Next
  BY <1>2, LabBegin, LabCall, LabRemove, LabRun, LabFail DEF L!Next
<1>3. QED
  BY <1>1, <1>2

LEMMA LabInitially == L!Init => LabOk
<1> SUFFICES ASSUME L!Init PROVE LabOk
  OBVIOUS
<1>1. Live = LabRequests
  BY DEF L!Init, Live, Spent
<1>2. Cardinality(LabRequests) \in Nat
  BY FS_CardinalityType, ComponentsAssumption
<1>3. L!TypeOK
  <2>1. 0 \in L!Gens
    BY <1>2, SameLabCardinality DEF L!Gens
  <2>2. QED
    BY <2>1, ComponentsAssumption DEF L!Init, L!TypeOK, L!None, L!Steps
<1>4. GenInv
  BY <1>1, <1>2 DEF L!Init, L!None, GenInv
<1>5. QED
  BY <1>3, <1>4 DEF LabOk, L!Init, Sensible

-----------------------------------------------------------------------------
(* DiffEngine.                                                             *)

\* The successes are counted as any set is.
LEMMA SameDiffCardinality == \A T : D!Cardinality(T) = Cardinality(T)
BY DEF D!Cardinality, Cardinality, D!IsFiniteSet, IsFiniteSet

(* A set of numbers that is bounded has a greatest one: what is above an
   element is a smaller set the greater the element.                       *)
LEMMA Greatest ==
  ASSUME NEW n \in Nat, NEW T \in SUBSET (1 .. n), T # {}
  PROVE  D!Max(T) \in T /\ \A y \in T : y <= D!Max(T)
<1> DEFINE Above(x) == {y \in T : y > x}
           Sets == {Above(x) : x \in T}
<1>1. IsFiniteSet(T) /\ T \subseteq Int
  <2>1. IsFiniteSet(1 .. n)
    BY FS_Interval
  <2>2. IsFiniteSet(T)
    BY <2>1, FS_Subset
  <2>3. QED
    BY <2>2
<1>2. Sets \subseteq FiniteSubsetsOf(T) /\ Sets # {}
  <2>1. \A x \in T : Above(x) \in SUBSET T /\ IsFiniteSet(Above(x))
    BY <1>1, FS_Subset
  <2>2. QED
    BY <2>1 DEF FiniteSubsetsOf
<1>3. PICK U \in Sets : \A V \in Sets : <<V, U>> \notin StrictSubsetOrdering(T)
  BY <1>2, FS_StrictSubsetOrderingWellFounded, WFMin, Zenon
<1>4. PICK x \in T : U = Above(x)
  BY <1>3
<1>5. \A y \in T : y <= x
  <2> SUFFICES ASSUME NEW y \in T, y > x PROVE FALSE
    OBVIOUS
  <2>0. x \in Int /\ y \in Int /\ y > x /\ ~(y > y) /\ \A z \in T : z > y => z > x
    BY <1>1, <1>4
  <2>1. Above(y) \subseteq Above(x) /\ y \in Above(x) /\ y \notin Above(y)
    BY <2>0
  <2>2. Above(y) \in SUBSET T /\ Above(x) \in SUBSET T /\ Above(y) # Above(x)
    BY <2>1
  <2>3. <<Above(y), Above(x)>> \in StrictSubsetOrdering(T)
    BY <2>1, <2>2 DEF StrictSubsetOrdering
  <2>4. QED
    BY <1>3, <1>4, <2>3
<1>6. \E z \in T : \A y \in T : z >= y
  BY <1>5
<1>7. D!Max(T) \in T /\ \A y \in T : D!Max(T) >= y
  BY <1>6 DEF D!Max
<1>8. QED
  BY <1>7

\* A job that is over, and one that began when all older ones were.
Ended(k) == jobPhase[k] \in {"success", "failed"}
Serial(k) == \A n \in 1 .. k - 1 : <<n, k>> \notin jobsOverlapped

\* What no older job overlapped rests on jobs that are over.
SerialInv ==
  \A k \in D!Jobs : jobPhase[k] \in {"compared", "success"} /\ Serial(k) =>
    /\ \A n \in 1 .. k - 1 : Ended(n)
    /\ events[k] = D!generate_change_events(k, result[k])

(* The invariant of DiffEngine.                                            *)
DiffOk == D!TypeOK /\ SerialInv /\ D!NoChangeIsLost

LEMMA DiffConstants ==
  /\ D!Jobs \subseteq Nat \ {0} /\ MaxJobs \in Nat
  /\ \A k \in D!Jobs : 1 .. k - 1 \subseteq D!Jobs /\ k - 1 \in Nat
BY ComponentsAssumption DEF D!Jobs

\* The baseline is a success before the job, the last that was looked at.
LEMMA Baseline ==
  ASSUME NEW k \in D!Jobs, D!Comparable(k) # {}
  PROVE  LET p == D!find_previous_comparable_job(k) IN
         /\ p \in 1 .. k - 1 /\ jobPhase[p] = "success" /\ setting[p] = setting[k]
         /\ \A y \in D!Comparable(k) : y <= p
<1>1. D!Comparable(k) \in SUBSET (1 .. k - 1) /\ k - 1 \in Nat
  BY DiffConstants DEF D!Comparable, D!LookedAt, D!Earlier
<1>2. D!find_previous_comparable_job(k) \in D!Comparable(k)
      /\ \A y \in D!Comparable(k) : y <= D!find_previous_comparable_job(k)
  BY <1>1, Greatest DEF D!find_previous_comparable_job
<1>3. QED
  BY <1>1, <1>2 DEF D!Comparable, D!LookedAt, D!Earlier

\* A comparison is about the jobs before, and they have not changed.
LEMMA SameComparison ==
  ASSUME NEW k \in D!Jobs, NEW r, tool' = tool, setting'[k] = setting[k],
         \A n \in 1 .. k - 1 :
           /\ jobPhase'[n] = "success" <=> jobPhase[n] = "success"
           /\ setting'[n] = setting[n] /\ result'[n] = result[n]
  PROVE  D!generate_change_events(k, r)' = D!generate_change_events(k, r)
<1>1. D!Earlier(k)' = D!Earlier(k)
  BY DEF D!Earlier
<1>2. D!LookedAt(k)' = D!LookedAt(k)
  BY <1>1 DEF D!LookedAt
<1>3. D!Comparable(k)' = D!Comparable(k)
  BY <1>2 DEF D!Comparable, D!LookedAt, D!Earlier
<1>4. CASE D!Comparable(k) = {}
  BY <1>3, <1>4 DEF D!generate_change_events
<1>5. CASE D!Comparable(k) # {}
  <2> DEFINE p == D!find_previous_comparable_job(k)
  <2>1. p' = p /\ result'[p] = result[p]
    BY <1>3, <1>5, Baseline DEF D!find_previous_comparable_job
  <2>2. D!diff_results(result[p].seen, r.seen)' = D!diff_results(result[p].seen, r.seen)
    BY <2>1 DEF D!diff_results
  <2>3. QED
    BY <1>3, <1>5, <2>1, <2>2 DEF D!generate_change_events
<1>6. QED
  BY <1>4, <1>5

(* A step that leaves alone what succeeded loses no change.                *)
LEMMA SuccessesStay ==
  ASSUME DiffOk, tool' = tool,
         \A k \in D!Jobs :
           /\ jobPhase'[k] = "success" <=> jobPhase[k] = "success"
           /\ jobPhase[k] = "success" =>
                /\ setting'[k] = setting[k] /\ result'[k] = result[k] /\ events'[k] = events[k]
                /\ \A n \in 1 .. k - 1 : <<n, k>> \in jobsOverlapped' <=> <<n, k>> \in jobsOverlapped
  PROVE  D!NoChangeIsLost'
<1>1. \A s : D!Successes(s)' = D!Successes(s)
  BY DEF D!Successes
<1>2. \A k \in D!Jobs : D!Earlier(k)' = D!Earlier(k)
  BY DiffConstants DEF D!Earlier
<1>3. \A s : \A j \in D!Successes(s), k \in D!Successes(s) : D!Unbroken(j, k, s)' = D!Unbroken(j, k, s)
  BY <1>1, <1>2 DEF D!Unbroken, D!Successes
<1>4. \A s : \A j \in D!Successes(s) : \A i : D!View(j, i)' = D!View(j, i)
  BY DEF D!View, D!Successes
<1>5. \A s : \A m \in D!Successes(s) : events'[m] = events[m] /\ result'[m] = result[m]
  BY DEF D!Successes
<1>6. \A s, j, k, i : D!Seamless(j, k, s, i)' <=> D!Seamless(j, k, s, i)
  BY <1>1, <1>4, <1>5 DEF D!Seamless
<1>7. D!Compared' = D!Compared
  BY DEF D!Compared
<1>8. QED
  BY <1>1, <1>3, <1>4, <1>5, <1>6, <1>7 DEF DiffOk, D!NoChangeIsLost

LEMMA ChangesAreAbout ==
  ASSUME NEW type, NEW about, NEW i \in about
  PROVE  \E c \in D!Changes(type, about) : c.item = i
<1>1. [type |-> type, item |-> i] \in D!Changes(type, about)
  BY DEF D!Changes
<1>2. QED
  BY <1>1

\* What is reported only where both results have it.
Joint(i) == tool = "sslscan" \/ i \notin Items

\* What two results show differently, the comparison of the two has an event about.
LEMMA DiffersAreReported ==
  ASSUME tool \in D!SUPPORTED_TOOLS, NEW p, NEW k, NEW i \in D!Compared, D!View(p, i) # D!View(k, i),
         Joint(i) => D!View(p, i) # "absent" /\ D!View(k, i) # "absent"
  PROVE  \E c \in D!diff_results(result[p].seen, result[k].seen) : c.item = i
<1> DEFINE old == result[p].seen
           new == result[k].seen
<1>0. /\ tool # "whatweb" => i \in Items
      /\ i \in Items \/ i = "http_status"
  BY DEF D!Compared, D!Fields
<1>1. CASE tool = "nmap"
  <2>1. /\ i \in D!Open(old) \/ i \in D!Open(new)
        /\ old[i] # new[i]
    BY <1>0, <1>1 DEF D!View, D!Open
  <2>2. D!diff_results(old, new) = D!diff_nmap(old, new)
    BY <1>1 DEF D!diff_results
  <2>3. \/ i \in D!Open(new) \ D!Open(old)
        \/ i \in D!Changed(old, new, D!Open(old) \cap D!Open(new))
        \/ i \in D!Open(old) \ D!Open(new)
    BY <2>1 DEF D!Changed
  <2>4. QED
    BY <2>2, <2>3, ChangesAreAbout DEF D!diff_nmap
<1>2. CASE tool = "whatweb"
  <2>1. old[i] # new[i] /\ D!View(p, i) = old[i] /\ D!View(k, i) = new[i]
    BY <1>2 DEF D!View
  <2>2. D!diff_results(old, new) = D!diff_whatweb(old, new)
    BY <1>2 DEF D!diff_results
  <2>3. \/ i \in D!Present(new) \ D!Present(old)
        \/ i \in D!Changed(old, new, D!Present(old) \cap D!Present(new))
        \/ i \in D!Present(old) \ D!Present(new)
        \/ i \in D!Changed(old, new, D!Status(old) \cap D!Status(new))
    BY <1>0, <2>1 DEF D!Changed, D!Present, D!Status, Joint
  <2>4. QED
    BY <2>2, <2>3, ChangesAreAbout DEF D!diff_whatweb
<1>3. CASE tool = "sslscan"
  <2>1. /\ i \in D!Present(old) /\ i \in D!Present(new)
        /\ old[i] # new[i]
    BY <1>0, <1>3 DEF D!View, D!Present, Joint
  <2>2. D!diff_results(old, new) = D!diff_sslscan(old, new)
    BY <1>3 DEF D!diff_results
  <2>3. i \in D!Changed(old, new, D!Present(old) \cap D!Present(new))
    BY <2>1 DEF D!Changed
  <2>4. QED
    BY <2>2, <2>3, ChangesAreAbout DEF D!diff_sslscan
<1>4. CASE tool = "gobuster"
  <2>1. i \in D!Present(old) <=> i \notin D!Present(new)
    BY <1>0, <1>4 DEF D!View, D!Present
  <2>2. D!diff_results(old, new) = D!diff_gobuster(old, new)
    BY <1>4 DEF D!diff_results
  <2>3. i \in D!Present(old) \/ i \in D!Present(new)
    BY <2>1
  <2>4. QED
    BY <2>1, <2>2, <2>3, ChangesAreAbout DEF D!diff_gobuster
<1>5. QED
  BY <1>1, <1>2, <1>3, <1>4 DEF D!SUPPORTED_TOOLS

\* An unbroken job's baseline is the success of its setting before it.
LEMMA BaselineIsLast ==
  ASSUME D!TypeOK, NEW s \in Settings, NEW k \in D!Jobs, setting[k] = s,
         NEW j \in D!Successes(s), j < k,
         NEW n \in D!Successes(s), n < k, D!Cardinality({x \in D!Earlier(k) : x > n}) < LOOKBACK_LIMIT
  PROVE  D!Comparable(k) # {} /\ j <= D!find_previous_comparable_job(k)
<1>1. /\ j \in 1 .. k - 1 /\ n \in 1 .. k - 1 /\ j \in D!Earlier(k) /\ n \in D!Earlier(k)
      /\ setting[j] = s /\ setting[n] = s
  BY DiffConstants DEF D!Successes, D!Earlier
<1>2. n \in D!Comparable(k) /\ D!Comparable(k) # {}
  BY <1>1 DEF D!Comparable, D!LookedAt
<1>3. CASE j <= n
  <2>1. n <= D!find_previous_comparable_job(k) /\ D!find_previous_comparable_job(k) \in 1 .. k - 1
    BY <1>2, Baseline
  <2>2. QED
    BY <1>1, <1>2, <1>3, <2>1
<1>4. CASE j > n
  <2> DEFINE Above(z) == {x \in D!Earlier(k) : x > z}
  <2>1. Above(j) \subseteq Above(n) /\ IsFiniteSet(Above(n))
    <3>1. IsFiniteSet(1 .. k - 1) /\ D!Earlier(k) \subseteq 1 .. k - 1
      BY DiffConstants, FS_Interval DEF D!Earlier
    <3>2. Above(n) \subseteq 1 .. k - 1
      BY <3>1
    <3>3. IsFiniteSet(Above(n))
      BY <3>1, <3>2, FS_Subset
    <3>4. \A x \in D!Earlier(k) : x > j => x > n
      BY <1>1, <1>4, <3>1
    <3>5. QED
      BY <3>3, <3>4
  <2>2. Cardinality(Above(j)) <= Cardinality(Above(n)) /\ Cardinality(Above(n)) \in Nat /\ Cardinality(Above(j)) \in Nat
    BY <2>1, FS_Subset, FS_CardinalityType
  <2>3. D!Cardinality(Above(j)) < LOOKBACK_LIMIT
    BY <2>2, SameDiffCardinality, ComponentsAssumption
  <2>4. j \in D!Comparable(k)
    BY <1>1, <2>3 DEF D!Comparable, D!LookedAt
  <2>5. QED
    BY <1>2, <2>4, Baseline
<1>5. QED
  BY <1>1, <1>3, <1>4

\* The events of a job are about the result it was compared with.
LEMMA EventTypes ==
  ASSUME D!TypeOK, NEW k \in D!Jobs, NEW r
  PROVE  D!generate_change_events(k, r) \subseteq [type : D!ChangeTypes, item : D!Fields, previous : D!Jobs]
<1>1. CASE D!Comparable(k) = {}
  BY <1>1 DEF D!generate_change_events
<1>2. CASE D!Comparable(k) # {}
  <2> DEFINE p == D!find_previous_comparable_job(k)
             old == result[p].seen
  <2>1. p \in D!Jobs
    BY <1>2, Baseline, DiffConstants
  <2>2. \A type \in D!ChangeTypes : \A about \in SUBSET D!Fields :
          D!Changes(type, about) \subseteq [type : D!ChangeTypes, item : D!Fields]
    BY DEF D!Changes
  <2>3. \A x \in {old, r.seen} : D!Open(x) \cup D!Present(x) \cup D!Status(x) \subseteq D!Fields
    BY DEF D!Open, D!Present, D!Status, D!Fields
  <2>4. D!diff_results(old, r.seen) \subseteq [type : D!ChangeTypes, item : D!Fields]
    <3>1. D!diff_nmap(old, r.seen) \subseteq [type : D!ChangeTypes, item : D!Fields]
      BY <2>2, <2>3 DEF D!diff_nmap, D!ChangeTypes, D!Changed
    <3>2. D!diff_whatweb(old, r.seen) \subseteq [type : D!ChangeTypes, item : D!Fields]
      BY <2>2, <2>3 DEF D!diff_whatweb, D!ChangeTypes, D!Changed
    <3>3. D!diff_sslscan(old, r.seen) \subseteq [type : D!ChangeTypes, item : D!Fields]
      BY <2>2, <2>3 DEF D!diff_sslscan, D!ChangeTypes, D!Changed
    <3>4. D!diff_gobuster(old, r.seen) \subseteq [type : D!ChangeTypes, item : D!Fields]
      BY <2>2, <2>3 DEF D!diff_gobuster, D!ChangeTypes
    <3>5. tool \in {"nmap", "whatweb", "sslscan", "gobuster"}
      BY DEF D!TypeOK, D!SUPPORTED_TOOLS
    <3>6. QED
      BY <3>1, <3>2, <3>3, <3>4, <3>5 DEF D!diff_results
  <2>5. \A c \in D!diff_results(old, r.seen) :
          [type |-> c.type, item |-> c.item, previous |-> p] \in [type : D!ChangeTypes, item : D!Fields, previous : D!Jobs]
    BY <2>1, <2>4
  <2>6. QED
    BY <1>2, <2>5 DEF D!generate_change_events
<1>3. QED
  BY <1>1, <1>2

\* A job that begins or fails is older than none that was compared after all had ended.
LEMMA DiffCreateStep ==
  ASSUME DiffOk, NEW j \in D!Jobs, D!Create(j) PROVE DiffOk'
<1>1. /\ jobPhase[j] = "none" /\ jobPhase' = [jobPhase EXCEPT ![j] = "queued"]
      /\ \E s \in Settings : setting' = [setting EXCEPT ![j] = s]
      /\ UNCHANGED <<tool, result, events, jobsOverlapped>>
  BY DEF D!Create
<1>2. D!TypeOK'
  BY <1>1 DEF DiffOk, D!TypeOK
<1>3. D!NoChangeIsLost'
  <2>1. \A k \in D!Jobs :
           /\ jobPhase'[k] = "success" <=> jobPhase[k] = "success"
           /\ jobPhase[k] = "success" => setting'[k] = setting[k]
    BY <1>1 DEF DiffOk, D!TypeOK
  <2>2. QED
    BY <1>1, <2>1, SuccessesStay
<1>4. SerialInv'
  <2> SUFFICES ASSUME NEW k \in D!Jobs, jobPhase'[k] \in {"compared", "success"}, Serial(k)
               PROVE  (\A n \in 1 .. k - 1 : Ended(n)') /\ events[k] = D!generate_change_events(k, result[k])'
    BY <1>1 DEF SerialInv, Serial
  <2>1. k # j /\ jobPhase[k] \in {"compared", "success"}
    BY <1>1 DEF DiffOk, D!TypeOK
  <2>2. (\A n \in 1 .. k - 1 : Ended(n)) /\ events[k] = D!generate_change_events(k, result[k])
    BY <2>1 DEF DiffOk, SerialInv
  <2>3. \A n \in 1 .. k - 1 : n # j
    BY <1>1, <2>2 DEF Ended
  <2>4. \A n \in 1 .. k - 1 : jobPhase'[n] = jobPhase[n] /\ setting'[n] = setting[n]
    BY <1>1, <2>3, DiffConstants DEF DiffOk, D!TypeOK
  <2>5. setting'[k] = setting[k]
    BY <1>1, <2>1 DEF DiffOk, D!TypeOK
  <2>6. D!generate_change_events(k, result[k])' = D!generate_change_events(k, result[k])
    BY <1>1, <2>4, <2>5, SameComparison
  <2>7. QED
    BY <1>1, <2>2, <2>4, <2>6 DEF Ended
<1>5. QED
  BY <1>2, <1>3, <1>4 DEF DiffOk

LEMMA DiffFailStep ==
  ASSUME DiffOk, NEW j \in D!Jobs, D!Fail(j) PROVE DiffOk'
<1>1. /\ jobPhase[j] \in {"queued", "compared"} /\ jobPhase' = [jobPhase EXCEPT ![j] = "failed"]
      /\ events' = [events EXCEPT ![j] = {}]
      /\ UNCHANGED <<tool, setting, result, jobsOverlapped>>
  BY DEF D!Fail
<1>2. D!TypeOK'
  BY <1>1 DEF DiffOk, D!TypeOK
<1>3. \A k \in D!Jobs : events'[k] = IF k = j THEN {} ELSE events[k]
  BY <1>1 DEF DiffOk, D!TypeOK
<1>4. D!NoChangeIsLost'
  <2>1. \A k \in D!Jobs :
           /\ jobPhase'[k] = "success" <=> jobPhase[k] = "success"
           /\ jobPhase[k] = "success" => events'[k] = events[k]
    BY <1>1, <1>3 DEF DiffOk, D!TypeOK
  <2>2. QED
    BY <1>1, <2>1, SuccessesStay
<1>5. SerialInv'
  <2> SUFFICES ASSUME NEW k \in D!Jobs, jobPhase'[k] \in {"compared", "success"}, Serial(k)
               PROVE  (\A n \in 1 .. k - 1 : Ended(n)') /\ events'[k] = D!generate_change_events(k, result[k])'
    BY <1>1 DEF SerialInv, Serial
  <2>1. k # j /\ jobPhase[k] \in {"compared", "success"}
    BY <1>1 DEF DiffOk, D!TypeOK
  <2>2. (\A n \in 1 .. k - 1 : Ended(n)) /\ events[k] = D!generate_change_events(k, result[k])
    BY <2>1 DEF DiffOk, SerialInv
  <2>3. \A n \in 1 .. k - 1 : n # j
    BY <1>1, <2>2 DEF Ended
  <2>4. \A n \in 1 .. k - 1 : jobPhase'[n] = jobPhase[n]
    BY <1>1, <2>3, DiffConstants DEF DiffOk, D!TypeOK
  <2>5. D!generate_change_events(k, result[k])' = D!generate_change_events(k, result[k])
    BY <1>1, <2>4, SameComparison
  <2>6. QED
    BY <1>1, <1>3, <2>1, <2>2, <2>4, <2>5 DEF Ended
<1>6. QED
  BY <1>2, <1>4, <1>5 DEF DiffOk

\* A job that is compared after all older ones had ended saw what they left.
LEMMA DiffExecuteStep ==
  ASSUME DiffOk, NEW j \in D!Jobs, D!Execute(j) PROVE DiffOk'
<1>1. PICK r \in D!Results :
        /\ jobPhase[j] = "queued" /\ jobPhase' = [jobPhase EXCEPT ![j] = "compared"]
        /\ result' = [result EXCEPT ![j] = r]
        /\ events' = [events EXCEPT ![j] = D!generate_change_events(j, r)]
        /\ jobsOverlapped' = jobsOverlapped \cup
             {<<k, j>> : k \in {m \in 1 .. j - 1 : jobPhase[m] \notin {"success", "failed"}}}
        /\ UNCHANGED <<tool, setting>>
  BY DEF D!Execute
<1>2. D!TypeOK'
  <2>1. r \in [parsed : BOOLEAN, seen : [D!Fields -> D!Observations]]
    <3>1. D!Nothing \in [D!Fields -> D!Observations]
      BY DEF D!Nothing, D!Observations
    <3>2. PICK parsed \in BOOLEAN, seen \in [D!Fields -> D!Observations] : r = [parsed |-> parsed, seen |-> seen]
      BY <3>1 DEF D!Results
    <3>3. QED
      BY <3>2
  <2>2. D!generate_change_events(j, r) \in SUBSET [type : D!ChangeTypes, item : D!Fields, previous : D!Jobs]
    BY EventTypes DEF DiffOk
  <2>3. jobsOverlapped' \subseteq D!Jobs \X D!Jobs
    BY <1>1, DiffConstants DEF DiffOk, D!TypeOK
  <2>4. QED
    BY <1>1, <2>1, <2>2, <2>3 DEF DiffOk, D!TypeOK
<1>3. \A k \in D!Jobs \ {j} : /\ jobPhase'[k] = jobPhase[k] /\ result'[k] = result[k] /\ events'[k] = events[k]
                              /\ \A n \in 1 .. k - 1 : <<n, k>> \in jobsOverlapped' <=> <<n, k>> \in jobsOverlapped
  BY <1>1 DEF DiffOk, D!TypeOK
<1>4. jobPhase'[j] = "compared" /\ result'[j] = r /\ events'[j] = D!generate_change_events(j, r)
  BY <1>1 DEF DiffOk, D!TypeOK
<1>5. D!NoChangeIsLost'
  <2>1. \A k \in D!Jobs : jobPhase'[k] = "success" <=> jobPhase[k] = "success"
    BY <1>1, <1>3, <1>4
  <2>2. QED
    BY <1>1, <1>3, <2>1, SuccessesStay
<1>6. SerialInv'
  <2> SUFFICES ASSUME NEW k \in D!Jobs, jobPhase'[k] \in {"compared", "success"}, Serial(k)'
               PROVE  (\A n \in 1 .. k - 1 : Ended(n)') /\ events'[k] = D!generate_change_events(k, result[k])'
    BY DEF SerialInv
  <2>1. CASE k = j
    <3>1. \A n \in 1 .. k - 1 : Ended(n)
      <4>1. \A n \in 1 .. j - 1 : jobPhase[n] \notin {"success", "failed"} => <<n, j>> \in jobsOverlapped'
        BY <1>1
      <4>2. QED
        BY <2>1, <4>1 DEF Serial, Ended
    <3>2. \A n \in 1 .. k - 1 : n \in D!Jobs \ {j}
      BY <2>1, DiffConstants
    <3>3. D!generate_change_events(k, r)' = D!generate_change_events(k, r)
      BY <1>1, <1>3, <3>2, SameComparison
    <3>4. QED
      BY <1>3, <1>4, <2>1, <3>1, <3>2, <3>3 DEF Ended
  <2>2. CASE k # j
    <3>1. Serial(k) /\ jobPhase[k] \in {"compared", "success"}
      BY <1>3, <2>2 DEF Serial
    <3>2. (\A n \in 1 .. k - 1 : Ended(n)) /\ events[k] = D!generate_change_events(k, result[k])
      BY <3>1 DEF DiffOk, SerialInv
    <3>3. \A n \in 1 .. k - 1 : n \in D!Jobs \ {j}
      BY <1>1, <3>2, DiffConstants DEF Ended
    <3>4. D!generate_change_events(k, result[k])' = D!generate_change_events(k, result[k])
      BY <1>1, <1>3, <2>2, <3>3, SameComparison
    <3>5. QED
      BY <1>3, <2>2, <3>2, <3>3, <3>4 DEF Ended
  <2>3. QED
    BY <2>1, <2>2
<1>7. QED
  BY <1>2, <1>5, <1>6 DEF DiffOk

\* From a success j to a job m about to be one: all that NoChangeIsLost asks of the pair.
Differ(j, m, s, i) ==
  /\ jobPhase[m] = "compared" /\ Serial(m) /\ setting[m] = s
  /\ j \in D!Successes(s) /\ j < m /\ D!View(j, i) # D!View(m, i) /\ D!Unbroken(j, m, s)
  /\ \E n \in D!Successes(s) : n < m /\ D!Cardinality({x \in D!Earlier(m) : x > n}) < LOOKBACK_LIMIT
  /\ Joint(i) => D!View(m, i) # "absent"
  /\ D!Seamless(j, m, s, i)

\* The difference is an event of m or of a success between the two.
Reported(j, m, s, i) ==
  \/ \E e \in events[m] : e.item = i
  \/ \E n \in D!Successes(s) : j < n /\ n <= m /\ \E e \in events[n] : e.item = i

\* What a job that succeeds is compared with, and what was compared before it,
\* leave no difference unreported.
LEMMA NewSuccess ==
  ASSUME DiffOk, NEW m \in D!Jobs, NEW s, NEW j, NEW i \in D!Compared, Differ(j, m, s, i)
  PROVE  Reported(j, m, s, i)
<1>. USE DEF Differ, Reported
<1> DEFINE p == D!find_previous_comparable_job(m)
<1>1. s \in Settings /\ tool \in D!SUPPORTED_TOOLS /\ j \in D!Jobs
  BY DEF DiffOk, D!TypeOK, D!Successes
<1>2. D!Comparable(m) # {} /\ j <= p
  BY <1>1, BaselineIsLast DEF DiffOk
<1>3. p \in 1 .. m - 1 /\ p \in D!Successes(s) /\ p \in D!Jobs
  BY <1>2, Baseline, DiffConstants DEF D!Successes
<1>4. events[m] = D!generate_change_events(m, result[m])
  BY DEF DiffOk, SerialInv
<1>5. CASE D!View(p, i) # D!View(m, i)
  <2>1. Joint(i) => D!View(p, i) # "absent" /\ D!View(m, i) # "absent"
    <3>1. p <= m
      BY <1>3, DiffConstants
    <3>2. QED
      BY <1>2, <1>3, <3>1 DEF D!Seamless, Joint
  <2>2. PICK c \in D!diff_results(result[p].seen, result[m].seen) : c.item = i
    BY <1>1, <1>5, <2>1, DiffersAreReported
  <2>3. [type |-> c.type, item |-> c.item, previous |-> p] \in events[m]
    BY <1>2, <1>4 DEF D!generate_change_events
  <2>4. QED
    BY <2>2, <2>3
<1>6. CASE D!View(p, i) = D!View(m, i)
  <2>1. j < p
    BY <1>1, <1>2, <1>3, <1>6, DiffConstants
  <2>2. D!Unbroken(j, p, s)
    <3>1. \A x \in D!Successes(s) : x \in Nat /\ (x <= p => x <= m)
      BY <1>3, DiffConstants DEF D!Successes
    <3>2. QED
      BY <3>1 DEF D!Unbroken
  <2>3. D!Seamless(j, p, s, i)
    <3>1. \A x \in D!Successes(s) : x \in Nat /\ (x <= p => x <= m)
      BY <1>3, DiffConstants DEF D!Successes
    <3>2. QED
      BY <3>1 DEF D!Seamless
  <2>4. PICK n \in D!Successes(s) : j < n /\ n <= p /\ \E e \in events[n] : e.item = i
    BY <1>1, <1>3, <1>6, <2>1, <2>2, <2>3 DEF DiffOk, D!NoChangeIsLost
  <2>5. n <= m
    <3>1. n \in Nat /\ p \in Nat /\ m \in Nat
      BY <1>3, DiffConstants DEF D!Successes
    <3>2. p < m
      BY <1>3, <3>1
    <3>3. QED
      BY <2>4, <3>1, <3>2
  <2>6. QED
    BY <2>4, <2>5
<1>7. QED
  BY <1>5, <1>6

LEMMA DiffCommitStep ==
  ASSUME DiffOk, NEW m \in D!Jobs, D!Commit(m) PROVE DiffOk'
<1>1. /\ jobPhase[m] = "compared" /\ jobPhase' = [jobPhase EXCEPT ![m] = "success"]
      /\ UNCHANGED <<tool, setting, result, events, jobsOverlapped>>
  BY DEF D!Commit
<1>2. D!TypeOK'
  BY <1>1 DEF DiffOk, D!TypeOK
<1>3. \A k \in D!Jobs : jobPhase'[k] = IF k = m THEN "success" ELSE jobPhase[k]
  BY <1>1 DEF DiffOk, D!TypeOK
<1>4. \A k \in D!Jobs : jobPhase[k] \in {"compared", "success"} /\ Serial(k) => m \notin 1 .. k - 1
  BY <1>1 DEF DiffOk, SerialInv, Ended
<1>5. SerialInv'
  <2> SUFFICES ASSUME NEW k \in D!Jobs, jobPhase'[k] \in {"compared", "success"}, Serial(k)
               PROVE  (\A n \in 1 .. k - 1 : Ended(n)') /\ events[k] = D!generate_change_events(k, result[k])'
    BY <1>1 DEF SerialInv, Serial
  <2>1. jobPhase[k] \in {"compared", "success"}
    BY <1>1, <1>3
  <2>2. (\A n \in 1 .. k - 1 : Ended(n)) /\ events[k] = D!generate_change_events(k, result[k])
    BY <2>1 DEF DiffOk, SerialInv
  <2>3. \A n \in 1 .. k - 1 : n \in D!Jobs \ {m}
    BY <1>4, <2>1, DiffConstants
  <2>4. D!generate_change_events(k, result[k])' = D!generate_change_events(k, result[k])
    BY <1>1, <1>3, <2>3, SameComparison
  <2>5. QED
    BY <1>1, <1>3, <2>2, <2>3, <2>4 DEF Ended
<1>6. D!NoChangeIsLost'
  <2> SUFFICES ASSUME NEW s \in Settings, NEW j \in D!Successes(s)', NEW k \in D!Successes(s)', NEW i \in D!Compared,
                      j < k, D!View(j, i)' # D!View(k, i)', D!Unbroken(j, k, s)', D!Seamless(j, k, s, i)'
               PROVE  \E n \in D!Successes(s)' : j < n /\ n <= k /\ \E e \in events[n] : e.item = i
    <3>1. D!Compared' = D!Compared
      BY <1>1 DEF D!Compared
    <3>2. QED
      BY <1>1, <3>1 DEF D!NoChangeIsLost
  <2>1. /\ j \in D!Jobs /\ k \in D!Jobs /\ setting[j] = s /\ setting[k] = s
        /\ jobPhase'[k] = "success" /\ jobPhase'[j] = "success"
        /\ D!Successes(s) \subseteq D!Successes(s)'
        /\ \A n \in D!Successes(s)' : n \in D!Successes(s) \/ n = m
        /\ \A n : D!View(n, i)' = D!View(n, i)
    BY <1>1, <1>3 DEF D!Successes, D!View
  <2>2. /\ Serial(k)
        /\ \E n \in D!Successes(s)' : n < k /\ D!Cardinality({x \in D!Earlier(k)' : x > n}) < LOOKBACK_LIMIT
    <3>1. j < k /\ k <= k
      BY <2>1, DiffConstants
    <3>2. QED
      BY <1>1, <3>1 DEF D!Unbroken, Serial
  <2>3. jobPhase[k] \in {"compared", "success"} /\ m \notin 1 .. k - 1 /\ j # m /\ j \in D!Successes(s)
    <3>1. jobPhase[k] \in {"compared", "success"}
      BY <1>1, <1>3, <2>1
    <3>2. m \notin 1 .. k - 1
      BY <1>4, <2>1, <2>2, <3>1
    <3>3. j \in 1 .. k - 1
      BY <2>1, DiffConstants
    <3>4. QED
      BY <2>1, <3>1, <3>2, <3>3
  <2>4. \A x \in D!Jobs : x <= k => D!Earlier(x)' = D!Earlier(x)
    <3> SUFFICES ASSUME NEW x \in D!Jobs, x <= k PROVE D!Earlier(x)' = D!Earlier(x)
      OBVIOUS
    <3>1. \A n \in 1 .. x - 1 : n \in 1 .. k - 1 /\ n \in D!Jobs
      BY <2>1, DiffConstants
    <3>2. \A n \in 1 .. x - 1 : jobPhase'[n] = jobPhase[n]
      BY <1>3, <2>3, <3>1
    <3>3. QED
      BY <3>2 DEF D!Earlier
  <2>5. \A n \in D!Successes(s)' : n < k => n \in D!Successes(s)
    <3> SUFFICES ASSUME NEW n \in D!Successes(s)', n < k PROVE n # m
      BY <2>1
    <3>1. n \in 1 .. k - 1
      BY <2>1, DiffConstants DEF D!Successes
    <3>2. QED
      BY <2>3, <3>1
  <2>6. D!Unbroken(j, k, s)
    <3> SUFFICES ASSUME NEW x \in D!Successes(s), j < x, x <= k
                 PROVE  /\ \A n \in 1 .. x - 1 : <<n, x>> \notin jobsOverlapped
                        /\ \E n \in D!Successes(s) : n < x /\ D!Cardinality({y \in D!Earlier(x) : y > n}) < LOOKBACK_LIMIT
      BY DEF D!Unbroken
    <3>1. x \in D!Jobs /\ D!Earlier(x)' = D!Earlier(x)
      BY <2>4 DEF D!Successes
    <3>2. /\ \A n \in 1 .. x - 1 : <<n, x>> \notin jobsOverlapped
          /\ \E n \in D!Successes(s)' : n < x /\ D!Cardinality({y \in D!Earlier(x) : y > n}) < LOOKBACK_LIMIT
      BY <1>1, <2>1, <3>1 DEF D!Unbroken
    <3>3. \A n \in D!Successes(s)' : n < x => n < k
      <4>1. \A n \in D!Successes(s)' : n \in D!Jobs
        BY <2>1 DEF D!Successes
      <4>2. x \in Nat /\ k \in Nat /\ \A n \in D!Jobs : n \in Nat
        BY <2>1, <3>1, DiffConstants
      <4>3. QED
        BY <4>1, <4>2
    <3>4. QED
      BY <2>5, <3>2, <3>3
  <2>7. CASE k # m
    <3>1. k \in D!Successes(s)
      BY <2>1, <2>7
    <3>2. D!Seamless(j, k, s, i)
      BY <1>1, <2>1 DEF D!Seamless
    <3>3. \E n \in D!Successes(s) : j < n /\ n <= k /\ \E e \in events[n] : e.item = i
      BY <2>1, <2>3, <2>6, <3>1, <3>2 DEF DiffOk, D!NoChangeIsLost
    <3>4. QED
      BY <2>1, <3>3
  <2>8. CASE k = m
    <3>1. \E n \in D!Successes(s) : n < m /\ D!Cardinality({x \in D!Earlier(m) : x > n}) < LOOKBACK_LIMIT
      <4>1. D!Earlier(m)' = D!Earlier(m)
        BY <2>1, <2>4, <2>8, DiffConstants
      <4>2. QED
        BY <2>2, <2>5, <2>8, <4>1
    <3>2. Joint(i) => D!View(m, i) # "absent"
      <4>1. j <= m /\ m <= m
        BY <2>1, <2>8, DiffConstants
      <4>2. QED
        BY <1>1, <2>1, <2>8, <4>1 DEF D!Seamless, Joint
    <3>3. D!Seamless(j, m, s, i)
      BY <1>1, <2>1, <2>8 DEF D!Seamless
    <3>4. \/ \E e \in events[m] : e.item = i
          \/ \E n \in D!Successes(s) : j < n /\ n <= m /\ \E e \in events[n] : e.item = i
      <4>1. Differ(j, m, s, i)
        BY <1>1, <2>1, <2>2, <2>3, <2>6, <2>8, <3>1, <3>2, <3>3 DEF Differ
      <4>2. QED
        BY <4>1, NewSuccess DEF Reported
    <3>5. m \in D!Successes(s)' /\ j < m /\ m <= m
      BY <2>1, <2>8, DiffConstants
    <3>6. QED
      BY <2>1, <2>8, <3>4, <3>5
  <2>9. QED
    BY <2>7, <2>8
<1>7. QED
  BY <1>2, <1>5, <1>6 DEF DiffOk

LEMMA DiffInvariance ==
  ASSUME DiffOk, [D!Next]_(D!vars) PROVE DiffOk'
<1>1. CASE UNCHANGED D!vars
  <2>1. D!TypeOK' /\ D!NoChangeIsLost'
    BY <1>1, SuccessesStay DEF DiffOk, D!TypeOK, D!vars
  <2>2. \A k \in D!Jobs : D!generate_change_events(k, result[k])' = D!generate_change_events(k, result[k])
    BY <1>1, SameComparison DEF D!vars
  <2>3. SerialInv'
    BY <1>1, <2>2 DEF DiffOk, SerialInv, Serial, Ended, D!vars
  <2>4. QED
    BY <2>1, <2>3 DEF DiffOk
<1>2. CASE D!Next
  BY <1>2, DiffCreateStep, DiffExecuteStep, DiffCommitStep, DiffFailStep DEF D!Next
<1>3. QED
  BY <1>1, <1>2

LEMMA DiffInitially == D!Init => DiffOk
<1> SUFFICES ASSUME D!Init PROVE DiffOk
  OBVIOUS
<1>1. (CHOOSE s \in Settings : TRUE) \in Settings
  BY ComponentsAssumption
<1>2. D!TypeOK
  BY <1>1 DEF D!Init, D!TypeOK, D!Nothing, D!Observations
<1>3. D!NoChangeIsLost /\ SerialInv
  BY DEF D!Init, D!NoChangeIsLost, D!Successes, SerialInv
<1>4. QED
  BY <1>2, <1>3 DEF DiffOk

-----------------------------------------------------------------------------
(* RiskScore.                                                              *)

\* Growing evidence stays evidence.
LEMMA ScoreTypes ==
  ASSUME S!TypeOK, [S!Next]_inputs PROVE S!TypeOK'
<1> DEFINE Fields == [severity |-> S!Ranks(S!Severities), confidence |-> S!Ranks(S!Confidences),
                      cvss |-> CvssScores \cup {S!unknown}, epss |-> EpssScores \cup {S!unknown},
                      kev |-> {S!unknown, 0, 1}, criticality |-> {0} \cup S!Ranks(S!Criticalities)]
<1>1. ASSUME NEW f \in DOMAIN Fields, NEW v \in Fields[f], inputs' = [inputs EXCEPT ![f] = v]
      PROVE  S!TypeOK'
  BY <1>1 DEF S!TypeOK
<1>2. CASE inputs' = inputs
  BY <1>2 DEF S!TypeOK
<1>3. CASE S!Next
  BY <1>1, <1>3 DEF S!Next, S!Raise
<1>4. QED
  BY <1>2, <1>3

\* The half of an even number is rounded down, of an odd one up: a greater
\* number is never rounded to a smaller.
LEMMA RoundMonotone ==
  ASSUME NEW d \in {400000, 650000, 750000, 1000000}, NEW m \in Nat, NEW n \in Nat, m <= n
  PROVE  S!Round(m, d) <= S!Round(n, d) /\ S!Round(m, d) \in Int /\ S!Round(n, d) \in Int
<1>1. CASE d = 400000
  BY <1>1 DEF S!Round
<1>2. CASE d = 650000
  BY <1>2 DEF S!Round
<1>3. CASE d = 750000
  BY <1>3 DEF S!Round
<1>4. CASE d = 1000000
  BY <1>4 DEF S!Round
<1>5. QED
  BY <1>1, <1>2, <1>3, <1>4

\* Products of numbers that are no smaller.
LEMMA ProductMonotone ==
  ASSUME NEW a \in Nat, NEW b \in Nat, NEW c \in Nat, NEW d \in Nat, a <= b, c <= d
  PROVE  a * c <= b * d /\ a * c \in Nat /\ b * d \in Nat
<1>1. a * c <= b * c
  OBVIOUS
<1>2. b * c <= b * d
  OBVIOUS
<1>3. QED
  BY <1>1, <1>2

\* What is known stays known, and is no less.
LEMMA EvidenceGrows ==
  ASSUME S!TypeOK, [S!Next]_inputs
  PROVE  /\ inputs'.cvss = S!unknown <=> inputs.cvss = S!unknown
         /\ inputs'.epss = S!unknown <=> inputs.epss = S!unknown
         /\ inputs'.kev = S!unknown <=> inputs.kev = S!unknown
         /\ inputs'.criticality = 0 <=> inputs.criticality = 0
         /\ inputs.severity <= inputs'.severity /\ inputs.confidence <= inputs'.confidence
         /\ inputs.cvss <= inputs'.cvss /\ inputs.epss <= inputs'.epss
         /\ inputs.kev <= inputs'.kev /\ inputs.criticality <= inputs'.criticality
<1>. USE DEF S!unknown
<1>1. /\ inputs = [severity |-> inputs.severity, confidence |-> inputs.confidence, cvss |-> inputs.cvss,
                   epss |-> inputs.epss, kev |-> inputs.kev, criticality |-> inputs.criticality]
      /\ inputs.severity \in 1 .. 5 /\ inputs.confidence \in 1 .. 3 /\ inputs.criticality \in 0 .. 4
      /\ inputs.cvss \in -1 .. 100 /\ inputs.epss \in -1 .. 100 /\ inputs.kev \in -1 .. 1
  <2>1. /\ S!Ranks(S!Severities) = 1 .. 5 /\ S!Ranks(S!Confidences) = 1 .. 3
        /\ {0} \cup S!Ranks(S!Criticalities) = 0 .. 4
    BY DEF S!Ranks, S!Severities, S!Confidences, S!Criticalities
  <2>2. CvssScores \cup {-1} \subseteq -1 .. 100 /\ EpssScores \cup {-1} \subseteq -1 .. 100
    BY ComponentsAssumption
  <2>3. inputs \in [severity : 1 .. 5, confidence : 1 .. 3, cvss : CvssScores \cup {-1},
                    epss : EpssScores \cup {-1}, kev : {-1, 0, 1}, criticality : 0 .. 4]
    BY <2>1 DEF S!TypeOK
  <2>4. QED
    BY <2>2, <2>3
<1>2. CASE inputs' = inputs
  BY <1>1, <1>2
<1>3. CASE inputs.cvss # S!unknown /\ S!Raise("cvss", CvssScores)
  <2>1. PICK v \in CvssScores : v > inputs.cvss /\ inputs' = [inputs EXCEPT !.cvss = v]
    BY <1>3 DEF S!Raise, S!Ranks, S!Severities, S!Confidences, S!Criticalities
  <2>2. v \in 0 .. 100
    BY <2>1, ComponentsAssumption
  <2>3. QED
    BY <1>1, <1>3, <2>1, <2>2
<1>4. CASE inputs.epss # S!unknown /\ S!Raise("epss", EpssScores)
  <2>1. PICK v \in EpssScores : v > inputs.epss /\ inputs' = [inputs EXCEPT !.epss = v]
    BY <1>4 DEF S!Raise, S!Ranks, S!Severities, S!Confidences, S!Criticalities
  <2>2. v \in 0 .. 100
    BY <2>1, ComponentsAssumption
  <2>3. QED
    BY <1>1, <1>4, <2>1, <2>2
<1>5. CASE inputs.kev = 0 /\ S!Raise("kev", {1})
  <2>1. PICK v \in {1} : v > inputs.kev /\ inputs' = [inputs EXCEPT !.kev = v]
    BY <1>5 DEF S!Raise, S!Ranks, S!Severities, S!Confidences, S!Criticalities
  <2>2. v \in 0 .. 100
    BY <2>1, ComponentsAssumption
  <2>3. QED
    BY <1>1, <1>5, <2>1, <2>2
<1>6. CASE S!Raise("severity", S!Ranks(S!Severities))
  <2>1. PICK v \in 1 .. 5 : v > inputs.severity /\ inputs' = [inputs EXCEPT !.severity = v]
    BY <1>6 DEF S!Raise, S!Ranks, S!Severities, S!Confidences, S!Criticalities
  <2>2. v \in 0 .. 100
    BY <2>1, ComponentsAssumption
  <2>3. QED
    BY <1>1, <1>6, <2>1, <2>2
<1>7. CASE S!Raise("confidence", S!Ranks(S!Confidences))
  <2>1. PICK v \in 1 .. 3 : v > inputs.confidence /\ inputs' = [inputs EXCEPT !.confidence = v]
    BY <1>7 DEF S!Raise, S!Ranks, S!Severities, S!Confidences, S!Criticalities
  <2>2. v \in 0 .. 100
    BY <2>1, ComponentsAssumption
  <2>3. QED
    BY <1>1, <1>7, <2>1, <2>2
<1>8. CASE inputs.criticality # 0 /\ S!Raise("criticality", S!Ranks(S!Criticalities))
  <2>1. PICK v \in 1 .. 4 : v > inputs.criticality /\ inputs' = [inputs EXCEPT !.criticality = v]
    BY <1>8 DEF S!Raise, S!Ranks, S!Severities, S!Confidences, S!Criticalities
  <2>2. v \in 0 .. 100
    BY <2>1, ComponentsAssumption
  <2>3. QED
    BY <1>1, <1>8, <2>1, <2>2
<1>9. QED
  BY <1>2, <1>3, <1>4, <1>5, <1>6, <1>7, <1>8 DEF S!Next

\* The tables rise with the ranks.
LEMMA TablesRise ==
  /\ \A m, n \in S!Ranks(S!Severities) :
       S!SEVERITY_FALLBACK[m] \in 0 .. 100 /\ (m <= n => S!SEVERITY_FALLBACK[m] <= S!SEVERITY_FALLBACK[n])
  /\ \A m, n \in S!Ranks(S!Confidences) :
       S!CONFIDENCE_MULTIPLIER[m] \in Nat /\ (m <= n => S!CONFIDENCE_MULTIPLIER[m] <= S!CONFIDENCE_MULTIPLIER[n])
  /\ \A m, n \in S!Ranks(S!Criticalities) :
       S!CRITICALITY_MULTIPLIER[m] \in Nat /\ (m <= n => S!CRITICALITY_MULTIPLIER[m] <= S!CRITICALITY_MULTIPLIER[n])
  /\ S!CRITICALITY_MULTIPLIER[0] \in Nat
<1>. USE DEF S!Ranks, S!Severities, S!Confidences, S!Criticalities
<1>1. S!Ranks(S!Severities) = {1, 2, 3, 4, 5} /\ S!Ranks(S!Confidences) = {1, 2, 3} /\ S!Ranks(S!Criticalities) = {1, 2, 3, 4}
  OBVIOUS
<1>2. \A m, n \in S!Ranks(S!Severities) :
       S!SEVERITY_FALLBACK[m] \in 0 .. 100 /\ (m <= n => S!SEVERITY_FALLBACK[m] <= S!SEVERITY_FALLBACK[n])
  BY <1>1 DEF S!SEVERITY_FALLBACK
<1>3. \A m, n \in S!Ranks(S!Confidences) :
       S!CONFIDENCE_MULTIPLIER[m] \in Nat /\ (m <= n => S!CONFIDENCE_MULTIPLIER[m] <= S!CONFIDENCE_MULTIPLIER[n])
  BY <1>1 DEF S!CONFIDENCE_MULTIPLIER
<1>4. /\ S!CRITICALITY_MULTIPLIER[0] = 100 /\ S!CRITICALITY_MULTIPLIER[1] = 85 /\ S!CRITICALITY_MULTIPLIER[2] = 100
      /\ S!CRITICALITY_MULTIPLIER[3] = 115 /\ S!CRITICALITY_MULTIPLIER[4] = 130
  BY <1>1 DEF S!CRITICALITY_MULTIPLIER
<1>5. QED
  BY <1>1, <1>2, <1>3, <1>4

\* The signals there are remain the same ones, and their sum is no less.
LEMMA SignalsRise ==
  ASSUME S!TypeOK, [S!Next]_inputs
  PROVE  /\ S!total_weight(inputs') = S!total_weight(inputs)
         /\ S!total_weight(inputs) \in {40, 65, 75, 100}
         /\ S!weighted(inputs) \in Nat /\ S!weighted(inputs') \in Nat
         /\ S!weighted(inputs) <= S!weighted(inputs')
<1>. USE DEF S!unknown
<1>0. S!TypeOK'
  BY ScoreTypes
<1>1. S!Technical(inputs) \in 0 .. 100 /\ S!Technical(inputs') \in 0 .. 100 /\ S!Technical(inputs) <= S!Technical(inputs')
  BY <1>0, EvidenceGrows, TablesRise, ComponentsAssumption DEF S!TypeOK, S!Technical
<1>2. /\ inputs.epss \in 0 .. 100 \cup {-1} /\ inputs'.epss \in 0 .. 100 \cup {-1}
      /\ inputs.kev \in {-1, 0, 1} /\ inputs'.kev \in {-1, 0, 1}
  BY <1>0, ComponentsAssumption DEF S!TypeOK
<1>3. /\ S!total_weight(inputs') = S!total_weight(inputs)
      /\ S!total_weight(inputs) \in {40, 65, 75, 100}
  BY EvidenceGrows DEF S!total_weight, S!Available
<1>4. \A e \in -1 .. 100 : S!Available(e, 35 * e) = IF e = -1 THEN 0 ELSE 35 * e
  BY DEF S!Available
<1>5. \A e, f \in -1 .. 100 :
        (e = -1 <=> f = -1) /\ e <= f =>
          /\ S!Available(e, 35 * e) \in Nat /\ S!Available(f, 35 * f) \in Nat
          /\ S!Available(e, 35 * e) <= S!Available(f, 35 * f)
  BY <1>4
<1>6. /\ S!Available(inputs.epss, 35 * inputs.epss) \in Nat
      /\ S!Available(inputs'.epss, 35 * inputs'.epss) \in Nat
      /\ S!Available(inputs.epss, 35 * inputs.epss) <= S!Available(inputs'.epss, 35 * inputs'.epss)
  <2>1. inputs.epss \in -1 .. 100 /\ inputs'.epss \in -1 .. 100
    BY <1>2
  <2>2. (inputs.epss = -1 <=> inputs'.epss = -1) /\ inputs.epss <= inputs'.epss
    BY EvidenceGrows
  <2>3. QED
    BY <1>5, <2>1, <2>2
<1>7. /\ S!Available(inputs.kev, 2500 * inputs.kev) \in Nat
      /\ S!Available(inputs'.kev, 2500 * inputs'.kev) \in Nat
      /\ S!Available(inputs.kev, 2500 * inputs.kev) <= S!Available(inputs'.kev, 2500 * inputs'.kev)
  BY <1>2, EvidenceGrows DEF S!Available
<1>8. QED
  BY <1>1, <1>3, <1>6, <1>7 DEF S!weighted

\* Nor is what they are multiplied by.
LEMMA MultipliersRise ==
  ASSUME S!TypeOK, [S!Next]_inputs
  PROVE  /\ S!multiplier(inputs) \in Nat /\ S!multiplier(inputs') \in Nat
         /\ S!multiplier(inputs) <= S!multiplier(inputs')
<1>0. S!TypeOK'
  BY ScoreTypes
<1> DEFINE a == S!CRITICALITY_MULTIPLIER[inputs.criticality]
           b == S!CRITICALITY_MULTIPLIER[inputs'.criticality]
           c == S!CONFIDENCE_MULTIPLIER[inputs.confidence]
           d == S!CONFIDENCE_MULTIPLIER[inputs'.confidence]
<1>1. a \in Nat /\ b \in Nat /\ a <= b
  BY <1>0, EvidenceGrows, TablesRise DEF S!TypeOK
<1>2. c \in Nat /\ d \in Nat /\ c <= d
  BY <1>0, EvidenceGrows, TablesRise DEF S!TypeOK
<1>3. a * c <= b * d /\ a * c \in Nat /\ b * d \in Nat
  BY <1>1, <1>2, ProductMonotone
<1>4. QED
  BY <1>3 DEF S!multiplier

\* So is the score: the same divisor, and a greater dividend.
LEMMA ScoreRises ==
  ASSUME S!TypeOK, [S!Next]_inputs
  PROVE  S!calculate_risk(inputs') >= S!calculate_risk(inputs)
<1> DEFINE m == S!weighted(inputs) * S!multiplier(inputs)
           n == S!weighted(inputs') * S!multiplier(inputs')
           d == S!total_weight(inputs) * 10000
<1>1. m \in Nat /\ n \in Nat /\ m <= n
  BY SignalsRise, MultipliersRise, ProductMonotone
<1>2. d \in {400000, 650000, 750000, 1000000} /\ S!total_weight(inputs') * 10000 = d
  BY SignalsRise
<1>3. S!Round(m, d) <= S!Round(n, d) /\ S!Round(m, d) \in Int /\ S!Round(n, d) \in Int
  BY <1>1, <1>2, RoundMonotone
<1>4. S!calculate_risk(inputs) = (IF S!Round(m, d) > 100 THEN 100 ELSE S!Round(m, d))
      /\ S!calculate_risk(inputs') = (IF S!Round(n, d) > 100 THEN 100 ELSE S!Round(n, d))
  BY <1>2 DEF S!calculate_risk
<1>5. QED
  BY <1>3, <1>4

-----------------------------------------------------------------------------
(* SecurityGraph.                                                          *)

\* What a job that is built adds is what it would add now.
\* While nothing has overlapped, a job adds to the graph as it is.
DraftInv ==
  \A j \in GraphJobs : phase[j] = "built" =>
    LET Rels == relations \cup G!correlate_asset_findings(G!FindingsSeen(j)) IN
    /\ draft[j].relations = Rels \ relations
    /\ draft[j].edges = G!build_graph_for_asset(AssetOf[j], G!FindingsSeen(j), Rels, G!TechnologiesSeen(j))

\* The technologies a job has loaded are still those of its asset.
KnownInv == \A j \in GraphJobs : phase[j] \in {"running", "built"} => known[j] = technologies[AssetOf[j]]

\* What is known of an asset is in the graph.
UpToDate ==
  \A a \in Assets :
    /\ G!correlate_asset_findings(G!OfAsset(a, findings)) \subseteq relations
    /\ G!build_graph_for_asset(a, G!OfAsset(a, findings), relations, technologies) \subseteq edges

(* The invariant of SecurityGraph.                                        *)
GraphOk == G!TypeOK /\ (~overlapped => DraftInv /\ KnownInv /\ UpToDate)

\* A finding is of the asset its job ran against.
LEMMA OwnFindings ==
  ASSUME NEW j \in GraphJobs, NEW f \in Reports[j] PROVE G!Owner(f) = AssetOf[j]
<1>1. \A k \in GraphJobs : f \in Reports[k] => k = j
  BY GraphAssumption
<1>2. (CHOOSE k \in GraphJobs : f \in Reports[k]) = j
  BY <1>1
<1>3. QED
  BY <1>2 DEF G!Owner

\* A rule relates two findings of different tools, the smaller id to the left.
LEMMA OrderedPair ==
  ASSUME NEW f \in Findings, NEW g \in Findings, f # g, NEW rule \in G!Rules
  PROVE  G!Ordered(f, g, rule) \in G!Relations /\ {G!Ordered(f, g, rule).left, G!Ordered(f, g, rule).right} = {f, g}
BY GraphAssumption DEF G!Ordered, G!Relations

LEMMA CorrelatedPairs ==
  ASSUME NEW F \in SUBSET Findings, NEW r \in G!correlate_asset_findings(F)
  PROVE  r \in G!Relations /\ r.left \in F /\ r.right \in F
<1>1. \E f \in F, g \in F, rule \in G!Rules : f # g /\ r = G!Ordered(f, g, rule)
  <2>1. CASE r \in G!SamePort("whatweb", "RULE_NMAP_WHATWEB_PORT", F)
    BY <2>1 DEF G!SamePort, G!With, G!Ported, G!Rules
  <2>2. CASE r \in G!SamePort("nuclei", "RULE_NMAP_NUCLEI_PORT", F)
    BY <2>2 DEF G!SamePort, G!With, G!Ported, G!Rules
  <2>3. CASE r \in G!SharedTechnology(F)
    BY <2>3 DEF G!SharedTechnology, G!With, G!Rules
  <2>4. QED
    BY <2>1, <2>2, <2>3 DEF G!correlate_asset_findings
<1>2. PICK f \in F, g \in F, rule \in G!Rules : f # g /\ r = G!Ordered(f, g, rule)
  BY <1>1
<1>3. QED
  BY <1>2, OrderedPair

LEMMA NoTwoOrders ==
  ASSUME G!TypeOK, NEW r \in relations
  PROVE  [left |-> r.right, right |-> r.left, rule |-> r.rule] \notin relations
BY GraphAssumption DEF G!TypeOK, G!Relations

\* The edges of a graph join nodes.
LEMMA GraphEdges ==
  ASSUME NEW a \in Assets, NEW F \in SUBSET Findings, NEW Rels \in SUBSET G!Relations,
         NEW T \in [Assets -> SUBSET Technologies]
  PROVE  G!build_graph_for_asset(a, F, Rels, T) \subseteq G!Edges
<1>1. \A x \in G!Nodes, y \in G!Nodes,
         kind \in {"HAS_FINDING", "EXPOSES", "REFERENCES_CVE", "USES_TECHNOLOGY", "RELATED_TO"} :
        x # y => G!Edge(x, y, kind) \in G!Edges
  BY DEF G!Edge, G!Edges, G!Kinds
<1>2. /\ Assets \subseteq G!Nodes /\ Findings \subseteq G!Nodes /\ Technologies \subseteq G!Nodes
      /\ \A f \in Findings : (PortOf[f] # NoPort => PortOf[f] \in G!Nodes) /\ CvesOf[f] \subseteq G!Nodes
  BY DEF G!Nodes, G!Services, G!Cves
<1> USE GraphAssumption
<1>3. G!FindingEdges(a, F) \subseteq G!Edges
  BY <1>1, <1>2 DEF G!FindingEdges, G!With, G!Ported
<1>4. G!CveEdges(F) \subseteq G!Edges
  BY <1>1, <1>2 DEF G!CveEdges
<1>5. G!TechnologyEdges(a, T) \subseteq G!Edges
  BY <1>1, <1>2 DEF G!TechnologyEdges
<1>6. G!RelationEdges(F, Rels) \subseteq G!Edges
  <2>1. \A r \in Rels : r.left \in G!Nodes /\ r.right \in G!Nodes /\ r.left # r.right
    BY <1>2 DEF G!Relations
  <2>2. QED
    BY <1>1, <2>1 DEF G!RelationEdges
<1>7. G!AssetEdges(a, T) \subseteq G!Edges
  BY <1>1, <1>2 DEF G!AssetEdges
<1>8. QED
  BY <1>3, <1>4, <1>5, <1>6, <1>7 DEF G!build_graph_for_asset

\* What a job sees while nothing is committed stays what it sees.
LEMMA SameSight ==
  ASSUME NEW j \in GraphJobs, known'[j] = known[j], UNCHANGED <<findings, technologies>>
  PROVE  G!FindingsSeen(j)' = G!FindingsSeen(j) /\ G!TechnologiesSeen(j)' = G!TechnologiesSeen(j)
BY DEF G!FindingsSeen, G!TechnologiesSeen, G!Merged, G!OfAsset

LEMMA SightTypes ==
  ASSUME G!TypeOK, NEW j \in GraphJobs
  PROVE  /\ G!FindingsSeen(j) \in SUBSET Findings
         /\ G!TechnologiesSeen(j) \in [Assets -> SUBSET Technologies]
         /\ relations \cup G!correlate_asset_findings(G!FindingsSeen(j)) \in SUBSET G!Relations
<1>1. G!FindingsSeen(j) \in SUBSET Findings
  BY GraphAssumption DEF G!FindingsSeen, G!OfAsset, G!TypeOK
<1>2. G!TechnologiesSeen(j) \in [Assets -> SUBSET Technologies]
  BY GraphAssumption DEF G!TechnologiesSeen, G!Merged, G!TypeOK
<1>3. QED
  BY <1>1, <1>2, CorrelatedPairs DEF G!TypeOK

\* More edges keep a graph that holds what it must.
LEMMA StillUpToDate ==
  ASSUME UpToDate, UNCHANGED <<findings, relations, technologies>>, edges \subseteq edges'
  PROVE  UpToDate'
BY DEF UpToDate, G!OfAsset

LEMMA LoadStep ==
  ASSUME GraphOk, NEW j \in GraphJobs, G!Load(j) PROVE GraphOk'
<1>1. /\ phase[j] = "queued" /\ known' = [known EXCEPT ![j] = technologies[AssetOf[j]]]
      /\ phase' = [phase EXCEPT ![j] = "running"]
      /\ UNCHANGED <<draft, findings, technologies, relations, edges, overlapped>>
  BY DEF G!Load
<1>2. technologies[AssetOf[j]] \in SUBSET Technologies
  BY GraphAssumption DEF GraphOk, G!TypeOK
<1>3. G!TypeOK'
  BY <1>1, <1>2 DEF GraphOk, G!TypeOK
<1>4. \A k \in GraphJobs \ {j} : phase'[k] = phase[k] /\ known'[k] = known[k]
  BY <1>1 DEF GraphOk, G!TypeOK
<1>5. phase'[j] = "running" /\ known'[j] = technologies[AssetOf[j]]
  BY <1>1 DEF GraphOk, G!TypeOK
<1>6. ASSUME ~overlapped PROVE DraftInv' /\ KnownInv' /\ UpToDate'
  <2>1. DraftInv'
    BY <1>1, <1>4, <1>5, <1>6, SameSight DEF GraphOk, DraftInv
  <2>2. KnownInv'
    BY <1>1, <1>4, <1>5, <1>6 DEF GraphOk, KnownInv
  <2>3. QED
    BY <1>1, <1>6, <2>1, <2>2, StillUpToDate DEF GraphOk
<1>7. QED
  BY <1>1, <1>3, <1>6 DEF GraphOk

LEMMA BuildStep ==
  ASSUME GraphOk, NEW j \in GraphJobs, G!Build(j) PROVE GraphOk'
<1> DEFINE Rels == relations \cup G!correlate_asset_findings(G!FindingsSeen(j))
           d == [relations |-> Rels \ relations,
                 edges |-> G!build_graph_for_asset(AssetOf[j], G!FindingsSeen(j), Rels, G!TechnologiesSeen(j))]
<1>1. /\ phase[j] = "running" /\ draft' = [draft EXCEPT ![j] = d]
      /\ phase' = [phase EXCEPT ![j] = "built"]
      /\ UNCHANGED <<known, findings, technologies, relations, edges, overlapped>>
  BY DEF G!Build
<1>2. d \in [relations : SUBSET G!Relations, edges : SUBSET G!Edges]
  <2>1. Rels \in SUBSET G!Relations /\ d.edges \in SUBSET G!Edges
    BY SightTypes, GraphEdges, GraphAssumption DEF GraphOk
  <2>2. QED
    BY <2>1
<1>. HIDE DEF d
<1>3. G!TypeOK'
  BY <1>1, <1>2 DEF GraphOk, G!TypeOK
<1>4. /\ \A k \in GraphJobs \ {j} : phase'[k] = phase[k] /\ draft'[k] = draft[k]
      /\ phase'[j] = "built" /\ draft'[j] = d
  BY <1>1 DEF GraphOk, G!TypeOK
<1>5. ASSUME ~overlapped PROVE DraftInv' /\ KnownInv' /\ UpToDate'
  <2>1. \A k \in GraphJobs : G!FindingsSeen(k)' = G!FindingsSeen(k) /\ G!TechnologiesSeen(k)' = G!TechnologiesSeen(k)
    BY <1>1, SameSight
  <2>2. DraftInv'
    <3> SUFFICES ASSUME NEW k \in GraphJobs, phase'[k] = "built"
                 PROVE  LET Q == relations \cup G!correlate_asset_findings(G!FindingsSeen(k)) IN
                        /\ draft'[k].relations = Q \ relations
                        /\ draft'[k].edges = G!build_graph_for_asset(AssetOf[k], G!FindingsSeen(k), Q, G!TechnologiesSeen(k))
      BY <1>1, <2>1 DEF DraftInv
    <3>1. CASE k = j
      BY <1>4, <3>1 DEF d
    <3>2. CASE k # j
      BY <1>4, <1>5, <3>2 DEF GraphOk, DraftInv
    <3>3. QED
      BY <3>1, <3>2
  <2>3. KnownInv'
    BY <1>1, <1>4, <1>5 DEF GraphOk, KnownInv
  <2>4. QED
    BY <1>1, <1>5, <2>2, <2>3, StillUpToDate DEF GraphOk
<1>6. QED
  BY <1>1, <1>3, <1>5 DEF GraphOk

LEMMA GraphFailStep ==
  ASSUME GraphOk, NEW j \in GraphJobs, G!Fail(j) PROVE GraphOk'
<1>1. /\ phase' = [phase EXCEPT ![j] = "failed"] /\ draft' = [draft EXCEPT ![j] = G!Empty]
      /\ UNCHANGED <<known, findings, technologies, relations, edges, overlapped>>
  BY DEF G!Fail
<1>2. G!TypeOK'
  BY <1>1 DEF GraphOk, G!TypeOK, G!Empty
<1>3. phase'[j] = "failed" /\ \A k \in GraphJobs \ {j} : phase'[k] = phase[k] /\ draft'[k] = draft[k]
  BY <1>1 DEF GraphOk, G!TypeOK
<1>4. ASSUME ~overlapped PROVE DraftInv' /\ KnownInv' /\ UpToDate'
  <2>1. \A k \in GraphJobs : G!FindingsSeen(k)' = G!FindingsSeen(k) /\ G!TechnologiesSeen(k)' = G!TechnologiesSeen(k)
    BY <1>1, SameSight
  <2>2. DraftInv'
    BY <1>1, <1>3, <1>4, <2>1 DEF GraphOk, DraftInv
  <2>3. KnownInv'
    BY <1>1, <1>3, <1>4 DEF GraphOk, KnownInv
  <2>4. QED
    BY <1>1, <1>4, <2>2, <2>3, StillUpToDate DEF GraphOk
<1>5. QED
  BY <1>1, <1>2, <1>4 DEF GraphOk

LEMMA RebuildStep ==
  ASSUME GraphOk, NEW a \in Assets, G!Rebuild(a) PROVE GraphOk'
<1>1. /\ edges' = edges \cup G!build_graph_for_asset(a, G!OfAsset(a, findings), relations, technologies)
      /\ UNCHANGED <<phase, known, draft, findings, technologies, relations, overlapped>>
  BY DEF G!Rebuild
<1>2. G!OfAsset(a, findings) \in SUBSET Findings
  BY DEF GraphOk, G!TypeOK, G!OfAsset
<1>3. G!TypeOK'
  BY <1>1, <1>2, GraphEdges DEF GraphOk, G!TypeOK
<1>4. ASSUME ~overlapped PROVE DraftInv' /\ KnownInv' /\ UpToDate'
  <2>1. \A k \in GraphJobs : G!FindingsSeen(k)' = G!FindingsSeen(k) /\ G!TechnologiesSeen(k)' = G!TechnologiesSeen(k)
    BY <1>1, SameSight
  <2>2. DraftInv' /\ KnownInv'
    BY <1>1, <1>4, <2>1 DEF GraphOk, DraftInv, KnownInv
  <2>3. QED
    BY <1>1, <1>4, <2>2, StillUpToDate DEF GraphOk
<1>5. QED
  BY <1>1, <1>3, <1>4 DEF GraphOk

\* The edges of one asset that another asset's job leaves as they are: those
\* between the two are among the edges the job builds.
LEMMA OtherAsset ==
  ASSUME NEW a \in Assets, NEW b \in Assets \ {a}, NEW F, NEW Rels, NEW N, NEW T, NEW U,
         \A r \in N : r.left \notin F /\ r.right \notin F,
         \A c \in Assets \ {a} : U[c] = T[c]
  PROVE  G!build_graph_for_asset(b, F, Rels \cup N, U)
           \subseteq G!build_graph_for_asset(b, F, Rels, T) \cup G!AssetEdges(a, U)
<1>1. G!TechnologyEdges(b, U) = G!TechnologyEdges(b, T)
  BY DEF G!TechnologyEdges
<1>2. G!RelationEdges(F, Rels \cup N) \subseteq G!RelationEdges(F, Rels)
  BY DEF G!RelationEdges
<1>3. G!AssetEdges(b, U) \subseteq G!AssetEdges(b, T) \cup G!AssetEdges(a, U)
  <2> SUFFICES ASSUME NEW p \in Before \cap (Assets \X Assets), b \in {p[1], p[2]}, U[p[1]] \cap U[p[2]] # {}
               PROVE  G!Edge(p[1], p[2], "RELATED_TO") \in G!AssetEdges(b, T) \cup G!AssetEdges(a, U)
    BY DEF G!AssetEdges
  <2>1. CASE a \in {p[1], p[2]}
    BY <2>1 DEF G!AssetEdges
  <2>2. CASE a \notin {p[1], p[2]}
    <3>1. U[p[1]] = T[p[1]] /\ U[p[2]] = T[p[2]]
      BY <2>2
    <3>2. QED
      BY <3>1 DEF G!AssetEdges
  <2>3. QED
    BY <2>1, <2>2
<1>4. QED
  BY <1>1, <1>2, <1>3 DEF G!build_graph_for_asset

\* A commit nobody has overtaken brings what its draft was made of.
LEMMA GraphCommitStep ==
  ASSUME GraphOk, NEW j \in GraphJobs, G!Commit(j) PROVE GraphOk'
<1> DEFINE a == AssetOf[j]
           F == G!FindingsSeen(j)
           N == G!correlate_asset_findings(F)
           U == G!TechnologiesSeen(j)
<1>1. /\ phase[j] = "built" /\ findings' = findings \cup Reports[j]
      /\ technologies' = IF Plugins[j] = {} THEN technologies ELSE [technologies EXCEPT ![a] = G!Merged(j)]
      /\ relations' = relations \cup draft[j].relations /\ edges' = edges \cup draft[j].edges
      /\ phase' = [phase EXCEPT ![j] = "success"] /\ draft' = [draft EXCEPT ![j] = G!Empty]
      /\ overlapped' = (overlapped \/ \E k \in GraphJobs \ {j} : G!Overtakes(j, k)) /\ known' = known
  BY DEF G!Commit
<1>2. a \in Assets /\ Reports[j] \in SUBSET Findings /\ Plugins[j] \in SUBSET Technologies
  BY GraphAssumption
<1>3. G!TypeOK'
  <2>1. draft[j] \in [relations : SUBSET G!Relations, edges : SUBSET G!Edges]
        /\ G!Empty \in [relations : SUBSET G!Relations, edges : SUBSET G!Edges]
    BY DEF GraphOk, G!TypeOK, G!Empty
  <2>2. relations' \subseteq G!Relations /\ edges' \subseteq G!Edges /\ findings' \subseteq Findings
    BY <1>1, <1>2, <2>1 DEF GraphOk, G!TypeOK
  <2>3. technologies' \in [Assets -> SUBSET Technologies]
    BY <1>1, <1>2 DEF GraphOk, G!TypeOK, G!Merged
  <2>4. overlapped' \in BOOLEAN
    BY <1>1 DEF GraphOk, G!TypeOK
  <2>5. QED
    BY <1>1, <2>1, <2>2, <2>3, <2>4 DEF GraphOk, G!TypeOK
<1>4. ASSUME ~overlapped' PROVE DraftInv' /\ KnownInv' /\ UpToDate'
  <2>1. /\ DraftInv /\ KnownInv /\ UpToDate /\ phase'[j] = "success"
        /\ \A k \in GraphJobs \ {j} : phase[k] # "built" /\ phase'[k] = phase[k]
        /\ \A k \in GraphJobs \ {j} : phase[k] = "running" => Plugins[j] = {} \/ AssetOf[k] # a
    BY <1>1, <1>4 DEF GraphOk, G!TypeOK, G!Overtakes
  <2>2. DraftInv'
    BY <2>1 DEF DraftInv
  <2>3. known[j] = technologies[a] /\ technologies' = U
    <3>1. known[j] = technologies[a]
      BY <1>1, <2>1 DEF KnownInv
    <3>2. CASE Plugins[j] = {}
      <4>1. G!Merged(j) = technologies[a]
        BY <3>1, <3>2 DEF G!Merged
      <4>2. QED
        BY <1>1, <3>1, <3>2, <4>1 DEF G!TechnologiesSeen, GraphOk, G!TypeOK
    <3>3. CASE Plugins[j] # {}
      BY <1>1, <3>1, <3>3 DEF G!TechnologiesSeen
    <3>4. QED
      BY <3>2, <3>3
  <2>4. KnownInv'
    <3> SUFFICES ASSUME NEW k \in GraphJobs, phase'[k] \in {"running", "built"}
                 PROVE  known[k] = technologies'[AssetOf[k]]
      BY <1>1 DEF KnownInv
    <3>1. k # j /\ phase[k] = "running" /\ (Plugins[j] = {} \/ AssetOf[k] # a)
      BY <2>1
    <3>2. technologies'[AssetOf[k]] = technologies[AssetOf[k]]
      BY <1>1, <3>1, GraphAssumption DEF GraphOk, G!TypeOK
    <3>3. QED
      BY <2>1, <3>1, <3>2 DEF KnownInv
  <2>5. /\ draft[j].relations = (relations \cup N) \ relations
        /\ draft[j].edges = G!build_graph_for_asset(a, F, relations \cup N, U)
    BY <1>1, <2>1 DEF DraftInv
  <2>6. relations' = relations \cup N
    BY <1>1, <2>5
  <2>7. G!OfAsset(a, findings)' = F
    BY <1>1 DEF G!FindingsSeen, G!OfAsset
  <2>8. UpToDate'
    <3> SUFFICES ASSUME NEW b \in Assets
                 PROVE  /\ G!correlate_asset_findings(G!OfAsset(b, findings)') \subseteq relations'
                        /\ G!build_graph_for_asset(b, G!OfAsset(b, findings)', relations', technologies') \subseteq edges'
      BY DEF UpToDate
    <3>1. CASE b = a
      BY <1>1, <2>3, <2>5, <2>6, <2>7, <3>1
    <3>2. CASE b # a
      <4> DEFINE B == G!OfAsset(b, findings)
      <4>1. G!OfAsset(b, findings)' = B
        BY <1>1, <3>2, OwnFindings DEF G!OfAsset
      <4>2. /\ G!correlate_asset_findings(B) \subseteq relations
            /\ G!build_graph_for_asset(b, B, relations, technologies) \subseteq edges
        BY <2>1 DEF UpToDate
      <4>3. \A r \in N : r.left \notin B /\ r.right \notin B
        <5>1. F \in SUBSET Findings /\ \A f \in F : f \notin B
          BY <3>2, SightTypes DEF GraphOk, G!FindingsSeen, G!OfAsset
        <5>2. QED
          BY <5>1, CorrelatedPairs
      <4>4. \A c \in Assets \ {a} : U[c] = technologies[c]
        BY DEF G!TechnologiesSeen, GraphOk, G!TypeOK
      <4>5. G!build_graph_for_asset(b, B, relations \cup N, U)
              \subseteq G!build_graph_for_asset(b, B, relations, technologies) \cup G!AssetEdges(a, U)
        BY <1>2, <3>2, <4>3, <4>4, OtherAsset
      <4>6. G!AssetEdges(a, U) \subseteq draft[j].edges
        BY <2>5 DEF G!build_graph_for_asset
      <4>7. QED
        BY <1>1, <2>3, <2>6, <4>1, <4>2, <4>5, <4>6
    <3>3. QED
      BY <3>1, <3>2
  <2>9. QED
    BY <2>2, <2>4, <2>8
<1>5. QED
  BY <1>3, <1>4 DEF GraphOk

LEMMA GraphInvariance ==
  ASSUME GraphOk, [G!Next]_(G!vars) PROVE GraphOk'
<1>1. CASE UNCHANGED G!vars
  BY <1>1, SameSight DEF GraphOk, G!TypeOK, DraftInv, KnownInv, UpToDate, G!vars, G!OfAsset
<1>2. CASE G!Next
  BY <1>2, LoadStep, BuildStep, GraphCommitStep, GraphFailStep, RebuildStep DEF G!Next
<1>3. QED
  BY <1>1, <1>2

\* Nothing is known, and nothing is related to nothing.
LEMMA GraphInitially == G!Init => GraphOk
<1> SUFFICES ASSUME G!Init PROVE GraphOk
  OBVIOUS
<1>1. G!TypeOK
  BY DEF G!Init, G!TypeOK, G!Empty
<1>2. DraftInv /\ KnownInv
  BY DEF G!Init, DraftInv, KnownInv
<1>3. G!correlate_asset_findings({}) = {}
  BY CorrelatedPairs
<1>4. \A a \in Assets : G!build_graph_for_asset(a, {}, {}, technologies) = {}
  BY DEF G!Init, G!build_graph_for_asset, G!FindingEdges, G!CveEdges,
         G!TechnologyEdges, G!RelationEdges, G!AssetEdges, G!With, G!Ported
<1>5. \A a \in Assets : G!OfAsset(a, findings) = {}
  BY DEF G!Init, G!OfAsset
<1>6. UpToDate
  BY <1>3, <1>4, <1>5 DEF G!Init, UpToDate
<1>7. QED
  BY <1>1, <1>2, <1>6 DEF GraphOk

LEMMA GraphProperty == GraphOk => G!GraphIsUpToDate
BY NoTwoOrders DEF GraphOk, UpToDate, G!GraphIsUpToDate

-----------------------------------------------------------------------------
(* The queries of SecurityGraph, for any edges between two nodes.          *)

\* What holds of 0, and of n + 1 if of n, holds of every number: the least that
\* it does not hold of would have the smallest set of numbers up to it.
LEMMA Numbers ==
  ASSUME NEW W, 0 \in W, \A n \in Nat : n \in W => n + 1 \in W
  PROVE  \A n \in Nat : n \in W
<1> SUFFICES ASSUME NEW n \in Nat, n \notin W PROVE FALSE
  OBVIOUS
<1> DEFINE Missing == (0 .. n) \ W
           Sets == {0 .. m : m \in Missing}
<1>1. Sets \subseteq FiniteSubsetsOf(0 .. n) /\ Sets # {}
  <2>1. \A m \in Missing : 0 .. m \in SUBSET (0 .. n) /\ IsFiniteSet(0 .. m)
    BY FS_Interval
  <2>2. n \in Missing
    OBVIOUS
  <2>3. QED
    BY <2>1, <2>2 DEF FiniteSubsetsOf
<1>2. PICK U \in Sets : \A V \in Sets : <<V, U>> \notin StrictSubsetOrdering(0 .. n)
  BY <1>1, FS_StrictSubsetOrderingWellFounded, WFMin, Zenon
<1>3. PICK m \in Missing : U = 0 .. m
  BY <1>2
<1>4. m - 1 \in Missing
  BY <1>3
<1>5. 0 .. (m - 1) \in Sets /\ 0 .. (m - 1) \subseteq 0 .. m /\ 0 .. (m - 1) # 0 .. m
  <2>1. 0 .. (m - 1) \in Sets
    BY <1>4
  <2>2. m \in 0 .. m /\ m \notin 0 .. (m - 1) /\ 0 .. (m - 1) \subseteq 0 .. m
    BY <1>4
  <2>3. QED
    BY <2>1, <2>2
<1>6. <<0 .. (m - 1), 0 .. m>> \in StrictSubsetOrdering(0 .. n)
  <2>1. 0 .. m \in SUBSET (0 .. n)
    OBVIOUS
  <2>2. QED
    BY <2>1, <1>5 DEF StrictSubsetOrdering
<1>7. QED
  BY <1>2, <1>3, <1>5, <1>6

\* The first n + 1 values of the function that starts with Z and goes on with F.
Started(T, Z, F, n) ==
  {f \in [0 .. n -> T] : f[0] = Z /\ \A h \in 1 .. n : f[h] = F[f[h - 1]]}

LEMMA StartedOnce ==
  ASSUME NEW T, NEW Z \in T, NEW F \in [T -> T], NEW n \in Nat,
         NEW f \in Started(T, Z, F, n), NEW g \in Started(T, Z, F, n + 1)
  PROVE  f[n] = g[n]
<1> DEFINE W == {h \in Nat : h <= n => f[h] = g[h]}
<1>1. 0 \in W
  BY DEF Started
<1>2. \A h \in Nat : h \in W => h + 1 \in W
  <2> SUFFICES ASSUME NEW h \in Nat, h \in W, h + 1 <= n PROVE f[h + 1] = g[h + 1]
    OBVIOUS
  <2>1. h + 1 \in 1 .. n /\ h + 1 \in 1 .. (n + 1) /\ (h + 1) - 1 = h /\ f[h] = g[h]
    OBVIOUS
  <2>2. QED
    BY <2>1 DEF Started
<1>3. n \in W
  BY <1>1, <1>2, Numbers, Zenon
<1>4. QED
  BY <1>3

\* Every function on the numbers that a step defines from the value before exists.
Iterated(T, Z, F) == {f \in [Nat -> T] : f[0] = Z /\ \A n \in Nat : f[n + 1] = F[f[n]]}

LEMMA StepByStep ==
  ASSUME NEW T, NEW Z \in T, NEW F \in [T -> T]
  PROVE  \E f : f \in Iterated(T, Z, F)
<1> DEFINE W == {n \in Nat : Started(T, Z, F, n) # {}}
<1>1. 0 \in W
  <2>1. [h \in 0 .. 0 |-> Z] \in Started(T, Z, F, 0)
    BY DEF Started
  <2>2. QED
    BY <2>1
<1>2. \A n \in Nat : n \in W => n + 1 \in W
  <2> SUFFICES ASSUME NEW n \in Nat, NEW f \in Started(T, Z, F, n)
               PROVE  Started(T, Z, F, n + 1) # {}
    OBVIOUS
  <2> DEFINE g == [h \in 0 .. (n + 1) |-> IF h <= n THEN f[h] ELSE F[f[n]]]
  <2>1. f \in [0 .. n -> T] /\ f[0] = Z /\ \A h \in 1 .. n : f[h] = F[f[h - 1]]
    BY DEF Started
  <2>2. F[f[n]] \in T
    BY <2>1
  <2>3. g \in [0 .. (n + 1) -> T]
    BY <2>1, <2>2
  <2>4. g[0] = Z
    BY <2>1
  <2>5. \A h \in 1 .. (n + 1) : g[h] = F[g[h - 1]]
    <3> SUFFICES ASSUME NEW h \in 1 .. (n + 1) PROVE g[h] = F[g[h - 1]]
      OBVIOUS
    <3>1. CASE h <= n
      BY <2>1, <3>1
    <3>2. CASE h = n + 1
      BY <2>1, <3>2
    <3>3. QED
      BY <3>1, <3>2
  <2>6. g \in Started(T, Z, F, n + 1)
    BY <2>3, <2>4, <2>5 DEF Started
  <2>7. QED
    BY <2>6
<1>3. \A n \in Nat : Started(T, Z, F, n) # {}
  <2> HIDE DEF W
  <2>1. \A n \in Nat : n \in W
    BY <1>1, <1>2, Numbers, Zenon
  <2>2. QED
    BY <2>1 DEF W
<1> DEFINE Pick(n) == CHOOSE f \in Started(T, Z, F, n) : TRUE
           all == [n \in Nat |-> Pick(n)[n]]
<1>4. \A n \in Nat : Pick(n) \in Started(T, Z, F, n)
  BY <1>3, Zenon
<1> HIDE DEF Pick
<1>5. all \in [Nat -> T] /\ all[0] = Z
  BY <1>4 DEF Started
<1>6. \A n \in Nat : all[n + 1] = F[all[n]]
  <2> SUFFICES ASSUME NEW n \in Nat PROVE Pick(n + 1)[n + 1] = F[Pick(n)[n]]
    OBVIOUS
  <2>1. Pick(n)[n] = Pick(n + 1)[n]
    BY <1>4, StartedOnce
  <2>2. Pick(n + 1) \in Started(T, Z, F, n + 1) /\ n + 1 \in 1 .. (n + 1) /\ (n + 1) - 1 = n
    BY <1>4
  <2>3. QED
    BY <2>1, <2>2 DEF Started
<1>7. QED
  BY <1>5, <1>6 DEF Iterated

LEMMA Longer ==
  ASSUME NEW T, NEW s \in Seq(T), NEW x \in T
  PROVE  /\ Append(s, x) \in Seq(T) /\ Append(s, x) # <<>> /\ G!Last(Append(s, x)) = x
         /\ G!ToSet(Append(s, x)) = G!ToSet(s) \cup {x}
<1>1. Append(s, x) \in Seq(T) /\ Len(Append(s, x)) = Len(s) + 1 /\ Append(s, x)[Len(s) + 1] = x
      /\ \A i \in 1 .. Len(s) : Append(s, x)[i] = s[i]
  OBVIOUS
<1>2. DOMAIN s = 1 .. Len(s) /\ DOMAIN Append(s, x) = 1 .. (Len(s) + 1) /\ Len(s) \in Nat
  OBVIOUS
<1>3. G!ToSet(Append(s, x)) = G!ToSet(s) \cup {x}
  <2>1. G!ToSet(Append(s, x)) \subseteq G!ToSet(s) \cup {x}
    BY <1>1, <1>2 DEF G!ToSet
  <2>2. x \in G!ToSet(Append(s, x)) /\ G!ToSet(s) \subseteq G!ToSet(Append(s, x))
    <3>1. 1 .. Len(s) \subseteq 1 .. (Len(s) + 1) /\ Len(s) + 1 \in 1 .. (Len(s) + 1)
      BY <1>2
    <3>2. QED
      BY <1>1, <1>2, <3>1 DEF G!ToSet
  <2>3. QED
    BY <2>1, <2>2
<1>4. Append(s, x) # <<>>
  <2>1. Len(<<>>) = 0 /\ Len(Append(s, x)) # 0
    BY <1>1, <1>2
  <2>2. QED
    BY <2>1
<1>5. QED
  BY <1>1, <1>3, <1>4 DEF G!Last

\* The neighbourhoods of a node: each has the nodes an edge away from the last.
Wider(B) == B \cup UNION {{e.from, e.to} : e \in G!Touching(B)}

LEMMA BallsGrow ==
  ASSUME edges \subseteq G!Edges, NEW seed \in G!Nodes
  PROVE  G!Balls(seed)[0] = {seed} /\ \A h \in Nat : G!Balls(seed)[h + 1] = Wider(G!Balls(seed)[h])
<1> DEFINE Of(ball) == ball = [h \in Nat |-> IF h = 0 THEN {seed}
                                 ELSE ball[h - 1] \cup UNION {{e.from, e.to} : e \in G!Touching(ball[h - 1])}]
<1>1. PICK F \in [SUBSET G!Nodes -> SUBSET G!Nodes] : \A B \in SUBSET G!Nodes : F[B] = Wider(B)
  <2>1. \A e \in edges : e.from \in G!Nodes /\ e.to \in G!Nodes
    BY DEF G!Edges
  <2>2. \A B \in SUBSET G!Nodes : Wider(B) \in SUBSET G!Nodes
    BY <2>1 DEF Wider, G!Touching
  <2>3. [B \in SUBSET G!Nodes |-> Wider(B)] \in [SUBSET G!Nodes -> SUBSET G!Nodes]
    BY <2>2
  <2>4. QED
    BY <2>3
<1> DEFINE T == SUBSET G!Nodes
<1>2. PICK f : f \in [Nat -> T] /\ f[0] = {seed} /\ \A n \in Nat : f[n + 1] = F[f[n]]
  <2>1. {seed} \in T /\ F \in [T -> T]
    OBVIOUS
  <2> HIDE DEF T
  <2>2. PICK f : f \in Iterated(T, {seed}, F)
    BY <2>1, StepByStep
  <2>3. QED
    BY <2>2 DEF Iterated
<1>3. \A h \in Nat : f[h] = IF h = 0 THEN {seed} ELSE Wider(f[h - 1])
  <2> SUFFICES ASSUME NEW h \in Nat, h # 0 PROVE f[h] = Wider(f[h - 1])
    BY <1>2
  <2>1. h - 1 \in Nat /\ (h - 1) + 1 = h
    OBVIOUS
  <2>2. f[h] = F[f[h - 1]] /\ f[h - 1] \in SUBSET G!Nodes
    BY <1>2, <2>1
  <2>3. QED
    BY <1>1, <2>2
<1>4. Of(f)
  BY <1>2, <1>3 DEF Wider
<1>5. Of(CHOOSE ball : Of(ball))
  BY <1>4, Zenon
<1>6. G!Balls(seed) = (CHOOSE ball : Of(ball))
  BY DEF G!Balls
<1>7. Of(G!Balls(seed))
  BY <1>5, <1>6
<1>8. QED
  <2>1. G!Balls(seed)[0] = {seed}
    BY <1>7
  <2>2. ASSUME NEW h \in Nat PROVE G!Balls(seed)[h + 1] = Wider(G!Balls(seed)[h])
    <3>1. h + 1 \in Nat /\ h + 1 # 0 /\ (h + 1) - 1 = h
      OBVIOUS
    <3>2. QED
      BY <1>7, <3>1 DEF Wider
  <2>3. QED
    BY <2>1, <2>2

\* The rows of the traversal: each hop extends those of the last.
RowSets == SUBSET [path : Seq(edges), visited : Seq(G!Nodes) \ {<<>>}]

\* The row q is r and an edge e from its last node to a node m.
Hop(r, e, m, q) ==
  /\ q.path = Append(r.path, e) /\ q.visited = Append(r.visited, m)
  /\ {e.from, e.to} = {G!Last(r.visited), m} /\ G!Last(q.visited) = m
  /\ G!ToSet(q.visited) = G!ToSet(r.visited) \cup {m} /\ G!ToSet(q.path) = G!ToSet(r.path) \cup {e}

LEMMA Extended ==
  ASSUME edges \subseteq G!Edges, NEW r \in [path : Seq(edges), visited : Seq(G!Nodes) \ {<<>>}]
  PROVE  /\ G!Extend(r) \in RowSets /\ G!Last(r.visited) \in G!ToSet(r.visited)
         /\ \A q \in G!Extend(r) : \E e \in edges : \E m \in G!Nodes \ G!ToSet(r.visited) : Hop(r, e, m, q)
         /\ \A e \in edges : \A m \in G!Nodes \ G!ToSet(r.visited) :
              {e.from, e.to} = {G!Last(r.visited), m} => \E q \in G!Extend(r) : Hop(r, e, m, q)
<1> DEFINE n == G!Last(r.visited)
           Long(e) == [path |-> Append(r.path, e), visited |-> Append(r.visited, G!Other(e, n))]
           New == {d \in edges : n \in {d.from, d.to} /\ G!Other(d, n) \notin G!ToSet(r.visited)}
<1>1. G!Extend(r) = {Long(e) : e \in New}
  BY DEF G!Extend, G!bidirectional_edges
<1>2. r.path \in Seq(edges) /\ r.visited \in Seq(G!Nodes) /\ Len(r.visited) \in Nat \ {0}
  BY DEF RowSets
<1>3. n \in G!ToSet(r.visited)
  BY <1>2 DEF G!Last, G!ToSet
<1>4. \A e \in New : G!Other(e, n) \in G!Nodes /\ {e.from, e.to} = {n, G!Other(e, n)}
  BY DEF G!Edges, G!Other
<1>5. \A e \in New : Long(e).path \in Seq(edges) /\ G!ToSet(Long(e).path) = G!ToSet(r.path) \cup {e}
  BY <1>2, Longer
<1>6. \A e \in New :
        LET s == Long(e).visited IN
        /\ s \in Seq(G!Nodes) \ {<<>>} /\ G!Last(s) = G!Other(e, n)
        /\ G!ToSet(s) = G!ToSet(r.visited) \cup {G!Other(e, n)}
  <2> SUFFICES ASSUME NEW e \in New
               PROVE  LET s == Append(r.visited, G!Other(e, n)) IN
                      /\ s \in Seq(G!Nodes) \ {<<>>} /\ G!Last(s) = G!Other(e, n)
                      /\ G!ToSet(s) = G!ToSet(r.visited) \cup {G!Other(e, n)}
    OBVIOUS
  <2>1. G!Other(e, n) \in G!Nodes
    BY <1>4
  <2> HIDE DEF n, New
  <2>2. QED
    BY <1>2, <2>1, Longer
<1>7. \A e \in New : Long(e).path = Append(r.path, e) /\ Long(e).visited = Append(r.visited, G!Other(e, n))
  OBVIOUS
<1> HIDE DEF n, Long
<1>8. G!Extend(r) \in RowSets
  <2>1. \A e \in New : Long(e) \in [path : Seq(edges), visited : Seq(G!Nodes) \ {<<>>}]
    BY <1>5, <1>6 DEF Long
  <2>2. QED
    BY <1>1, <2>1 DEF RowSets
<1>9. ASSUME NEW q \in G!Extend(r)
      PROVE  \E e \in edges : \E m \in G!Nodes \ G!ToSet(r.visited) : Hop(r, e, m, q)
  <2>1. PICK e \in New : q = Long(e)
    BY <1>1
  <2>2. G!Other(e, n) \in G!Nodes \ G!ToSet(r.visited) /\ {e.from, e.to} = {n, G!Other(e, n)}
    BY <1>4
  <2>3. Hop(r, e, G!Other(e, n), q)
    BY <1>5, <1>6, <1>7, <2>1, <2>2 DEF Hop, n
  <2>4. QED
    BY <2>2, <2>3
<1>10. ASSUME NEW e \in edges, NEW m \in G!Nodes \ G!ToSet(r.visited), {e.from, e.to} = {n, m}
      PROVE  \E q \in G!Extend(r) : Hop(r, e, m, q)
  <2>1. m = G!Other(e, n) /\ e \in New
    BY <1>3, <1>10 DEF G!Other
  <2>2. Long(e) \in G!Extend(r)
    BY <1>1, <2>1
  <2>3. Hop(r, e, m, Long(e))
    BY <1>5, <1>6, <1>10, <1>7, <2>1 DEF Hop, n
  <2>4. QED
    BY <2>2, <2>3
<1>11. QED
  BY <1>3, <1>8, <1>9, <1>10 DEF n

Begun(seed) == [path |-> <<>>, visited |-> <<seed>>]

LEMMA RowsFollow ==
  ASSUME edges \subseteq G!Edges, NEW seed \in G!Nodes
  PROVE  /\ G!Rows(seed)[0] = {Begun(seed)}
         /\ \A h \in Nat : /\ G!Rows(seed)[h] \in RowSets
                           /\ G!Rows(seed)[h + 1] = UNION {G!Extend(r) : r \in G!Rows(seed)[h]}
<1> DEFINE Of(rows) == rows = [hop \in Nat |-> IF hop = 0 THEN {[path |-> <<>>, visited |-> <<seed>>]}
                                 ELSE UNION {G!Extend(r) : r \in rows[hop - 1]}]
           T == RowSets
<1>1. PICK F \in [T -> T] : \A Q \in T : F[Q] = UNION {G!Extend(r) : r \in Q}
  <2>1. \A Q \in RowSets : UNION {G!Extend(r) : r \in Q} \in RowSets
    <3>1. \A Q \in RowSets : \A r \in Q : G!Extend(r) \in RowSets
      BY Extended DEF RowSets
    <3>2. QED
      BY <3>1 DEF RowSets
  <2>2. [Q \in T |-> UNION {G!Extend(r) : r \in Q}] \in [T -> T]
    BY <2>1
  <2>3. QED
    BY <2>2
<1>2. PICK f : f \in [Nat -> T] /\ f[0] = {Begun(seed)} /\ \A n \in Nat : f[n + 1] = F[f[n]]
  <2>1. {Begun(seed)} \in T
    <3>1. <<>> \in Seq(edges) /\ <<seed>> \in Seq(G!Nodes) \ {<<>>}
      OBVIOUS
    <3>2. QED
      BY <3>1 DEF Begun, RowSets
  <2> HIDE DEF T
  <2>2. PICK f : f \in Iterated(T, {Begun(seed)}, F)
    BY <1>1, <2>1, StepByStep
  <2>3. QED
    BY <2>2 DEF Iterated
<1> HIDE DEF T
<1>3. \A h \in Nat : f[h] = IF h = 0 THEN {Begun(seed)} ELSE UNION {G!Extend(r) : r \in f[h - 1]}
  <2> SUFFICES ASSUME NEW h \in Nat, h # 0 PROVE f[h] = UNION {G!Extend(r) : r \in f[h - 1]}
    BY <1>2
  <2>1. h - 1 \in Nat /\ (h - 1) + 1 = h
    OBVIOUS
  <2>2. f[h] = F[f[h - 1]] /\ f[h - 1] \in T
    BY <1>2, <2>1
  <2>3. QED
    BY <1>1, <2>2
<1>4. Of(f)
  BY <1>2, <1>3 DEF Begun
<1>5. Of(CHOOSE rows : Of(rows))
  BY <1>4, Zenon
<1>6. G!Rows(seed) = (CHOOSE rows : Of(rows))
  BY DEF G!Rows
<1>7. Of(G!Rows(seed))
  BY <1>5, <1>6
<1>8. \A h \in Nat : G!Rows(seed)[h + 1] = UNION {G!Extend(r) : r \in G!Rows(seed)[h]}
  <2> SUFFICES ASSUME NEW h \in Nat PROVE G!Rows(seed)[h + 1] = UNION {G!Extend(r) : r \in G!Rows(seed)[h]}
    OBVIOUS
  <2>1. h + 1 \in Nat /\ h + 1 # 0 /\ (h + 1) - 1 = h
    OBVIOUS
  <2>2. QED
    BY <1>7, <2>1
<1>9. G!Rows(seed)[0] = {Begun(seed)}
  BY <1>7 DEF Begun
<1> DEFINE W == {h \in Nat : G!Rows(seed)[h] = f[h]}
<1>10. \A h \in Nat : h \in W
  <2>1. 0 \in W
    BY <1>2, <1>9
  <2>2. \A h \in Nat : h \in W => h + 1 \in W
    <3> SUFFICES ASSUME NEW h \in Nat, h \in W PROVE G!Rows(seed)[h + 1] = f[h + 1]
      OBVIOUS
    <3>1. h + 1 \in Nat /\ h + 1 # 0 /\ (h + 1) - 1 = h
      OBVIOUS
    <3>2. f[h + 1] = UNION {G!Extend(r) : r \in f[h]}
      BY <1>3, <3>1
    <3>3. QED
      BY <1>8, <3>2
  <2> HIDE DEF W
  <2>3. QED
    BY <2>1, <2>2, Numbers, Zenon
<1>11. \A h \in Nat : G!Rows(seed)[h] \in RowSets
  BY <1>2, <1>10 DEF T
<1>12. QED
  BY <1>8, <1>9, <1>11

\* The neighbourhood before the last hop.
Inner(seed, h) == IF h = 0 THEN {} ELSE G!Balls(seed)[h - 1]

LEMMA InnerGrows ==
  ASSUME edges \subseteq G!Edges, NEW seed \in G!Nodes, NEW h \in Nat
  PROVE  /\ Inner(seed, h + 1) = G!Balls(seed)[h] /\ Inner(seed, h) \subseteq G!Balls(seed)[h]
         /\ \A e \in G!Touching(Inner(seed, h)) : {e.from, e.to} \subseteq G!Balls(seed)[h]
<1>1. h + 1 # 0 /\ (h + 1) - 1 = h
  OBVIOUS
<1>2. CASE h = 0
  BY <1>1, <1>2 DEF Inner, G!Touching
<1>3. CASE h # 0
  <2>1. h - 1 \in Nat /\ (h - 1) + 1 = h
    BY <1>3
  <2>2. G!Balls(seed)[h] = Wider(G!Balls(seed)[h - 1])
    BY <2>1, BallsGrow
  <2>3. QED
    BY <1>1, <1>3, <2>2 DEF Inner, Wider
<1>4. QED
  BY <1>2, <1>3

\* A walk stays within the neighbourhood its hops make.
LEMMA WalksStay ==
  ASSUME edges \subseteq G!Edges, NEW seed \in G!Nodes
  PROVE  \A h \in Nat : \A r \in G!Rows(seed)[h] :
           /\ G!ToSet(r.visited) \subseteq G!Balls(seed)[h]
           /\ G!ToSet(r.path) \subseteq G!Touching(Inner(seed, h))
<1> DEFINE W == {h \in Nat : \A r \in G!Rows(seed)[h] :
                   /\ G!ToSet(r.visited) \subseteq G!Balls(seed)[h]
                   /\ G!ToSet(r.path) \subseteq G!Touching(Inner(seed, h))}
<1>1. 0 \in W
  <2>1. G!ToSet(<<seed>>) = {seed} /\ G!ToSet(<<>>) = {}
    BY DEF G!ToSet
  <2>2. QED
    BY <2>1, BallsGrow, RowsFollow DEF Begun
<1>2. \A h \in Nat : h \in W => h + 1 \in W
  <2> SUFFICES ASSUME NEW h \in Nat, h \in W, NEW q \in G!Rows(seed)[h + 1]
               PROVE  /\ G!ToSet(q.visited) \subseteq G!Balls(seed)[h + 1]
                      /\ G!ToSet(q.path) \subseteq G!Touching(Inner(seed, h + 1))
    OBVIOUS
  <2>1. PICK r \in G!Rows(seed)[h] : q \in G!Extend(r)
    BY RowsFollow
  <2>2. r \in [path : Seq(edges), visited : Seq(G!Nodes) \ {<<>>}]
    BY RowsFollow DEF RowSets
  <2>3. PICK e \in edges, m \in G!Nodes : Hop(r, e, m, q)
    BY <2>1, <2>2, Extended
  <2>4. G!Last(r.visited) \in G!Balls(seed)[h]
    BY <2>2, Extended
  <2>5. e \in G!Touching(G!Balls(seed)[h])
    BY <2>3, <2>4 DEF Hop, G!Touching
  <2>6. G!ToSet(q.visited) \subseteq G!Balls(seed)[h + 1]
    <3>1. {e.from, e.to} \subseteq G!Balls(seed)[h + 1] /\ G!Balls(seed)[h] \subseteq G!Balls(seed)[h + 1]
      <4>1. G!Balls(seed)[h + 1] = Wider(G!Balls(seed)[h])
        BY BallsGrow
      <4>2. QED
        BY <2>5, <4>1 DEF Wider
    <3>2. QED
      BY <2>3, <3>1 DEF Hop
  <2>7. Inner(seed, h + 1) = G!Balls(seed)[h] /\ Inner(seed, h) \subseteq G!Balls(seed)[h]
    BY InnerGrows
  <2>8. G!ToSet(r.path) \subseteq G!Touching(G!Balls(seed)[h])
    BY <2>7 DEF G!Touching
  <2>9. QED
    BY <2>3, <2>5, <2>6, <2>7, <2>8 DEF Hop
<1> HIDE DEF W
<1>3. \A h \in Nat : h \in W
  BY <1>1, <1>2, Numbers, Zenon
<1>4. QED
  BY <1>3 DEF W

\* To every node first reached at a hop leads a walk of that many hops through
\* nodes reached before.
LEMMA WalksReach ==
  ASSUME edges \subseteq G!Edges, NEW seed \in G!Nodes
  PROVE  \A h \in Nat : \A n \in G!Balls(seed)[h] \ Inner(seed, h) : \E r \in G!Rows(seed)[h] :
           G!Last(r.visited) = n /\ G!ToSet(r.visited) \subseteq Inner(seed, h) \cup {n}
<1> DEFINE W == {h \in Nat : \A n \in G!Balls(seed)[h] \ Inner(seed, h) : \E r \in G!Rows(seed)[h] :
                   G!Last(r.visited) = n /\ G!ToSet(r.visited) \subseteq Inner(seed, h) \cup {n}}
<1>1. 0 \in W
  <2>1. G!ToSet(<<seed>>) = {seed} /\ G!Last(<<seed>>) = seed
    BY DEF G!ToSet, G!Last
  <2>2. G!Balls(seed)[0] = {seed} /\ G!Rows(seed)[0] = {Begun(seed)} /\ Begun(seed).visited = <<seed>>
    BY BallsGrow, RowsFollow DEF Begun
  <2>3. QED
    BY <2>1, <2>2
<1>2. \A h \in Nat : h \in W => h + 1 \in W
  <2> SUFFICES ASSUME NEW h \in Nat, h \in W, NEW n \in G!Balls(seed)[h + 1] \ Inner(seed, h + 1)
               PROVE  \E q \in G!Rows(seed)[h + 1] :
                        G!Last(q.visited) = n /\ G!ToSet(q.visited) \subseteq Inner(seed, h + 1) \cup {n}
    OBVIOUS
  <2>1. n \notin G!Balls(seed)[h] /\ Inner(seed, h + 1) = G!Balls(seed)[h]
        /\ Inner(seed, h) \subseteq G!Balls(seed)[h]
    BY InnerGrows
  <2>2. PICK e \in G!Touching(G!Balls(seed)[h]) : n \in {e.from, e.to}
    BY <2>1, BallsGrow DEF Wider
  <2>3. e \in edges /\ e.from \in G!Nodes /\ e.to \in G!Nodes
    BY <2>2 DEF G!Touching, G!Edges
  <2>4. PICK m \in G!Balls(seed)[h] : {e.from, e.to} = {m, n}
    BY <2>1, <2>2 DEF G!Touching
  <2>5. m \notin Inner(seed, h)
    <3>1. ASSUME m \in Inner(seed, h) PROVE e \in G!Touching(Inner(seed, h))
      BY <2>3, <2>4, <3>1 DEF G!Touching
    <3>2. QED
      BY <2>1, <2>4, <3>1, InnerGrows
  <2>6. PICK r \in G!Rows(seed)[h] :
          G!Last(r.visited) = m /\ G!ToSet(r.visited) \subseteq Inner(seed, h) \cup {m}
    BY <2>4, <2>5
  <2>7. n \in G!Nodes \ G!ToSet(r.visited)
    BY <2>1, <2>3, <2>4, <2>6
  <2>8. r \in [path : Seq(edges), visited : Seq(G!Nodes) \ {<<>>}]
    BY RowsFollow DEF RowSets
  <2>9. PICK q \in G!Extend(r) : Hop(r, e, n, q)
    BY <2>3, <2>4, <2>6, <2>7, <2>8, Extended
  <2>10. q \in G!Rows(seed)[h + 1]
    BY <2>9, RowsFollow
  <2>11. G!Last(q.visited) = n /\ G!ToSet(q.visited) = G!ToSet(r.visited) \cup {n}
    BY <2>9 DEF Hop
  <2>12. QED
    BY <2>1, <2>6, <2>10, <2>11
<1> HIDE DEF W
<1>3. \A h \in Nat : h \in W
  BY <1>1, <1>2, Numbers, Zenon
<1>4. QED
  BY <1>3 DEF W

\* Every edge that touches the neighbourhood is the last of a walk.
LEMMA WalksComplete ==
  ASSUME edges \subseteq G!Edges, NEW seed \in G!Nodes
  PROVE  \A h \in Nat : \A e \in G!Touching(G!Balls(seed)[h]) :
           \E k \in 1 .. (h + 1) : \E r \in G!Rows(seed)[k] : e \in G!ToSet(r.path)
<1> DEFINE Walked(e, h) == \E k \in 1 .. h : \E r \in G!Rows(seed)[k] : e \in G!ToSet(r.path)
           W == {h \in Nat : \A e \in G!Touching(G!Balls(seed)[h]) : Walked(e, h + 1)}
<1>1. ASSUME NEW h \in Nat, NEW e \in G!Touching(G!Balls(seed)[h]) \ G!Touching(Inner(seed, h))
      PROVE  Walked(e, h + 1)
  <2>1. e \in edges /\ e.from \in G!Nodes /\ e.to \in G!Nodes /\ e.from # e.to
    BY DEF G!Touching, G!Edges
  <2>2. PICK n \in {e.from, e.to} : n \in G!Balls(seed)[h] \ Inner(seed, h)
    BY <1>1, <2>1 DEF G!Touching
  <2>3. PICK m \in {e.from, e.to} : m # n
    BY <2>1
  <2>4. PICK r \in G!Rows(seed)[h] :
          G!Last(r.visited) = n /\ G!ToSet(r.visited) \subseteq Inner(seed, h) \cup {n}
    BY <2>2, WalksReach
  <2>5. m \notin Inner(seed, h)
    BY <1>1, <2>1 DEF G!Touching
  <2>6. m \in G!Nodes \ G!ToSet(r.visited) /\ {e.from, e.to} = {n, m}
    BY <2>1, <2>2, <2>3, <2>4, <2>5
  <2>7. r \in [path : Seq(edges), visited : Seq(G!Nodes) \ {<<>>}]
    BY RowsFollow DEF RowSets
  <2>8. PICK q \in G!Extend(r) : Hop(r, e, m, q)
    BY <2>1, <2>4, <2>6, <2>7, Extended
  <2>9. q \in G!Rows(seed)[h + 1] /\ e \in G!ToSet(q.path) /\ h + 1 \in 1 .. (h + 1)
    BY <2>8, RowsFollow DEF Hop
  <2>10. QED
    BY <2>9
<1>2. 0 \in W
  BY <1>1 DEF Inner, G!Touching
<1>3. \A h \in Nat : h \in W => h + 1 \in W
  <2> SUFFICES ASSUME NEW h \in Nat, h \in W, NEW e \in G!Touching(G!Balls(seed)[h + 1])
               PROVE  Walked(e, (h + 1) + 1)
    OBVIOUS
  <2>1. CASE e \in G!Touching(Inner(seed, h + 1))
    <3>1. Walked(e, h + 1)
      BY <2>1, InnerGrows
    <3>2. 1 .. (h + 1) \subseteq 1 .. ((h + 1) + 1)
      OBVIOUS
    <3>3. QED
      BY <3>1, <3>2
  <2>2. CASE e \notin G!Touching(Inner(seed, h + 1))
    BY <1>1, <2>2
  <2>3. QED
    BY <2>1, <2>2
<1> HIDE DEF W
<1>4. \A h \in Nat : h \in W
  BY <1>2, <1>3, Numbers, Zenon
<1>5. QED
  BY <1>4 DEF W

\* The neighbourhoods of a node lie within one another.
LEMMA BallsNest ==
  ASSUME edges \subseteq G!Edges, NEW seed \in G!Nodes, NEW k \in Nat
  PROVE  \A h \in Nat : G!Balls(seed)[k] \subseteq G!Balls(seed)[k + h]
<1> DEFINE W == {h \in Nat : G!Balls(seed)[k] \subseteq G!Balls(seed)[k + h]}
<1>1. 0 \in W
  OBVIOUS
<1>2. \A h \in Nat : h \in W => h + 1 \in W
  <2> SUFFICES ASSUME NEW h \in Nat, h \in W PROVE G!Balls(seed)[k] \subseteq G!Balls(seed)[k + (h + 1)]
    OBVIOUS
  <2>1. k + h \in Nat /\ k + (h + 1) = (k + h) + 1
    OBVIOUS
  <2>2. QED
    BY <2>1, BallsGrow DEF Wider
<1> HIDE DEF W
<1>3. \A h \in Nat : h \in W
  BY <1>1, <1>2, Numbers, Zenon
<1>4. QED
  BY <1>3 DEF W

LEMMA LocalGraph ==
  ASSUME edges \subseteq G!Edges, NEW seed \in G!Nodes, NEW depth \in Nat \ {0}
  PROVE  G!local_graph(seed, depth) = G!Touching(G!Balls(seed)[depth - 1])
<1>1. depth - 1 \in Nat /\ (depth - 1) + 1 = depth
  OBVIOUS
<1>2. ASSUME NEW h \in 1 .. depth, NEW r \in G!Rows(seed)[h]
      PROVE  G!ToSet(r.path) \subseteq G!Touching(G!Balls(seed)[depth - 1])
  <2>1. h - 1 \in Nat /\ depth - h \in Nat /\ (h - 1) + (depth - h) = depth - 1 /\ h \in Nat /\ h # 0
    OBVIOUS
  <2>2. G!Balls(seed)[h - 1] \subseteq G!Balls(seed)[depth - 1]
    BY <2>1, BallsNest
  <2>3. G!ToSet(r.path) \subseteq G!Touching(G!Balls(seed)[h - 1])
    BY <2>1, WalksStay DEF Inner
  <2>4. QED
    BY <2>2, <2>3 DEF G!Touching
<1>3. \A e \in G!Touching(G!Balls(seed)[depth - 1]) :
        \E h \in 1 .. depth : \E r \in G!Rows(seed)[h] : e \in G!ToSet(r.path)
  BY <1>1, WalksComplete
<1>4. QED
  BY <1>2, <1>3 DEF G!local_graph, G!traversal

\* The walks of h edges from a node that come to no node twice.
Walks(seed, h) ==
  {r \in [path : Seq(edges), visited : Seq(G!Nodes)] :
     /\ Len(r.path) = h /\ Len(r.visited) = h + 1 /\ r.visited[1] = seed
     /\ \A i, j \in 1 .. (h + 1) : r.visited[i] = r.visited[j] => i = j
     /\ \A i \in 1 .. h : {r.path[i].from, r.path[i].to} = {r.visited[i], r.visited[i + 1]}}

LEMMA RowsAreWalks ==
  ASSUME edges \subseteq G!Edges, NEW seed \in G!Nodes
  PROVE  \A h \in Nat : G!Rows(seed)[h] \subseteq Walks(seed, h)
<1> DEFINE W == {h \in Nat : G!Rows(seed)[h] \subseteq Walks(seed, h)}
<1>1. 0 \in W
  <2>1. Begun(seed) \in Walks(seed, 0)
    <3>1. <<>> \in Seq(edges) /\ <<seed>> \in Seq(G!Nodes) /\ Len(<<seed>>) = 1 /\ Len(<<>>) = 0 /\ <<seed>>[1] = seed
      OBVIOUS
    <3>2. QED
      BY <3>1 DEF Begun, Walks
  <2>2. QED
    BY <2>1, RowsFollow
<1>2. \A h \in Nat : h \in W => h + 1 \in W
  <2> SUFFICES ASSUME NEW h \in Nat, h \in W, NEW q \in G!Rows(seed)[h + 1]
               PROVE  q \in Walks(seed, h + 1)
    OBVIOUS
  <2>1. PICK r \in G!Rows(seed)[h] : q \in G!Extend(r)
    BY RowsFollow
  <2>2. r \in [path : Seq(edges), visited : Seq(G!Nodes) \ {<<>>}] /\ r \in Walks(seed, h)
    BY RowsFollow DEF RowSets
  <2>3. PICK e \in edges, m \in G!Nodes \ G!ToSet(r.visited) : Hop(r, e, m, q)
    BY <2>1, <2>2, Extended
  <2>4. q \in [path : Seq(edges), visited : Seq(G!Nodes) \ {<<>>}]
    BY <2>1, <2>2, Extended DEF RowSets
  <2> DEFINE p == r.path
             v == r.visited
  <2>5. /\ p \in Seq(edges) /\ v \in Seq(G!Nodes) /\ Len(p) = h /\ Len(v) = h + 1 /\ v[1] = seed
        /\ \A i, j \in 1 .. (h + 1) : v[i] = v[j] => i = j
        /\ \A i \in 1 .. h : {p[i].from, p[i].to} = {v[i], v[i + 1]}
    BY <2>2 DEF Walks
  <2>6. q.path = Append(p, e) /\ q.visited = Append(v, m) /\ {e.from, e.to} = {v[h + 1], m}
    BY <2>3, <2>5 DEF Hop, G!Last
  <2>7. \A i \in 1 .. (h + 1) : v[i] # m
    BY <2>3, <2>5 DEF G!ToSet
  <2> HIDE DEF p, v
  <2>8. /\ Len(q.path) = h + 1 /\ Len(q.visited) = (h + 1) + 1
        /\ \A i \in 1 .. h : q.path[i] = p[i]
        /\ q.path[h + 1] = e
        /\ \A i \in 1 .. (h + 1) : q.visited[i] = v[i]
        /\ q.visited[h + 2] = m
    BY <2>5, <2>6
  <2>9. \A i, j \in 1 .. ((h + 1) + 1) : q.visited[i] = q.visited[j] => i = j
    <3>1. \A i \in 1 .. ((h + 1) + 1) : i \in 1 .. (h + 1) \/ i = h + 2
      OBVIOUS
    <3>2. QED
      BY <2>5, <2>7, <2>8, <3>1
  <2>10. \A i \in 1 .. (h + 1) : {q.path[i].from, q.path[i].to} = {q.visited[i], q.visited[i + 1]}
    <3> SUFFICES ASSUME NEW i \in 1 .. (h + 1)
                 PROVE  {q.path[i].from, q.path[i].to} = {q.visited[i], q.visited[i + 1]}
      OBVIOUS
    <3>1. CASE i = h + 1
      <4>1. i \in 1 .. (h + 1) /\ i + 1 = h + 2
        BY <3>1
      <4>2. q.path[i] = e /\ q.visited[i] = v[h + 1] /\ q.visited[i + 1] = m
        BY <2>8, <3>1, <4>1
      <4>3. QED
        BY <2>6, <4>2
    <3>2. CASE i \in 1 .. h
      <4>1. i \in 1 .. (h + 1) /\ i + 1 \in 1 .. (h + 1)
        BY <3>2
      <4>2. q.path[i] = p[i] /\ q.visited[i] = v[i] /\ q.visited[i + 1] = v[i + 1]
        BY <2>8, <3>2, <4>1
      <4>3. QED
        BY <2>5, <3>2, <4>2
    <3>3. QED
      BY <3>1, <3>2
  <2>11. q.visited[1] = seed
    BY <2>5, <2>8
  <2>12. QED
    BY <2>4, <2>8, <2>9, <2>10, <2>11 DEF Walks
<1> HIDE DEF W
<1>3. \A h \in Nat : h \in W
  BY <1>1, <1>2, Numbers, Zenon
<1>4. QED
  BY <1>3 DEF W

LEMMA WalksAreRows ==
  ASSUME edges \subseteq G!Edges, NEW seed \in G!Nodes
  PROVE  \A h \in Nat : Walks(seed, h) \subseteq G!Rows(seed)[h]
<1> DEFINE W == {h \in Nat : Walks(seed, h) \subseteq G!Rows(seed)[h]}
<1>1. 0 \in W
  <2> SUFFICES ASSUME NEW r \in Walks(seed, 0) PROVE r = Begun(seed)
    BY RowsFollow
  <2>1. r.path = <<>>
    BY DEF Walks
  <2>2. r.visited \in Seq(G!Nodes) /\ Len(r.visited) = 1 /\ r.visited[1] = seed
    BY DEF Walks
  <2>3. r.visited = <<seed>>
    BY <2>2
  <2>4. r = [path |-> r.path, visited |-> r.visited]
    BY DEF Walks
  <2>5. QED
    BY <2>1, <2>3, <2>4 DEF Begun
<1>2. \A h \in Nat : h \in W => h + 1 \in W
  <2> SUFFICES ASSUME NEW h \in Nat, h \in W, NEW q \in Walks(seed, h + 1)
               PROVE  q \in G!Rows(seed)[h + 1]
    OBVIOUS
  <2> DEFINE e == q.path[h + 1]
             m == q.visited[h + 2]
             p == [i \in 1 .. h |-> q.path[i]]
             v == [i \in 1 .. (h + 1) |-> q.visited[i]]
             r == [path |-> p, visited |-> v]
  <2>1. /\ q.path \in Seq(edges) /\ q.visited \in Seq(G!Nodes)
        /\ Len(q.path) = h + 1 /\ Len(q.visited) = h + 2 /\ q.visited[1] = seed
        /\ \A i, j \in 1 .. (h + 2) : q.visited[i] = q.visited[j] => i = j
        /\ \A i \in 1 .. (h + 1) : {q.path[i].from, q.path[i].to} = {q.visited[i], q.visited[i + 1]}
    <3>1. (h + 1) + 1 = h + 2
      OBVIOUS
    <3>2. QED
      BY <3>1 DEF Walks
  <2>2. e \in edges /\ m \in G!Nodes
    BY <2>1
  <2>3. p \in Seq(edges) /\ v \in Seq(G!Nodes) /\ Len(p) = h /\ Len(v) = h + 1
    <3>1. \A i \in 1 .. h : q.path[i] \in edges
      BY <2>1
    <3>2. \A i \in 1 .. (h + 1) : q.visited[i] \in G!Nodes
      BY <2>1
    <3>3. QED
      BY <3>1, <3>2
  <2>4. q.path = Append(p, e) /\ q.visited = Append(v, m)
    BY <2>1, <2>2, <2>3
  <2>5. r \in Walks(seed, h)
    <3>1. v[1] = seed /\ \A i, j \in 1 .. (h + 1) : v[i] = v[j] => i = j
      BY <2>1
    <3>2. \A i \in 1 .. h : i \in 1 .. (h + 1) /\ p[i] = q.path[i] /\ v[i] = q.visited[i] /\ v[i + 1] = q.visited[i + 1]
      OBVIOUS
    <3>3. \A i \in 1 .. h : {p[i].from, p[i].to} = {v[i], v[i + 1]}
      BY <2>1, <3>2
    <3>4. QED
      BY <2>3, <3>1, <3>3 DEF Walks
  <2>6. m \notin G!ToSet(v) /\ {e.from, e.to} = {G!Last(v), m}
    <3>1. \A i \in 1 .. (h + 1) : i \in 1 .. (h + 2) /\ i # h + 2 /\ v[i] = q.visited[i]
      OBVIOUS
    <3>2. h + 1 \in 1 .. (h + 1) /\ (h + 1) + 1 = h + 2 /\ h + 2 \in 1 .. (h + 2)
      OBVIOUS
    <3>3. \A i \in 1 .. (h + 1) : v[i] # m
      BY <2>1, <3>1, <3>2
    <3>4. {e.from, e.to} = {v[h + 1], m}
      BY <2>1, <3>1, <3>2
    <3>5. DOMAIN v = 1 .. (h + 1)
      OBVIOUS
    <3> HIDE DEF v, m, e
    <3>6. QED
      BY <2>3, <3>3, <3>4, <3>5 DEF G!ToSet, G!Last
  <2>7. r \in G!Rows(seed)[h]
    BY <2>5
  <2>8. r \in [path : Seq(edges), visited : Seq(G!Nodes) \ {<<>>}]
    BY <2>7, RowsFollow DEF RowSets
  <2>9. PICK s \in G!Extend(r) : Hop(r, e, m, s)
    <3> HIDE DEF e, m, p, v
    <3>1. r.visited = v
      OBVIOUS
    <3> HIDE DEF r
    <3>2. QED
      BY <2>2, <2>6, <2>8, <3>1, Extended
  <2>10. s \in G!Rows(seed)[h + 1] /\ s \in [path : Seq(edges), visited : Seq(G!Nodes) \ {<<>>}]
    BY <2>7, <2>9, RowsFollow DEF RowSets
  <2>11. s = q
    <3>1. s = [path |-> s.path, visited |-> s.visited] /\ q = [path |-> q.path, visited |-> q.visited]
      BY <2>10 DEF Walks
    <3>2. s.path = q.path /\ s.visited = q.visited
      BY <2>4, <2>9 DEF Hop
    <3>3. QED
      BY <3>1, <3>2
  <2>12. QED
    BY <2>10, <2>11
<1> HIDE DEF W
<1>3. \A h \in Nat : h \in W
  BY <1>1, <1>2, Numbers, Zenon
<1>4. QED
  BY <1>3 DEF W

\* A walk back is a walk.
LEMMA WayBack ==
  ASSUME edges \subseteq G!Edges, NEW from \in G!Nodes, NEW to \in G!Nodes, NEW max_hops, from # to,
         NEW r \in G!find_paths_between(from, to, max_hops)
  PROVE  \E q \in G!find_paths_between(to, from, max_hops) : q.path = G!Reverse(r.path) /\ r.path = G!Reverse(q.path)
<1>1. PICK h \in 1 .. max_hops : r \in G!Rows(from)[h] /\ G!Last(r.visited) = to
  BY DEF G!find_paths_between, G!traversal
<1> DEFINE p == r.path
           v == r.visited
           rp == [i \in 1 .. h |-> p[(h - i) + 1]]
           rv == [i \in 1 .. (h + 1) |-> v[((h + 1) - i) + 1]]
           q == [path |-> rp, visited |-> rv]
<1>2. h \in Nat
  OBVIOUS
<1>3. /\ p \in Seq(edges) /\ v \in Seq(G!Nodes) /\ Len(p) = h /\ Len(v) = h + 1 /\ v[1] = from /\ v[h + 1] = to
      /\ \A i, j \in 1 .. (h + 1) : v[i] = v[j] => i = j
      /\ \A i \in 1 .. h : {p[i].from, p[i].to} = {v[i], v[i + 1]}
  <2>1. r \in Walks(from, h)
    BY <1>1, <1>2, RowsAreWalks
  <2>2. G!Last(v) = v[Len(v)]
    BY DEF G!Last
  <2>3. QED
    BY <1>1, <1>2, <2>1, <2>2 DEF Walks
<1> HIDE DEF p, v
<1>4. rp = G!Reverse(p)
  BY <1>3 DEF G!Reverse
<1>5. rp \in Seq(edges) /\ Len(rp) = h
  <2>1. \A i \in 1 .. h : (h - i) + 1 \in 1 .. h
    BY <1>2
  <2>2. \A i \in 1 .. h : p[(h - i) + 1] \in edges
    BY <1>3, <2>1
  <2>3. QED
    BY <1>2, <2>2
<1>6. rv \in Seq(G!Nodes) /\ Len(rv) = h + 1 /\ rv[1] = to /\ rv[h + 1] = from
  <2>1. \A i \in 1 .. (h + 1) : ((h + 1) - i) + 1 \in 1 .. (h + 1)
    BY <1>2
  <2>2. \A i \in 1 .. (h + 1) : v[((h + 1) - i) + 1] \in G!Nodes
    BY <1>3, <2>1
  <2>3. rv \in Seq(G!Nodes) /\ Len(rv) = h + 1
    BY <1>2, <2>2
  <2>4. 1 \in 1 .. (h + 1) /\ h + 1 \in 1 .. (h + 1) /\ ((h + 1) - 1) + 1 = h + 1 /\ ((h + 1) - (h + 1)) + 1 = 1
    BY <1>2
  <2>5. QED
    BY <1>3, <2>3, <2>4
<1>7. p = G!Reverse(rp)
  <2>1. \A i \in 1 .. h : (h - i) + 1 \in 1 .. h /\ (h - ((h - i) + 1)) + 1 = i
    BY <1>2
  <2>2. G!Reverse(rp) = [i \in 1 .. h |-> rp[(h - i) + 1]]
    BY <1>5 DEF G!Reverse
  <2>3. \A i \in 1 .. h : rp[(h - i) + 1] = p[i]
    BY <2>1
  <2>4. p = [i \in 1 .. h |-> p[i]]
    BY <1>3
  <2>5. QED
    BY <2>2, <2>3, <2>4
<1>8. \A i, j \in 1 .. (h + 1) : rv[i] = rv[j] => i = j
  <2> SUFFICES ASSUME NEW i \in 1 .. (h + 1), NEW j \in 1 .. (h + 1), rv[i] = rv[j] PROVE i = j
    OBVIOUS
  <2>1. ((h + 1) - i) + 1 \in 1 .. (h + 1) /\ ((h + 1) - j) + 1 \in 1 .. (h + 1)
    BY <1>2
  <2>2. v[((h + 1) - i) + 1] = v[((h + 1) - j) + 1]
    OBVIOUS
  <2>3. ((h + 1) - i) + 1 = ((h + 1) - j) + 1
    BY <1>3, <2>1, <2>2
  <2>4. QED
    BY <1>2, <2>3
<1>9. \A i \in 1 .. h : {rp[i].from, rp[i].to} = {rv[i], rv[i + 1]}
  <2> SUFFICES ASSUME NEW i \in 1 .. h PROVE {rp[i].from, rp[i].to} = {rv[i], rv[i + 1]}
    OBVIOUS
  <2> DEFINE k == (h - i) + 1
  <2>1. k \in 1 .. h /\ i \in 1 .. (h + 1) /\ i + 1 \in 1 .. (h + 1)
        /\ ((h + 1) - i) + 1 = k + 1 /\ ((h + 1) - (i + 1)) + 1 = k
    BY <1>2
  <2>2. rp[i] = p[k] /\ rv[i] = v[k + 1] /\ rv[i + 1] = v[k]
    BY <2>1
  <2>3. {p[k].from, p[k].to} = {v[k], v[k + 1]}
    BY <1>3, <2>1
  <2>4. QED
    BY <2>2, <2>3
<1> HIDE DEF rp, rv
<1>10. q \in Walks(to, h)
  BY <1>5, <1>6, <1>8, <1>9 DEF Walks
<1>11. q \in G!Rows(to)[h]
  BY <1>2, <1>10, WalksAreRows
<1>12. G!Last(q.visited) = from
  BY <1>6 DEF G!Last
<1>13. q \in G!find_paths_between(to, from, max_hops)
  BY <1>11, <1>12 DEF G!find_paths_between, G!traversal
<1>14. QED
  BY <1>4, <1>7, <1>13 DEF p

LEMMA BothWays ==
  ASSUME edges \subseteq G!Edges, NEW from \in G!Nodes, NEW to \in G!Nodes, NEW max_hops
  PROVE  {r.path : r \in G!find_paths_between(from, to, max_hops)}
           = {G!Reverse(r.path) : r \in G!find_paths_between(to, from, max_hops)}
<1>1. CASE from = to
  BY <1>1 DEF G!find_paths_between
<1>2. CASE from # to
  <2>1. \A r \in G!find_paths_between(from, to, max_hops) :
          \E q \in G!find_paths_between(to, from, max_hops) : r.path = G!Reverse(q.path)
    BY <1>2, WayBack
  <2>2. \A r \in G!find_paths_between(to, from, max_hops) :
          \E q \in G!find_paths_between(from, to, max_hops) : q.path = G!Reverse(r.path)
    BY <1>2, WayBack
  <2>3. QED
    BY <2>1, <2>2
<1>3. QED
  BY <1>1, <1>2

LEMMA FiniteImage ==
  ASSUME NEW T, IsFiniteSet(T), NEW F PROVE IsFiniteSet({F[x] : x \in T})
<1> DEFINE Image == {F[x] : x \in T}
           f == [x \in T |-> F[x]]
<1>1. f \in Surjection(T, Image)
  BY DEF Surjection
<1>2. QED
  BY <1>1, FS_Surjection

\* There are finitely many nodes, hence edges, hence rows after each hop.
LEMMA FiniteEdges == IsFiniteSet(G!Edges)
<1>1. IsFiniteSet(G!Nodes)
  <2>1. IsFiniteSet(G!Services)
    <3>1. IsFiniteSet({PortOf[f] : f \in Findings})
      BY FiniteImage, GraphAssumption
    <3>2. QED
      BY <3>1, FS_Subset DEF G!Services
  <2>2. IsFiniteSet({CvesOf[f] : f \in Findings})
    BY FiniteImage, GraphAssumption
  <2>3. \A C \in {CvesOf[f] : f \in Findings} : IsFiniteSet(C)
    BY GraphAssumption
  <2>4. IsFiniteSet(G!Cves)
    BY <2>2, <2>3, FS_UNION DEF G!Cves
  <2>5. QED
    BY <2>1, <2>4, FS_Union, GraphAssumption DEF G!Nodes
<1>2. IsFiniteSet(G!Kinds)
  <2> DEFINE name == [i \in 1 .. 5 |-> CASE i = 1 -> "HAS_FINDING" [] i = 2 -> "EXPOSES" [] i = 3 -> "REFERENCES_CVE"
                                        [] i = 4 -> "USES_TECHNOLOGY" [] OTHER -> "RELATED_TO"]
  <2>1. IsFiniteSet({name[i] : i \in 1 .. 5})
    <3> HIDE DEF name
    <3>1. \A k \in Nat : IsFiniteSet(1 .. k)
      BY FS_Interval
    <3>2. IsFiniteSet(1 .. 5)
      BY <3>1
    <3>3. QED
      BY <3>2, FiniteImage
  <2>2. G!Kinds \subseteq {name[i] : i \in 1 .. 5}
    BY DEF G!Kinds
  <2>3. QED
    BY <2>1, <2>2, FS_Subset
<1> DEFINE Triples == (G!Nodes \X G!Nodes) \X G!Kinds
           edge == [t \in Triples |-> [from |-> t[1][1], to |-> t[1][2], relation |-> t[2]]]
<1>3. IsFiniteSet({edge[t] : t \in Triples})
  <2>1. IsFiniteSet(Triples)
    BY <1>1, <1>2, FS_Product
  <2> HIDE DEF Triples, edge
  <2>2. QED
    BY <2>1, FiniteImage
<1>4. G!Edges \subseteq {edge[t] : t \in Triples}
  <2> SUFFICES ASSUME NEW e \in G!Edges PROVE \E t \in Triples : e = edge[t]
    OBVIOUS
  <2>1. e.from \in G!Nodes /\ e.to \in G!Nodes /\ e.relation \in G!Kinds
        /\ e = [from |-> e.from, to |-> e.to, relation |-> e.relation]
    BY DEF G!Edges
  <2>2. <<<<e.from, e.to>>, e.relation>> \in Triples
    BY <2>1
  <2>3. edge[<<<<e.from, e.to>>, e.relation>>] = [from |-> e.from, to |-> e.to, relation |-> e.relation]
    BY <2>2
  <2>4. QED
    BY <2>1, <2>2, <2>3
<1>5. QED
  BY <1>3, <1>4, FS_Subset

LEMMA FiniteRows ==
  ASSUME edges \subseteq G!Edges, NEW seed \in G!Nodes
  PROVE  \A h \in Nat : IsFiniteSet(G!Rows(seed)[h])
<1> DEFINE W == {h \in Nat : IsFiniteSet(G!Rows(seed)[h])}
<1>1. 0 \in W
  BY RowsFollow, FS_Singleton
<1>2. \A h \in Nat : h \in W => h + 1 \in W
  <2> SUFFICES ASSUME NEW h \in Nat, h \in W PROVE IsFiniteSet(G!Rows(seed)[h + 1])
    OBVIOUS
  <2> DEFINE next == [r \in G!Rows(seed)[h] |-> G!Extend(r)]
  <2>1. IsFiniteSet({next[r] : r \in G!Rows(seed)[h]})
    BY FiniteImage
  <2>2. \A r \in G!Rows(seed)[h] : IsFiniteSet(G!Extend(r))
    <3> TAKE r \in G!Rows(seed)[h]
    <3> DEFINE n == G!Last(r.visited)
               New == {d \in G!bidirectional_edges(n) : G!Other(d, n) \notin G!ToSet(r.visited)}
               long == [e \in New |-> [path |-> Append(r.path, e), visited |-> Append(r.visited, G!Other(e, n))]]
    <3>1. IsFiniteSet(New)
      <4>1. New \subseteq G!Edges
        BY DEF G!bidirectional_edges
      <4>2. QED
        BY <4>1, FiniteEdges, FS_Subset
    <3>2. G!Extend(r) = {long[e] : e \in New}
      BY DEF G!Extend
    <3> HIDE DEF New, long
    <3>3. QED
      BY <3>1, <3>2, FiniteImage
  <2>3. G!Rows(seed)[h + 1] = UNION {next[r] : r \in G!Rows(seed)[h]}
    <3>1. G!Rows(seed)[h + 1] = UNION {G!Extend(r) : r \in G!Rows(seed)[h]}
      BY RowsFollow
    <3>2. {next[r] : r \in G!Rows(seed)[h]} = {G!Extend(r) : r \in G!Rows(seed)[h]}
      OBVIOUS
    <3>3. QED
      BY <3>1, <3>2
  <2>4. \A Q \in {next[r] : r \in G!Rows(seed)[h]} : IsFiniteSet(Q)
    BY <2>2
  <2> HIDE DEF next
  <2>5. QED
    BY <2>1, <2>3, <2>4, FS_UNION
<1> HIDE DEF W
<1>3. \A h \in Nat : h \in W
  BY <1>1, <1>2, Numbers, Zenon
<1>4. QED
  BY <1>3 DEF W

LEMMA CountedAlike == \A T : G!Cardinality(T) = Cardinality(T)
BY DEF G!Cardinality, Cardinality, G!IsFiniteSet, IsFiniteSet

\* A response that leaves no row out keeps every shortest walk.
LEMMA ShortestWalks ==
  ASSUME edges \subseteq G!Edges, NEW seed \in G!Nodes, NEW max_hops \in Nat
  PROVE  LET rows == G!find_paths_to_critical_assets(seed, max_hops) IN
         /\ \A r \in rows : G!IsInjective(r.visited)
         /\ \A a \in Critical \ {seed}, h \in 1 .. max_hops :
              a \in G!Balls(seed)[h] \ G!Balls(seed)[h - 1] =>
                G!truncated(rows) \/ \E r \in G!Kept(rows) : G!Last(r.visited) = a /\ Len(r.path) = h
<1> DEFINE rows == G!find_paths_to_critical_assets(seed, max_hops)
<1>1. rows = {r \in UNION {G!Rows(seed)[h] : h \in 1 .. max_hops} : G!Last(r.visited) \in Critical}
  BY DEF G!find_paths_to_critical_assets, G!traversal
<1>2. \A r \in rows : G!IsInjective(r.visited)
  <2> SUFFICES ASSUME NEW h \in 1 .. max_hops, NEW r \in G!Rows(seed)[h] PROVE G!IsInjective(r.visited)
    BY <1>1
  <2>1. r \in Walks(seed, h)
    BY RowsAreWalks
  <2>2. DOMAIN r.visited = 1 .. (h + 1)
    BY <2>1 DEF Walks
  <2>3. QED
    BY <2>1, <2>2 DEF Walks, G!IsInjective
<1>3. IsFiniteSet(rows)
  <2> DEFINE hop == [h \in 1 .. max_hops |-> G!Rows(seed)[h]]
  <2>1. IsFiniteSet({hop[h] : h \in 1 .. max_hops})
    <3> HIDE DEF hop
    <3>1. IsFiniteSet(1 .. max_hops)
      BY FS_Interval
    <3>2. QED
      BY <3>1, FiniteImage
  <2>2. \A Q \in {hop[h] : h \in 1 .. max_hops} : IsFiniteSet(Q)
    BY FiniteRows
  <2>3. IsFiniteSet(UNION {hop[h] : h \in 1 .. max_hops})
    BY <2>1, <2>2, FS_UNION
  <2>4. rows \subseteq UNION {hop[h] : h \in 1 .. max_hops}
    BY <1>1
  <2>5. QED
    BY <2>3, <2>4, FS_Subset
<1> HIDE DEF rows
<1>4. ASSUME ~G!truncated(rows) PROVE G!Kept(rows) = rows
  <2> SUFFICES ASSUME NEW r \in rows
               PROVE  Cardinality({q \in rows : Len(q.path) <= Len(r.path)}) <= MAX_ATTACK_PATHS
    BY CountedAlike DEF G!Kept
  <2> DEFINE Q == {q \in rows : Len(q.path) <= Len(r.path)}
  <2>1. IsFiniteSet(Q) /\ Cardinality(Q) <= Cardinality(rows)
    BY <1>3, FS_Subset
  <2>2. Cardinality(Q) \in Nat /\ Cardinality(rows) \in Nat
    BY <1>3, <2>1, FS_CardinalityType
  <2>3. ~(Cardinality(rows) > MAX_ATTACK_PATHS) /\ MAX_ATTACK_PATHS \in Nat
    BY <1>4, CountedAlike, GraphAssumption DEF G!truncated
  <2> HIDE DEF Q
  <2>4. Cardinality(Q) <= MAX_ATTACK_PATHS
    BY <2>1, <2>2, <2>3
  <2>5. QED
    BY <2>4 DEF Q
<1>5. ASSUME NEW a \in Critical \ {seed}, NEW h \in 1 .. max_hops, a \in G!Balls(seed)[h] \ G!Balls(seed)[h - 1]
      PROVE  \E r \in rows : G!Last(r.visited) = a /\ Len(r.path) = h
  <2>1. h \in Nat /\ h # 0 /\ Inner(seed, h) = G!Balls(seed)[h - 1]
    BY DEF Inner
  <2>2. PICK r \in G!Rows(seed)[h] : G!Last(r.visited) = a
    BY <1>5, <2>1, WalksReach
  <2>3. Len(r.path) = h
    BY <2>1, RowsAreWalks DEF Walks
  <2>4. QED
    BY <1>1, <2>2, <2>3
<1>6. QED
  BY <1>2, <1>4, <1>5 DEF rows

LEMMA QueryProperties == G!TypeOK => G!NeighbourhoodIsComplete /\ G!ShortestPathsAreKept
<1> SUFFICES ASSUME edges \subseteq G!Edges PROVE G!NeighbourhoodIsComplete /\ G!ShortestPathsAreKept
  BY DEF G!TypeOK
<1>1. Assets \subseteq G!Nodes /\ Findings \subseteq G!Nodes
  BY DEF G!Nodes
<1>2. MAX_ATTACK_PATH_HOPS \in Nat
  BY GraphAssumption
<1>3. G!NeighbourhoodIsComplete
  <2> SUFFICES ASSUME NEW seed \in Assets, NEW depth \in 1 .. MAX_GRAPH_DEPTH
               PROVE  G!local_graph(seed, depth) = G!Touching(G!Balls(seed)[depth - 1])
    BY DEF G!NeighbourhoodIsComplete
  <2>1. seed \in G!Nodes /\ depth \in Nat \ {0}
    BY <1>1
  <2>2. QED
    BY <2>1, LocalGraph
<1>4. G!ShortestPathsAreKept
  BY <1>1, <1>2, BothWays, ShortestWalks DEF G!ShortestPathsAreKept
<1>5. QED
  BY <1>3, <1>4

-----------------------------------------------------------------------------
(* AISuggestions.                                                          *)

\* Where a request holds a suggestion it has read.
Reviewing == {"accept", "insert", "update", "dismiss"}

\* A pair one request is inserting is nobody else's, and has no row yet.
HeldInv ==
  \A r \in ReviewRequests : \A p \in added[r] :
    suggestion[p] = "NONE" /\ \A q \in ReviewRequests \ {r} : p \notin added[q]

\* What a request has read of its suggestion.
ReviewInv ==
  \A r \in ReviewRequests :
    /\ reviewPhase[r] = "flush" => items[r] # <<>>
    /\ reviewPhase[r] \in Reviewing => items[r] # <<>> /\ suggestion[A!Pair(r)] # "NONE"
    /\ reviewPhase[r] = "update" => A!Pair(r) \in related

(* The invariant of AISuggestions.                                         *)
ReviewOk == A!TypeOK /\ HeldInv /\ ReviewInv /\ A!RelationIsADecision

-----------------------------------------------------------------------------

(* What a request is about is a pair.                                      *)
LEMMA PairType ==
  ASSUME A!TypeOK, NEW r \in ReviewRequests, items[r] # <<>>
  PROVE  A!Pair(r) \in A!Pairs /\ Tail(items[r]) \in Seq(A!Pairs)
<1>1. items[r] \in Seq(A!Pairs)
  BY DEF A!TypeOK
<1>2. QED
  BY <1>1 DEF A!Pair

(* A step that decides nothing keeps the decisions.                        *)
LEMMA Undecided ==
  ASSUME ReviewOk, NEW r \in ReviewRequests, NEW to \in {"look", "flush", "accept", "insert", "update", "dismiss", "done"},
         A!Goto(r, to),
         UNCHANGED <<suggestion, related, crossed>>,
         items' \in [ReviewRequests -> Seq(A!Pairs)], added' \in [ReviewRequests -> SUBSET A!Pairs],
         \A q \in ReviewRequests \ {r} : items'[q] = items[q] /\ added'[q] = added[q],
         \A p \in added'[r] : p \in added[r] \/
           (suggestion[p] = "NONE" /\ \A q \in ReviewRequests \ {r} : p \notin added[q]),
         to = "flush" => items'[r] # <<>>,
         to \in Reviewing => items'[r] # <<>> /\ suggestion[Head(items'[r])] # "NONE",
         to = "update" => Head(items'[r]) \in related
  PROVE  ReviewOk'
<1>1. reviewPhase' = [reviewPhase EXCEPT ![r] = to]
  BY DEF A!Goto
<1>2. A!TypeOK'
  BY <1>1 DEF ReviewOk, A!TypeOK
<1>3. HeldInv'
  BY DEF ReviewOk, HeldInv
<1>4. ReviewInv'
  <2> SUFFICES ASSUME NEW q \in ReviewRequests
               PROVE  /\ reviewPhase'[q] = "flush" => items'[q] # <<>>
                      /\ reviewPhase'[q] \in Reviewing => items'[q] # <<>> /\ suggestion[Head(items'[q])] # "NONE"
                      /\ reviewPhase'[q] = "update" => Head(items'[q]) \in related
    BY DEF ReviewInv, A!Pair
  <2>1. CASE q = r
    BY <1>1, <2>1 DEF ReviewOk, A!TypeOK
  <2>2. CASE q # r
    BY <1>1, <2>2 DEF ReviewOk, A!TypeOK, ReviewInv, A!Pair
  <2>3. QED
    BY <2>1, <2>2
<1>5. A!RelationIsADecision'
  BY DEF ReviewOk, A!RelationIsADecision
<1>6. QED
  BY <1>2, <1>3, <1>4, <1>5 DEF ReviewOk

(* An answer of the model, and the look at one of its pairs.               *)
LEMMA AnswerStep ==
  ASSUME ReviewOk, NEW r \in ReviewRequests, A!Answer(r) \/ A!Look(r) PROVE ReviewOk'
<1>1. CASE A!Answer(r)
  <2>1. PICK n \in 1 .. MaxItems : \E s \in [1 .. n -> A!Pairs] : items' = [items EXCEPT ![r] = s]
    BY <1>1 DEF A!Answer
  <2>2. PICK s \in [1 .. n -> A!Pairs] : items' = [items EXCEPT ![r] = s]
    BY <2>1
  <2>3. n \in Nat /\ s \in Seq(A!Pairs)
    BY <2>1, <2>2
  <2>4. /\ items' \in [ReviewRequests -> Seq(A!Pairs)] /\ added' \in [ReviewRequests -> SUBSET A!Pairs]
        /\ \A q \in ReviewRequests \ {r} : items'[q] = items[q] /\ added'[q] = added[q]
    BY <1>1, <2>2, <2>3 DEF ReviewOk, A!TypeOK, A!Answer
  <2>5. QED
    BY <1>1, <2>4, Undecided DEF A!Answer, Reviewing
<1>2. CASE A!Look(r)
  <2>1. A!Pair(r) \in A!Pairs /\ Tail(items[r]) \in Seq(A!Pairs)
    BY <1>2, PairType DEF ReviewOk, A!Look
  <2>2. CASE A!Goto(r, "flush") /\ UNCHANGED items
    BY <1>2, <2>2, Undecided DEF ReviewOk, A!TypeOK, A!Look, Reviewing
  <2>3. CASE items' = [items EXCEPT ![r] = Tail(@)] /\ UNCHANGED reviewPhase
    <3>1. A!Goto(r, "look")
      BY <1>2, <2>3 DEF ReviewOk, A!TypeOK, A!Look, A!Goto
    <3>2. /\ items' \in [ReviewRequests -> Seq(A!Pairs)] /\ added' \in [ReviewRequests -> SUBSET A!Pairs]
          /\ \A q \in ReviewRequests \ {r} : items'[q] = items[q] /\ added'[q] = added[q]
      BY <1>2, <2>1, <2>3 DEF ReviewOk, A!TypeOK, A!Look
    <3>3. QED
      BY <1>2, <3>1, <3>2, Undecided DEF A!Look, Reviewing
  <2>4. QED
    BY <1>2, <2>2, <2>3 DEF A!Look
<1>3. QED
  BY <1>1, <1>2

(* The insert: the pair it takes is free, and nobody else has taken it.    *)
LEMMA FlushStep ==
  ASSUME ReviewOk, NEW r \in ReviewRequests, A!Flush(r) PROVE ReviewOk'
<1>1. A!Pair(r) \in A!Pairs /\ Tail(items[r]) \in Seq(A!Pairs)
  BY PairType DEF ReviewOk, ReviewInv, A!Flush
<1>2. CASE suggestion[A!Pair(r)] = "NONE"
  <2>1. /\ items' \in [ReviewRequests -> Seq(A!Pairs)] /\ added' \in [ReviewRequests -> SUBSET A!Pairs]
        /\ \A q \in ReviewRequests \ {r} : items'[q] = items[q] /\ added'[q] = added[q]
        /\ added'[r] = added[r] \cup {A!Pair(r)}
    <3>1. /\ added' = [added EXCEPT ![r] = @ \cup {A!Pair(r)}]
          /\ items' = [items EXCEPT ![r] = Tail(@)]
      BY <1>2 DEF A!Flush
    <3>2. items' \in [ReviewRequests -> Seq(A!Pairs)] /\ \A q \in ReviewRequests \ {r} : items'[q] = items[q]
      BY <1>1, <3>1 DEF ReviewOk, A!TypeOK
    <3>3. added[r] \cup {A!Pair(r)} \in SUBSET A!Pairs
      BY <1>1 DEF ReviewOk, A!TypeOK
    <3>4. added' \in [ReviewRequests -> SUBSET A!Pairs]
      BY <3>1, <3>3 DEF ReviewOk, A!TypeOK
    <3>5. QED
      BY <3>1, <3>2, <3>4 DEF ReviewOk, A!TypeOK
  <2>2. QED
    BY <1>2, <2>1, Undecided DEF A!Flush, A!Unclaimed, Reviewing
<1>3. CASE suggestion[A!Pair(r)] # "NONE"
  <2>1. /\ items' \in [ReviewRequests -> Seq(A!Pairs)] /\ added' \in [ReviewRequests -> SUBSET A!Pairs]
        /\ \A q \in ReviewRequests \ {r} : items'[q] = items[q] /\ added'[q] = added[q]
        /\ added'[r] = {}
    BY <1>3 DEF ReviewOk, A!TypeOK, A!Flush
  <2>2. QED
    BY <1>3, <2>1, Undecided DEF A!Flush, Reviewing
<1>4. QED
  BY <1>2, <1>3

(* The commit of an answer: its pairs had no status, so nothing decided is
   written over, and nobody reviews them yet.                              *)
LEMMA CommitSuggestionsStep ==
  ASSUME ReviewOk, NEW r \in ReviewRequests, A!CommitSuggestions(r) PROVE ReviewOk'
<1>1. /\ \A p \in A!Pairs : suggestion'[p] = IF p \in added[r] THEN "PENDING" ELSE suggestion[p]
      /\ added' = [added EXCEPT ![r] = {}]
      /\ reviewPhase' = [reviewPhase EXCEPT ![r] = "done"]
      /\ UNCHANGED <<related, items, crossed>>
  BY DEF A!CommitSuggestions, A!Goto
<1>2. suggestion' \in [A!Pairs -> {"NONE", "PENDING", "ACCEPTED", "DISMISSED"}]
  BY DEF ReviewOk, A!TypeOK, A!CommitSuggestions
<1>3. A!TypeOK'
  BY <1>1, <1>2 DEF ReviewOk, A!TypeOK
<1>4. HeldInv'
  BY <1>1 DEF ReviewOk, A!TypeOK, HeldInv
<1>5. ReviewInv'
  <2> SUFFICES ASSUME NEW q \in ReviewRequests
               PROVE  /\ reviewPhase'[q] = "flush" => items[q] # <<>>
                      /\ reviewPhase'[q] \in Reviewing => items[q] # <<>> /\ suggestion'[A!Pair(q)] # "NONE"
                      /\ reviewPhase'[q] = "update" => A!Pair(q) \in related
    BY <1>1 DEF ReviewInv, A!Pair
  <2>1. CASE q = r
    BY <1>1, <2>1 DEF ReviewOk, A!TypeOK, Reviewing
  <2>2. CASE q # r /\ items[q] = <<>>
    BY <1>1, <2>2 DEF ReviewOk, A!TypeOK, ReviewInv, Reviewing
  <2>3. CASE q # r /\ items[q] # <<>>
    <3>1. A!Pair(q) \in A!Pairs
      BY <2>3, PairType DEF ReviewOk
    <3>2. QED
      BY <1>1, <2>3, <3>1 DEF ReviewOk, A!TypeOK, ReviewInv
  <2>4. QED
    BY <2>1, <2>2, <2>3
<1>6. A!RelationIsADecision'
  BY <1>1 DEF ReviewOk, A!TypeOK, HeldInv, A!RelationIsADecision
<1>7. QED
  BY <1>3, <1>4, <1>5, <1>6 DEF ReviewOk

(* Steps of a review that write nothing, and requests that end without a
   decision.                                                               *)
LEMMA ReadStep ==
  ASSUME ReviewOk, NEW r \in ReviewRequests, A!ReadSuggestion(r) \/ A!LookForRelation(r) \/ A!Fail(r) PROVE ReviewOk'
<1>1. CASE A!ReadSuggestion(r)
  <2>1. PICK p \in A!Pairs : suggestion[p] = "PENDING" /\ items' = [items EXCEPT ![r] = <<p>>]
    BY <1>1 DEF A!ReadSuggestion
  <2>2. <<p>> \in Seq(A!Pairs) /\ <<p>> # <<>> /\ Head(<<p>>) = p
    OBVIOUS
  <2>3. /\ items' \in [ReviewRequests -> Seq(A!Pairs)] /\ added' \in [ReviewRequests -> SUBSET A!Pairs]
        /\ \A q \in ReviewRequests \ {r} : items'[q] = items[q] /\ added'[q] = added[q]
        /\ items'[r] = <<p>>
    BY <1>1, <2>1, <2>2 DEF ReviewOk, A!TypeOK, A!ReadSuggestion
  <2>4. items'[r] # <<>> /\ suggestion[Head(items'[r])] # "NONE"
    BY <2>1, <2>2, <2>3
  <2>5. QED
    BY <1>1, <2>3, <2>4, Undecided DEF A!ReadSuggestion
<1>2. CASE A!LookForRelation(r)
  BY <1>2, Undecided DEF ReviewOk, A!TypeOK, ReviewInv, Reviewing, A!LookForRelation, A!Pair
<1>3. CASE A!Fail(r)
  <2>1. /\ items' \in [ReviewRequests -> Seq(A!Pairs)] /\ added' \in [ReviewRequests -> SUBSET A!Pairs]
        /\ \A q \in ReviewRequests \ {r} : items'[q] = items[q] /\ added'[q] = added[q]
        /\ added'[r] = {}
    BY <1>3 DEF ReviewOk, A!TypeOK, A!Fail
  <2>2. QED
    BY <1>3, <2>1, Undecided DEF A!Fail, Reviewing
<1>4. QED
  BY <1>1, <1>2, <1>3

(* The two commits of a review: a pair under review has a status, so nobody
   holds it, and it keeps one.                                             *)
LEMMA DecisionStep ==
  ASSUME ReviewOk, NEW r \in ReviewRequests, A!CommitAccept(r) \/ A!CommitDismiss(r) PROVE ReviewOk'
<1>1. reviewPhase[r] \in Reviewing /\ A!Pair(r) \in A!Pairs /\ suggestion[A!Pair(r)] # "NONE"
  BY PairType DEF ReviewOk, ReviewInv, Reviewing, A!CommitAccept, A!CommitDismiss
<1>2. reviewPhase' = [reviewPhase EXCEPT ![r] = "done"] /\ UNCHANGED <<items, added>>
  BY DEF A!CommitAccept, A!CommitDismiss, A!Goto
<1>3. \/ UNCHANGED <<suggestion, related, crossed>>
      \/ related' = related \cup {A!Pair(r)} /\ A!Decide(r, "ACCEPTED")
      \/ related' = related /\ A!Pair(r) \in related /\ A!Decide(r, "ACCEPTED")
      \/ related' = related /\ A!Decide(r, "DISMISSED")
  BY DEF A!CommitAccept, A!CommitDismiss, ReviewOk, ReviewInv
<1>4. /\ suggestion' \in [A!Pairs -> {"NONE", "PENDING", "ACCEPTED", "DISMISSED"}]
      /\ related' \subseteq A!Pairs /\ crossed' \subseteq A!Pairs /\ related \subseteq related'
      /\ \A p \in A!Pairs : p # A!Pair(r) => suggestion'[p] = suggestion[p]
      /\ suggestion'[A!Pair(r)] # "NONE"
  BY <1>1, <1>3 DEF ReviewOk, A!TypeOK, A!Decide
<1>5. A!TypeOK'
  BY <1>2, <1>4 DEF ReviewOk, A!TypeOK
<1>6. HeldInv'
  BY <1>1, <1>2, <1>4 DEF ReviewOk, A!TypeOK, HeldInv
<1>7. ReviewInv'
  <2> SUFFICES ASSUME NEW q \in ReviewRequests
               PROVE  /\ reviewPhase'[q] = "flush" => items[q] # <<>>
                      /\ reviewPhase'[q] \in Reviewing => items[q] # <<>> /\ suggestion'[A!Pair(q)] # "NONE"
                      /\ reviewPhase'[q] = "update" => A!Pair(q) \in related'
    BY <1>2 DEF ReviewInv, A!Pair
  <2>1. CASE q = r
    BY <1>2, <2>1 DEF ReviewOk, A!TypeOK, Reviewing
  <2>2. CASE q # r /\ items[q] = <<>>
    BY <1>2, <2>2 DEF ReviewOk, A!TypeOK, ReviewInv, Reviewing
  <2>3. CASE q # r /\ items[q] # <<>>
    <3>1. A!Pair(q) \in A!Pairs
      BY <2>3, PairType DEF ReviewOk
    <3>2. QED
      BY <1>2, <1>4, <2>3, <3>1 DEF ReviewOk, A!TypeOK, ReviewInv
  <2>4. QED
    BY <2>1, <2>2, <2>3
<1>8. A!RelationIsADecision'
  <2>1. CASE UNCHANGED <<suggestion, related, crossed>>
    BY <2>1 DEF ReviewOk, A!RelationIsADecision
  <2>2. CASE A!Decide(r, "ACCEPTED") /\ related' = related \cup {A!Pair(r)}
    BY <1>1, <2>2 DEF ReviewOk, A!TypeOK, A!RelationIsADecision, A!Decide
  <2>3. CASE related' = related /\ A!Pair(r) \in related /\ A!Decide(r, "ACCEPTED")
    BY <1>1, <2>3 DEF ReviewOk, A!TypeOK, A!RelationIsADecision, A!Decide
  <2>4. CASE related' = related /\ A!Decide(r, "DISMISSED")
    BY <1>1, <2>4 DEF ReviewOk, A!TypeOK, A!RelationIsADecision, A!Decide
  <2>5. QED
    BY <1>3, <2>1, <2>2, <2>3, <2>4
<1>9. QED
  BY <1>5, <1>6, <1>7, <1>8 DEF ReviewOk

LEMMA ReviewInvariance ==
  ASSUME ReviewOk, [A!Next]_(A!vars) PROVE ReviewOk'
<1>1. CASE UNCHANGED A!vars
  BY <1>1 DEF ReviewOk, A!TypeOK, HeldInv, ReviewInv, A!RelationIsADecision, A!Pair, A!vars
<1>2. CASE A!Next
  <2>1. PICK r \in ReviewRequests :
          \/ A!Answer(r) \/ A!Look(r) \/ A!Flush(r) \/ A!CommitSuggestions(r) \/ A!Fail(r)
          \/ A!ReadSuggestion(r) \/ A!LookForRelation(r) \/ A!CommitAccept(r) \/ A!CommitDismiss(r)
    BY <1>2 DEF A!Next
  <2>2. QED
    BY <2>1, AnswerStep, FlushStep, CommitSuggestionsStep, ReadStep, DecisionStep
<1>3. QED
  BY <1>1, <1>2

LEMMA ReviewInitially == A!Init => ReviewOk
  BY DEF A!Init, ReviewOk, A!TypeOK, HeldInv, ReviewInv, Reviewing, A!RelationIsADecision

-----------------------------------------------------------------------------
(* The components.                                                         *)

(* The invariant of the component that runs.                               *)
ComponentsOk ==
  /\ subject = "kali" => KaliOk /\ KaliRest
  /\ subject = "lab" => LabOk
  /\ subject = "limiter" => LimiterOk
  /\ subject = "diff" => DiffOk
  /\ subject = "score" => S!TypeOK
  /\ subject = "graph" => GraphOk
  /\ subject = "review" => ReviewOk

\* Whoever is the subject takes the step, and remains the subject.
LEMMA SubjectStep ==
  ASSUME [Next]_vars
  PROVE  /\ subject' = subject
         /\ subject = "kali" => [K!Next]_(K!vars)
         /\ subject = "lab" => [L!Next]_(L!vars)
         /\ subject = "limiter" => [R!Next]_(R!vars)
         /\ subject = "diff" => [D!Next]_(D!vars)
         /\ subject = "score" => [S!Next]_inputs
         /\ subject = "graph" => [G!Next]_(G!vars)
         /\ subject = "review" => [A!Next]_(A!vars)
BY DEF Next, vars, kaliVars, labVars, limiterVars, diffVars, graphVars, reviewVars,
       K!vars, K!counters, L!vars, R!vars, D!vars, G!vars, A!vars

LEMMA ComponentsInitially == Init => ComponentsOk
BY KaliInitially, KaliRestInitially, LabInitially, LimiterInitially, DiffInitially, GraphInitially, ReviewInitially
   DEF Init, ComponentsOk, S!Init

LEMMA ComponentsInvariance ==
  ASSUME ComponentsOk, [Next]_vars PROVE ComponentsOk'
<1>1. CASE subject = "kali"
  BY <1>1, SubjectStep, KaliInvariance, KaliRestStep DEF ComponentsOk
<1>2. CASE subject = "lab"
  BY <1>2, SubjectStep, LabInvariance DEF ComponentsOk
<1>3. CASE subject = "limiter"
  BY <1>3, SubjectStep, LimiterInvariance DEF ComponentsOk
<1>4. CASE subject = "diff"
  BY <1>4, SubjectStep, DiffInvariance DEF ComponentsOk
<1>5. CASE subject = "score"
  BY <1>5, SubjectStep, ScoreTypes DEF ComponentsOk
<1>6. CASE subject = "graph"
  BY <1>6, SubjectStep, GraphInvariance DEF ComponentsOk
<1>7. CASE subject = "review"
  BY <1>7, SubjectStep, ReviewInvariance DEF ComponentsOk
<1>8. QED
  BY <1>1, <1>2, <1>3, <1>4, <1>5, <1>6, <1>7, SubjectStep DEF ComponentsOk

(* Each component keeps its invariant, for any values of the constants that
   ComponentsAssumption and GraphAssumption allow.                         *)
THEOREM Invariance == Spec => []ComponentsOk
BY ComponentsInitially, ComponentsInvariance, PTL DEF Spec

(* Every component keeps to its domains: the queues hold workers, a lab has
   at most as many containers as there were requests, events and edges are
   about what there is.                                                    *)
THEOREM TypesHold == Spec => []TypeOK
<1>1. ComponentsOk => TypeOK
  BY KaliTypes DEF ComponentsOk, LabOk, LimiterOk, DiffOk, GraphOk, ReviewOk, TypeOK
<1>2. QED
  BY <1>1, Invariance, PTL

(* For any agents and workers, however they interleave: a counter is less
   than the calls in flight by no more than the calls Redis has forgotten
   with its data, and more by no more than the work horses killed and the
   commands Redis has failed.                                              *)
THEOREM CountersFollowCalls == Spec => []CountersAreCalls
<1>1. ComponentsOk => CountersAreCalls
  BY DEF ComponentsOk, KaliOk, CountersAreCalls
<1>2. QED
  BY <1>1, Invariance, PTL

(* Any requests may overlap on any labs: when all have ended and no call of
   the daemon has failed, a lab that was made and not asked to be deleted
   has its container and its network.                                      *)
THEOREM LabsSurvive == Spec => []LabOutlivesItsResets
<1>1. LabOk => L!LabOutlivesItsResets
  BY DEF LabOk, Kept, L!LabOutlivesItsResets, L!Quiet
<1>2. ComponentsOk => LabOutlivesItsResets
  BY <1>1 DEF ComponentsOk, LabOutlivesItsResets
<1>3. QED
  BY <1>2, Invariance, PTL

(* While no Redis command has failed, every counter that exists has an end
   or is about to be given one, whatever the order of the calls: nobody is
   refused for ever.                                                       *)
THEOREM CountersEnd == Spec => []KeyExpires
<1>1. ComponentsOk => KeyExpires
  BY DEF ComponentsOk, LimiterOk, KeyExpires
<1>2. QED
  BY <1>1, Invariance, PTL

(* For any number of jobs, items, values and settings and any lookback: what
   two parsed successes show differently, one of those between them reports;
   a certificate or an HTTP status, if it was seen all the way between.    *)
THEOREM ChangesAreReported == Spec => []NoChangeIsLost
<1>1. ComponentsOk => NoChangeIsLost
  BY DEF ComponentsOk, DiffOk, NoChangeIsLost
<1>2. QED
  BY <1>1, Invariance, PTL

(* For any CVSS and EPSS scores, in percent: a signal that rises, a worse
   severity, a more critical asset or more confidence never lowers a score,
   however rounding and cap fall.                                          *)
THEOREM EvidenceCounts == Spec => MoreEvidenceNeverLowers
<1>1. ComponentsOk /\ [Next]_vars =>
        [subject = "score" => S!calculate_risk(inputs') >= S!calculate_risk(inputs)]_vars
  BY ScoreRises, SubjectStep DEF ComponentsOk
<1>2. QED
  BY <1>1, Invariance, PTL DEF Spec, MoreEvidenceNeverLowers

(* For any assets, findings and jobs: the committed relations and edges are
   those of all that is known, each relation once, if no job was committed
   after another had read what it changed.                                 *)
THEOREM GraphFollows == Spec => []GraphIsUpToDate
<1>1. ComponentsOk => GraphIsUpToDate
  BY GraphProperty DEF ComponentsOk, GraphIsUpToDate
<1>2. QED
  BY <1>1, Invariance, PTL

(* For any edges between two nodes, a walk that never comes back to a node
   reaches every edge within its number of hops of an asset, and no other.  *)
THEOREM LocalGraphs == Spec => []NeighbourhoodIsComplete
<1>1. ComponentsOk => NeighbourhoodIsComplete
  BY QueryProperties DEF ComponentsOk, GraphOk, NeighbourhoodIsComplete
<1>2. QED
  BY <1>1, Invariance, PTL

(* For any such edges and any number of hops, the paths between two nodes are
   the same from either end, attack paths come to no node twice, and a
   shortest one to each critical asset within reach is returned, unless the
   response says that it is truncated; while the rows are within the LIMIT. *)
THEOREM AttackPaths == Spec => []ShortestPathsAreKept
<1>1. ComponentsOk => ShortestPathsAreKept
  BY QueryProperties DEF ComponentsOk, GraphOk, ShortestPathsAreKept
<1>2. QED
  BY <1>1, Invariance, PTL

(* A relation an AI suggestion gave rise to was accepted by somebody, and
   says so still, unless a dismissal that had not seen the acceptance has
   been written over it; for any findings, answers and number of requests. *)
THEOREM Traceable == Spec => []RelationIsADecision
<1>1. ComponentsOk => RelationIsADecision
  BY DEF ComponentsOk, ReviewOk, RelationIsADecision
<1>2. QED
  BY <1>1, Invariance, PTL
=============================================================================
