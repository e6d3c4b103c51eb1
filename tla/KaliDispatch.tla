---------------------------- MODULE KaliDispatch ----------------------------
(***************************************************************************)
(* run_tool() of the workers (jobs/kali_client.py), for one tool, over     *)
(* several Kali agents: the inventory check, the busy counters in Redis,   *)
(* and the agents (kali/agent/main.py), whose exec_tool() blocks the one   *)
(* event loop that also answers /health.                                   *)
(***************************************************************************)
EXTENDS Integers, Sequences, FiniteSets

CONSTANTS
  Workers,
  Urls,      \* Settings.kali_agent_urls
  HasTool,   \* the agents whose ALLOWED_TOOLS has the tool
  MaxKills,  \* bound: work horses killed while they wait
  MaxBlips,  \* bound: requests, to /health or /exec, that find an agent unreachable
  MaxQueue,  \* bound: requests the agents have received and not carried out
  MaxRedisFailures, \* bound: commands Redis fails
  NoUrl, Nobody

VARIABLES
  call,   \* the run_tool() of each worker
  busy,   \* the busy counters
  queue,  \* who waits for the requests an agent has received: the first one is running
  misses, \* commands Redis has failed
  forgotten, \* the calls to each agent that were under way when Redis lost its data
  kills, blips

counters == <<busy, misses, forgotten>>
vars == <<call, counters, queue, kills, blips>>

multi == Cardinality(Urls) > 1

States == {"idle", "select", "chosen", "post", "waiting", "answered", "rejected", "lost",
           "done", "failed", "killed"}

TypeOK ==
  /\ call \in [Workers -> [at : States, asked : SUBSET Urls, compatible : SUBSET Urls,
                           url : Urls \cup {NoUrl}, behind : BOOLEAN]]
  /\ busy \in [Urls -> Int]
  /\ queue \in [Urls -> Seq(Workers \cup {Nobody})]
  /\ misses \in 0 .. MaxRedisFailures
  /\ forgotten \in [Urls -> Nat]
  /\ kills \in 0 .. MaxKills
  /\ blips \in 0 .. MaxBlips

NoCall == [at |-> "idle", asked |-> {}, compatible |-> {}, url |-> NoUrl, behind |-> FALSE]

Init ==
  /\ call = [w \in Workers |-> NoCall]
  /\ busy = [u \in Urls |-> 0]
  /\ queue = [u \in Urls |-> <<>>]
  /\ misses = 0 /\ forgotten = [u \in Urls |-> 0]
  /\ kills = 0 /\ blips = 0

Goes(w, at) == call' = [call EXCEPT ![w].at = at]
Ends(w, at) == call' = [call EXCEPT ![w] = [NoCall EXCEPT !.at = at]]
Selects(w, u) == call' = [call EXCEPT ![w] = [NoCall EXCEPT !.at = "chosen", !.url = u]]

\* The one agent there is needs no selection.
Begin(w) ==
  /\ call[w].at = "idle"
  /\ IF multi THEN Goes(w, "select")
     ELSE \E u \in Urls : Selects(w, u)
  /\ UNCHANGED <<counters, queue, kills, blips>>

Idle(u) == queue[u] = <<>>

Blip == blips < MaxBlips /\ blips' = blips + 1

\* _agent_has_tool(): an agent that runs a tool answers if that ends in time.
Ask(w, u) ==
  /\ call[w].at = "select" /\ u \notin call[w].asked
  /\ \E compatible \in BOOLEAN :
       /\ call' = [call EXCEPT ![w].asked = @ \cup {u},
                               ![w].compatible = IF compatible THEN @ \cup {u} ELSE @]
       /\ \/ (compatible <=> u \in HasTool) /\ UNCHANGED blips
          \/ ~compatible /\ ~Idle(u) /\ UNCHANGED blips
          \/ ~compatible /\ Blip
  /\ UNCHANGED <<counters, queue, kills>>

LeastBusy(U) == {u \in U : \A v \in U : busy[u] <= busy[v]}

\* _select_agent_url(), once all agents were asked.
Choose(w) ==
  /\ call[w].at = "select" /\ call[w].asked = Urls
  /\ IF call[w].compatible = {} THEN Ends(w, "failed")
     ELSE \E u \in LeastBusy(call[w].compatible) : Selects(w, u)
  /\ UNCHANGED <<counters, queue, kills, blips>>

\* Redis adds n to the counter of w's agent, where there is a choice of agents.
Adds(w, n) ==
  /\ busy' = IF multi THEN [busy EXCEPT ![call[w].url] = @ + n] ELSE busy
  /\ UNCHANGED <<misses, forgotten, queue, kills, blips>>

Incr(w) ==
  /\ call[w].at = "chosen"
  /\ Adds(w, 1)
  /\ Goes(w, "post")

Received == {p \in Urls \X (1 .. MaxQueue) : p[2] \in DOMAIN queue[p[1]]}

\* POST /exec, which waits behind the tool that is running.
Post(w) ==
  LET u == call[w].url IN
  /\ call[w].at = "post" /\ Cardinality(Received) < MaxQueue
  /\ queue' = [queue EXCEPT ![u] = Append(@, w)]
  /\ call' = [call EXCEPT ![w].at = "waiting", ![w].behind = ~Idle(u)]
  /\ UNCHANGED <<counters, kills, blips>>

\* The agent is unreachable.
PostFails(w) ==
  /\ call[w].at = "post" /\ Blip
  /\ Goes(w, "lost")
  /\ UNCHANGED <<counters, queue, kills>>

Waiting == {w \in Workers : call[w].at = "waiting"}

\* exec_tool(): a tool the agent does not have is refused, any other ends or
\* is killed when its time is up.
Exec(u) ==
  /\ ~Idle(u)
  /\ LET w == Head(queue[u]) IN
       call' = IF w \in Waiting
                 THEN [call EXCEPT ![w].at = IF u \in HasTool THEN "answered" ELSE "rejected"]
                 ELSE call
  /\ queue' = [queue EXCEPT ![u] = Tail(@)]
  /\ UNCHANGED <<counters, kills, blips>>

\* The agent does not learn that its answer to w is no longer waited for.
Deserted(w) ==
  [u \in Urls |-> [i \in DOMAIN queue[u] |-> IF queue[u][i] = w THEN Nobody ELSE queue[u][i]]]

\* Ten seconds more than the tool has are not enough for one that had to wait.
GiveUp(w) ==
  /\ call[w].at = "waiting" /\ call[w].behind
  /\ Goes(w, "lost")
  /\ queue' = Deserted(w)
  /\ UNCHANGED <<counters, kills, blips>>

Answers == {"answered", "rejected", "lost"}

\* Deviation: no finally, the counter is put back after an answer only.
ReturnAnswered(w) ==
  /\ call[w].at \in Answers
  /\ Adds(w, IF call[w].at = "answered" THEN -1 ELSE 0)
  /\ Ends(w, IF call[w].at = "answered" THEN "done" ELSE "failed")

\* The finally of run_tool(), and its result or KaliAgentError.
Return(w) ==
  /\ call[w].at \in Answers
  /\ Adds(w, -1)
  /\ Ends(w, IF call[w].at = "answered" THEN "done" ELSE "failed")

\* Redis fails the command, before it is carried out or after it, and run_tool()
\* raises: of the DECR too, in place of the result there was.
RedisFails(w) ==
  /\ multi /\ misses < MaxRedisFailures /\ misses' = misses + 1
  /\ \/ call[w].at = "select" /\ Cardinality(call[w].compatible) > 1 /\ call[w].asked = Urls
        /\ UNCHANGED busy
     \/ call[w].at = "chosen" /\ busy' \in {busy, [busy EXCEPT ![call[w].url] = @ + 1]}
     \/ call[w].at \in Answers /\ busy' \in {busy, [busy EXCEPT ![call[w].url] = @ - 1]}
  /\ Ends(w, "failed")
  /\ UNCHANGED <<forgotten, queue, kills, blips>>

\* The worker's next job.
Again(w) ==
  /\ call[w].at \in {"done", "failed", "killed"}
  /\ Ends(w, "idle")
  /\ UNCHANGED <<counters, queue, kills, blips>>

\* RQ kills the work horse, and no finally is run.
Kill(w) ==
  /\ call[w].at \in {"post", "waiting"} \cup Answers
  /\ kills < MaxKills /\ kills' = kills + 1
  /\ Ends(w, "killed")
  /\ queue' = Deserted(w)
  /\ UNCHANGED <<counters, blips>>

InFlight(u) == {w \in Workers : call[w].url = u /\ call[w].at \in {"post", "waiting"} \cup Answers}

\* Redis loses its data; a counter that is not there counts from 0.
KeysAreLost ==
  /\ busy' = [u \in Urls |-> 0]
  /\ forgotten' = [u \in Urls |-> Cardinality(InFlight(u))]
  /\ UNCHANGED <<call, queue, misses, kills, blips>>

Run(w) ==
  \/ Begin(w) \/ (\E u \in Urls : Ask(w, u)) \/ Choose(w)
  \/ Incr(w) \/ Post(w) \/ PostFails(w) \/ GiveUp(w) \/ Return(w)
  \/ RedisFails(w)

Next ==
  \/ \E w \in Workers : Run(w) \/ Again(w) \/ Kill(w)
  \/ \E u \in Urls : Exec(u)
  \/ KeysAreLost

Spec == Init /\ [][Next]_vars

(***************************************************************************)
(* Properties.                                                             *)
(***************************************************************************)

(* "A failed/timed-out call never leaves this instance permanently looking *)
(* busier than it really is" (kali_client.py:124-126), nor idler, whoever  *)
(* gives up, is refused or unreachable: a counter is the calls in flight,  *)
(* and above them by no more than the work horses that were killed and the *)
(* commands Redis failed, whose calls nothing counts back, and below them  *)
(* by no more than the calls Redis has forgotten.                          *)
CountersAreCalls ==
  multi => \A u \in Urls : busy[u] - Cardinality(InFlight(u)) \in -forgotten[u] .. kills + misses
=============================================================================
