----------------------------- MODULE LabManager -----------------------------
(***************************************************************************)
(* The lab manager (labmanager/docker_manager.py): labs exist only as      *)
(* labelled containers and as networks of the Docker daemon.  The requests *)
(* run in a thread pool, each as a series of calls to the daemon, any of   *)
(* which may fail.                                                         *)
(***************************************************************************)
EXTENDS Naturals, FiniteSets

CONSTANTS
  Labs,        \* lab ids; each is drawn by one create_lab()
  Requests,
  MaxFailures, \* bound: calls of the daemon that fail, processes that die
  NoLab

VARIABLES
  container,  \* each lab's container
  networks,   \* labs whose network exists
  request,    \* what each request does, on which lab, and what it has found
  made,       \* labs that have had a container, which list_labs() shows
  unmade,     \* labs a delete_lab() was asked for
  failures

vars == <<container, networks, request, made, unmade, failures>>

\* gen tells a lab's containers, one after the other, apart.
Gens == 0 .. 1 + Cardinality(Requests)
None == [status |-> "none", gen |-> 0]

Operations == {"create", "start", "stop", "reset", "delete"}
Steps == {"new", "network", "start", "stop", "remove", "run", "connect", "rmnet", "done", "error"}

TypeOK ==
  /\ container \in [Labs -> [status : {"none", "running", "exited"}, gen : Gens]]
  /\ networks \in SUBSET Labs
  /\ request \in [Requests -> [at : Steps, op : Operations \cup {"none"},
                               lab : Labs \cup {NoLab}, gen : Gens]]
  /\ made \in SUBSET Labs /\ unmade \in SUBSET Labs
  /\ failures \in 0 .. MaxFailures

Init ==
  /\ container = [l \in Labs |-> None]
  /\ networks = {}
  /\ request = [r \in Requests |-> [at |-> "new", op |-> "none", lab |-> NoLab, gen |-> 0]]
  /\ made = {} /\ unmade = {}
  /\ failures = 0

Exists(l) == container[l].status # "none"
Lab(r) == request[r].lab

\* The container the request has found is still the lab's.
Same(r) == Exists(Lab(r)) /\ container[Lab(r)].gen = request[r].gen

Goes(r, step) == request' = [request EXCEPT ![r].at = step]
At(r, step) == request[r].at = step

\* create_lab() draws an id nobody has.
BeginCreate(r) ==
  /\ At(r, "new")
  /\ \E l \in Labs :
       /\ \A q \in Requests : Lab(q) # l \/ request[q].op # "create"
       /\ request' = [request EXCEPT ![r] = [at |-> "network", op |-> "create", lab |-> l, gen |-> 0]]
  /\ UNCHANGED <<container, networks, made, unmade, failures>>

First == [start |-> "start", stop |-> "stop", reset |-> "stop", delete |-> "stop"]

\* _find_container(), which raises LabNotFoundError if there is none.
Find(r) ==
  /\ At(r, "new")
  /\ \E l \in made, op \in Operations \ {"create"} :
       /\ request' = [request EXCEPT ![r] =
            [at |-> IF Exists(l) THEN First[op] ELSE "error", op |-> op, lab |-> l,
             gen |-> container[l].gen]]
       /\ unmade' = IF op = "delete" THEN unmade \cup {l} ELSE unmade
  /\ UNCHANGED <<container, networks, made, failures>>

CreateNetwork(r) ==
  /\ At(r, "network")
  /\ networks' = networks \cup {Lab(r)}
  /\ Goes(r, "run")
  /\ UNCHANGED <<container, made, unmade, failures>>

\* A call on a container that was removed meanwhile raises NotFound.
Missing(r) ==
  /\ request[r].at \in {"start", "stop", "remove"} /\ ~Same(r)
  /\ Goes(r, "error")
  /\ UNCHANGED <<container, networks, made, unmade, failures>>

\* A container without its network does not start.
Start(r) ==
  /\ At(r, "start") /\ Same(r)
  /\ IF Lab(r) \in networks
       THEN container' = [container EXCEPT ![Lab(r)].status = "running"] /\ Goes(r, "done")
       ELSE UNCHANGED container /\ Goes(r, "error")
  /\ UNCHANGED <<networks, made, unmade, failures>>

Stop(r) ==
  /\ At(r, "stop") /\ Same(r)
  /\ container' = [container EXCEPT ![Lab(r)].status = "exited"]
  /\ Goes(r, IF request[r].op = "stop" THEN "done" ELSE "remove")
  /\ UNCHANGED <<networks, made, unmade, failures>>

\* Without force, the daemon removes no container that was started again.
Remove(r) ==
  /\ At(r, "remove") /\ Same(r)
  /\ IF container[Lab(r)].status = "running"
       THEN UNCHANGED container /\ Goes(r, "error")
       ELSE /\ container' = [container EXCEPT ![Lab(r)].status = "none"]
            /\ Goes(r, IF request[r].op = "reset" THEN "run" ELSE "rmnet")
  /\ UNCHANGED <<networks, made, unmade, failures>>

\* The name of the lab must be free, and its network must exist.
MayRun(r) == At(r, "run") /\ ~Exists(Lab(r)) /\ Lab(r) \in networks

Makes(r, status) ==
  /\ container' = [container EXCEPT ![Lab(r)] = [status |-> status, gen |-> @.gen + 1]]
  /\ made' = made \cup {Lab(r)}

\* Deviation: the reset gives the lab up with its container.
RunNothing(r) ==
  /\ At(r, "run")
  /\ IF request[r].op = "create" THEN Makes(r, "running") ELSE UNCHANGED <<container, made>>
  /\ Goes(r, "done")
  /\ UNCHANGED <<networks, unmade, failures>>

\* containers.run() of _run_container().
Run(r) ==
  /\ At(r, "run")
  /\ IF MayRun(r)
       THEN /\ Makes(r, "running")
            /\ request' = [request EXCEPT ![r].at = "connect", ![r].gen = container[Lab(r)].gen + 1]
       ELSE UNCHANGED <<container, made>> /\ Goes(r, "error")
  /\ UNCHANGED <<networks, unmade, failures>>

\* The Kali network, whose NotFound is let pass, and the reload() of the instance.
Connect(r) ==
  /\ At(r, "connect")
  /\ Goes(r, IF Same(r) THEN "done" ELSE "error")
  /\ UNCHANGED <<container, networks, made, unmade, failures>>

\* The daemon refuses to remove a network a running container is attached to.
RemoveNetwork(r) ==
  /\ At(r, "rmnet")
  /\ IF container[Lab(r)].status = "running" THEN UNCHANGED networks /\ Goes(r, "error")
     ELSE networks' = networks \ {Lab(r)} /\ Goes(r, "done")
  /\ UNCHANGED <<container, made, unmade, failures>>

\* The daemon raises APIError, after it has made a container it cannot start
\* too, or the process dies.
Fail(r) ==
  /\ request[r].at \notin {"new", "done", "error"}
  /\ failures < MaxFailures /\ failures' = failures + 1
  /\ Goes(r, "error")
  /\ \/ UNCHANGED <<container, made>>
     \/ MayRun(r) /\ Makes(r, "exited")
  /\ UNCHANGED <<networks, unmade>>

Next ==
  \E r \in Requests :
    \/ BeginCreate(r) \/ Find(r)
    \/ CreateNetwork(r) \/ Run(r) \/ Connect(r)
    \/ Missing(r) \/ Start(r) \/ Stop(r) \/ Remove(r) \/ RemoveNetwork(r)
    \/ Fail(r)

Spec == Init /\ [][Next]_vars

(***************************************************************************)
(* Properties.                                                             *)
(***************************************************************************)

Quiet == \A r \in Requests : request[r].at \in {"new", "done", "error"}

(* Resets, starts and stops that overlap leave a lab that was made, "while *)
(* keeping the same lab id, network" (docker_manager.py:126-130): only a   *)
(* delete or a failing call takes the container or its network away.       *)
LabOutlivesItsResets ==
  Quiet /\ failures = 0 => \A l \in made \ unmade : Exists(l) /\ l \in networks
=============================================================================
