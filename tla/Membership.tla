----------------------------- MODULE Membership -----------------------------
(* Who the coordinator believes is reachable, and what it believes they hold: *)
(* the topology view, the control links and the announced inventory, changed  *)
(* by concurrent session threads and lost with the coordinator process.       *)
(*                                                                            *)
(* A process is an endpoint and an epoch; its control session is its only     *)
(* one.  The steps of a session thread between two locks are separate         *)
(* actions.  topology_ is shared by the session threads without a lock; the   *)
(* model takes each of its operations as atomic.                              *)
EXTENDS Integers

CONSTANTS
    Endpoints,      \* endpoint names
    Objects,        \* announced object ids
    MaxEpoch,       \* bound: incarnations of an endpoint
    MaxGeneration,  \* bound: state generations of an object
    MaxStarts       \* bound: starts of the coordinator process

ASSUME MembershipAssumptions == {MaxEpoch, MaxGeneration, MaxStarts} \subseteq Nat \ {0}

Processes == Endpoints \X (1 .. MaxEpoch)

VARIABLES
    process,     \* the epoch of each endpoint's running process, 0 when none runs
    started,     \* how often each endpoint was started: the epoch it had last
    session,     \* the coordinator's session thread for each process
    registered,  \* topology_: the epoch recorded for each endpoint, 0 when none
    live,        \* topology_: the endpoints recorded as live
    links,       \* links_: the epoch of the process each endpoint's link leads to
    generation,  \* topology_.generation()
    inventory,   \* inventory_: announced state generation of each object, 0 when none
    starts,      \* starts of the coordinator; it runs
    overtaken    \* history: endpoints to whose view an older session added since they registered

vars == <<process, started, session, registered, live, links, generation, inventory, starts, overtaken>>
endpointVars == <<process, started>>
viewVars == <<registered, live, generation, overtaken>>

None == [e \in Endpoints |-> 0]
NoInventory == [o \in Objects |-> 0]

(* TopologyView starts at generation 1; recover_after_restart advances it. *)
FirstGeneration == 2

Init ==
    /\ process = None /\ started = None
    /\ session = [p \in Processes |-> "none"]
    /\ registered = None /\ live = {} /\ links = None
    /\ generation = FirstGeneration /\ inventory = NoInventory /\ starts = 1
    /\ overtaken = {}

Session(p, from, to) == session[p] = from /\ session' = [session EXCEPT ![p] = to]

-----------------------------------------------------------------------------
(* Endpoint processes, under their supervisor.                               *)

EndpointStart(e) ==
    /\ process[e] = 0 /\ started[e] < MaxEpoch
    /\ started' = [started EXCEPT ![e] = @ + 1] /\ process' = [process EXCEPT ![e] = started[e] + 1]
    /\ session' = [session EXCEPT ![<<e, started[e] + 1>>] = "open"]
    /\ UNCHANGED <<viewVars, links, inventory, starts>>

(* The process dies; its session thread finds out later. *)
EndpointDies(e) ==
    /\ process[e] # 0
    /\ process' = [process EXCEPT ![e] = 0]
    /\ UNCHANGED <<started, session, viewVars, links, inventory, starts>>

-----------------------------------------------------------------------------
(* One session thread per process.                                           *)

put_StaysDead(e, epoch) ==   \* mutant: a registration does not bring a dead endpoint back
    /\ registered[e] <= epoch
    /\ registered' = [registered EXCEPT ![e] = epoch]
    /\ live' = IF registered[e] = 0 THEN live \cup {e} ELSE live

(* TopologyView::put of a registration that is not older than the recorded one. *)
put(e, epoch) ==
    /\ registered[e] <= epoch
    /\ registered' = [registered EXCEPT ![e] = epoch]
    /\ live' = live \cup {e}

(* REGISTER, which may still be read after its sender died. *)
Register(p) ==
    /\ Session(p, "open", "registering") /\ put(p[1], p[2])
    /\ generation' = generation + 1 /\ overtaken' = overtaken \ {p[1]}
    /\ UNCHANGED <<endpointVars, links, inventory, starts>>

(* The newest registration of p's endpoint is another process's: what p's     *)
(* session does to the view now overtakes it.                                 *)
Overtakes(p) == overtaken' = IF registered[p[1]] # p[2] THEN overtaken \cup {p[1]} ELSE overtaken

(* A refused registration is answered with an error and the session goes on. *)
RegisterRefused(p) ==
    /\ registered[p[1]] > p[2] /\ Session(p, "open", "refused")
    /\ UNCHANGED <<endpointVars, viewVars, links, inventory, starts>>

(* The link is entered under links_mutex_, in a second step. *)
Link(p) ==
    /\ Session(p, "registering", "serving")
    /\ links' = [links EXCEPT ![p[1]] = p[2]]
    /\ Overtakes(p)
    /\ UNCHANGED <<endpointVars, registered, live, generation, inventory, starts>>

(* ANNOUNCE_OBJECT: refused only when a newer generation is already there. *)
Announce(p) ==
    /\ session[p] = "serving"
    /\ \E o \in Objects, g \in 1 .. MaxGeneration :
         inventory[o] <= g /\ inventory' = [inventory EXCEPT ![o] = g]
    /\ UNCHANGED <<endpointVars, session, viewVars, links, starts>>

SessionOver_KeepsOld(p) ==   \* mutant: only the session registered last erases its link
    /\ Session(p, session[p], "over") /\ session[p] \in {"open", "refused", "serving"}
    /\ links' = IF registered[p[1]] = p[2] THEN [links EXCEPT ![p[1]] = 0] ELSE links
    /\ UNCHANGED <<endpointVars, viewVars, inventory, starts>>

(* The session is over once its process is gone, or after the receive budget: *)
(* the thread removes its own link ...                                        *)
SessionOver(p) ==
    /\ Session(p, session[p], "over") /\ session[p] \in {"open", "refused", "serving"}
    /\ links' = IF links[p[1]] = p[2] THEN [links EXCEPT ![p[1]] = 0] ELSE links
    /\ UNCHANGED <<endpointVars, viewVars, inventory, starts>>

MarkDead_Forgotten(p) ==   \* mutant: the end of a session is not recorded
    /\ Session(p, "over", "none")
    /\ UNCHANGED <<endpointVars, viewVars, links, inventory, starts>>

(* ... and marks its endpoint dead, by name. *)
MarkDead(p) ==
    /\ Session(p, "over", "none")
    /\ live' = live \ {p[1]}
    /\ generation' = IF registered[p[1]] # 0 THEN generation + 1 ELSE generation
    /\ Overtakes(p)
    /\ UNCHANGED <<endpointVars, registered, links, inventory, starts>>

-----------------------------------------------------------------------------
(* The coordinator process is killed and started again: it has no sessions,   *)
(* an empty view and an empty inventory.  The saved topology generation is    *)
(* not read.                                                                  *)
Restart ==
    /\ starts < MaxStarts /\ starts' = starts + 1
    /\ session' = [p \in Processes |-> "none"]
    /\ registered' = None /\ live' = {} /\ links' = None
    /\ generation' = FirstGeneration /\ inventory' = NoInventory /\ overtaken' = {}
    /\ UNCHANGED endpointVars

Thread(p) == Register(p) \/ RegisterRefused(p) \/ Link(p) \/ MarkDead(p)

Next ==
    \/ \E e \in Endpoints : EndpointStart(e) \/ EndpointDies(e)
    \/ \E p \in Processes : Thread(p) \/ Announce(p) \/ SessionOver(p)
    \/ Restart

Spec == Init /\ [][Next]_vars

Running(p) == process[p[1]] = p[2]

(* Session threads run, and the end of a process ends its session. *)
Fairness ==
    \A p \in Processes : WF_vars(Thread(p)) /\ WF_vars(~Running(p) /\ SessionOver(p))

FairSpec == Spec /\ Fairness

-----------------------------------------------------------------------------
(* A link never outlives its session, even one that an older session entered  *)
(* over the link of a newer one: there is a thread that reads from it and     *)
(* will erase it (handle_endpoint_message, session_loop).                     *)
LinkHasSession == \A e \in Endpoints : links[e] # 0 => session[<<e, links[e]>>] = "serving"

(* An endpoint whose process died and is not replaced ends up marked dead     *)
(* (session_loop).                                                            *)
DeadIsNoticed ==
    \A e \in Endpoints : [](process[e] = 0 /\ started[e] = MaxEpoch => <>(e \notin live))

(* A running process that is served is marked live and its link leads to it,  *)
(* unless the session of an older process of the same endpoint entered its    *)
(* link, or ended and marked the endpoint dead by name, after the newer one   *)
(* registered (session_loop, handle_endpoint_message).  README.md:54 promises *)
(* it without the exception.                                                  *)
ServedUnlessOvertaken ==
    \A e \in Endpoints \ overtaken :
        process[e] # 0 /\ session[<<e, process[e]>>] = "serving"
            => e \in live /\ links[e] = process[e]

=============================================================================
