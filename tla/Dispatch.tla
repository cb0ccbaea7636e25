------------------------------- MODULE Dispatch -------------------------------
(***************************************************************************)
(* Extensions that run when a service or supd itself reaches a phase: the  *)
(* triggers (extension/trigger_lifecycle.go, trigger_supd_lifecycle.go)    *)
(* hand a request to the dispatcher (extension/dispatcher.go), which finds *)
(* the extensions that match, groups them by service and runs the groups   *)
(* beside each other, the extensions of a group one after the other. A     *)
(* reload replaces what the dispatcher finds.                              *)
(*                                                                         *)
(* What ActionTracker does is reduced to the default policy, replace: the  *)
(* runs of an action that are under way are cancelled by the next. An      *)
(* extension has one action per phase.                                     *)
(***************************************************************************)
EXTENDS Naturals, FiniteSets, Sequences, SequencesExt, FiniteSetsExt

CONSTANTS
    Services,
    Globals,        \* how many global extensions there may be,
    Own,            \* and how many of each service
    Kinds,          \* what the extensions of a discovery may be: see Kind
    Dispatches,     \* the requests dispatched
    MaxChanges      \* bounds the reloads

NoService == "global"       \* the empty service name
Kind == [status : {"absent", "broken", "disabled", "enabled"}, on : SUBSET {"service", "supd"}]

ASSUME DispatchAssumption ==
    /\ {Globals, Own, MaxChanges} \subseteq Nat
    /\ NoService \notin Services
    /\ IsFiniteSet(Services)
    /\ Kinds \subseteq Kind

\* The names of extensions are numbers, in their alphabetical order.
Extensions == [owner : {NoService}, name : 1..Globals] \cup [owner : Services, name : 1..Own]
Requests == [event : {"supd"}, service : {NoService}] \cup [event : {"service"}, service : Services]
Actions == (Services \cup {NoService}) \X Nat

VARIABLES
    found,          \* the DiscoveryResult of the triggers
    changes,        \* reloads so far
    running,        \* ConcurrencyManager.trackers: the runs of each action that has a
                    \* tracker; what group g of dispatch d runs is run <<d, g>>
    cancelled,      \* the runs whose context has been cancelled
    dispatch,       \* how far each dispatch is
    ran,            \* history: the extensions a dispatch has run to the end
    replaced        \* history: those of which it left the rest to another dispatch

dispatchVars == <<found, changes, running, cancelled, dispatch, ran, replaced>>

Waiting == [pc |-> "idle"]

NothingFound == [e \in Extensions |-> [status |-> "absent", on |-> {}]]

DispatchTypeOK ==
    /\ found \in [Extensions -> Kinds] /\ changes \in 0..MaxChanges
    /\ DOMAIN running \subseteq Actions
    /\ \A d \in Dispatches : dispatch[d].pc \in {"idle", "running", "over"}
    /\ ran \cup replaced \subseteq Dispatches \X Extensions

DispatchInit ==
    /\ found \in [Extensions -> Kinds] /\ changes = 0
    /\ running = <<>> /\ cancelled = {}
    /\ dispatch = [d \in Dispatches |-> Waiting]
    /\ ran = {} /\ replaced = {}

-----------------------------------------------------------------------------
\* findMatchingExtensions and matchExtension. A service's phase is of no concern to the
\* extensions of other services.
Matching(req) ==
    {e \in Extensions :
        /\ found[e].status = "enabled" /\ req.event \in found[e].on
        /\ req.event = "service" => e.owner \in {NoService, req.service}}

GlobalOf(m) == {e \in m : e.owner = NoService}
OwnOf(m, s) == {e \in m : e.owner = s}

\* A bug variant of Spare: append leaves room behind one element too.
SpareTwice(n) == n

\* The room append leaves behind n elements: the capacity doubles.
Spare(n) == (CHOOSE c \in {2^k : k \in 0..n} : n <= c /\ c < 2 * n) - n

\* groupByService: in front of what matched of a service, in the order in which it was
\* found, come the global extensions. append writes behind the slice of the global ones:
\* if there is room, each service that fits writes over what those before it wrote.
Writer(listed, order, spare, i) ==
    order[Max({k \in DOMAIN order : Len(listed[order[k]]) \in i..spare})]

Behind(listed, order, spare, s) ==
    IF Len(listed[s]) \in 1..spare
    THEN {listed[Writer(listed, order, spare, i)][i] : i \in 1..Len(listed[s])}
    ELSE ToSet(listed[s])

Groupings(m) ==
    LET globals == GlobalOf(m)
        owners == {e.owner : e \in m} \ {NoService}
        spare == IF globals = {} THEN 0 ELSE Spare(Cardinality(globals))
        listings == {l \in [owners -> UNION {SetToSeqs(OwnOf(m, s)) : s \in owners}] :
                        \A s \in owners : ToSet(l[s]) = OwnOf(m, s)}
    IN  IF owners = {} THEN {[g \in {NoService} |-> globals]}
        ELSE {[s \in owners |-> globals \cup Behind(l, order, spare, s)] :
                 l \in listings, order \in SetToSeqs(owners)}

\* executeForService: the global ones first, each kind in the order of the names, what
\* shares a name in either order (sort.Slice).
InOrder(exts) ==
    {l \in SetToSeqs(exts) : \A i, j \in DOMAIN l : i < j =>
        /\ l[i].owner = NoService \/ l[j].owner # NoService
        /\ (l[i].owner = NoService <=> l[j].owner = NoService) => l[i].name <= l[j].name}

Orderings(groups) ==
    {o \in [DOMAIN groups -> UNION {InOrder(groups[g]) : g \in DOMAIN groups}] :
        \A g \in DOMAIN groups : o[g] \in InOrder(groups[g])}

\* A bug variant of Key: the services are not told apart.
KeyOfName(req, e) == <<NoService, e.name>>

\* The tracker: a global extension runs for the service whose phase it is, as if it were
\* its own.
Key(req, e) ==
    <<IF e.owner = NoService /\ req.event = "service" THEN req.service ELSE e.owner, e.name>>

\* Dispatch: the groups start in goroutines of their own.
Begin(d) ==
    /\ dispatch[d] = Waiting
    /\ \E req \in Requests :
          LET m == Matching(req)
          IN  IF m = {} THEN dispatch' = [dispatch EXCEPT ![d] = [pc |-> "over", matched |-> {}]]
              ELSE \E groups \in Groupings(m) : \E order \in Orderings(groups) :
                      dispatch' = [dispatch EXCEPT ![d] =
                          [pc |-> "running", matched |-> m, req |-> req, busy |-> {},
                           left |-> order]]
    /\ UNCHANGED <<found, changes, running, cancelled, ran, replaced>>

At(d, g) == Head(dispatch[d].left[g])
Under(k) == IF k \in DOMAIN running THEN running[k] ELSE {}
WithRuns(k, runs) == [j \in DOMAIN running \cup {k} |-> IF j = k THEN runs ELSE running[j]]

\* The next extension of a group: GetTracker, and applyReplace.
ApplyReplace(d, g) ==
    /\ dispatch[d].pc = "running" /\ g \in DOMAIN dispatch[d].left \ dispatch[d].busy
    /\ dispatch[d].left[g] # <<>>
    /\ LET k == Key(dispatch[d].req, At(d, g))
       IN  /\ cancelled' = cancelled \cup Under(k)
           /\ replaced' = replaced \cup {<<r[1], At(r[1], r[2])>> : r \in {r \in Under(k) : r[1] # d}}
           /\ running' = WithRuns(k, {<<d, g>>})
    /\ dispatch' = [dispatch EXCEPT ![d].busy = @ \cup {g}]
    /\ UNCHANGED <<found, changes, ran>>

\* However it ends, the group goes on with the next one.
ExtensionEnds(d, g) ==
    /\ dispatch[d].pc = "running" /\ g \in dispatch[d].busy
    /\ LET k == Key(dispatch[d].req, At(d, g))
       IN  running' = IF k \in DOMAIN running THEN WithRuns(k, Under(k) \ {<<d, g>>}) ELSE running
    /\ ran' = IF <<d, g>> \in cancelled THEN ran ELSE ran \cup {<<d, At(d, g)>>}
    /\ cancelled' = cancelled \ {<<d, g>>}
    /\ dispatch' = [dispatch EXCEPT ![d].busy = @ \ {g}, ![d].left[g] = Tail(@)]
    /\ UNCHANGED <<found, changes, replaced>>

\* The groups have been waited for; recordResults shows the results in the history.
Over(d) ==
    /\ dispatch[d].pc = "running"
    /\ \A g \in DOMAIN dispatch[d].left : dispatch[d].left[g] = <<>>
    /\ dispatch' = [dispatch EXCEPT ![d] = [pc |-> "over", matched |-> @.matched]]
    /\ UNCHANGED <<found, changes, running, cancelled, ran, replaced>>

\* A reload: SetDiscovery, and CleanupRemovedExtensions takes the trackers of what is no
\* longer there out of the map; their runs go on, and no later run replaces them.
Rediscover ==
    /\ changes < MaxChanges /\ changes' = changes + 1
    /\ found' \in [Extensions -> Kinds]
    /\ LET gone == {<<e.owner, e.name>> : e \in {e \in Extensions :
                       found[e].status # "absent" /\ found'[e].status = "absent"}}
       IN  running' = [k \in DOMAIN running \ gone |-> running[k]]
    /\ UNCHANGED <<cancelled, dispatch, ran, replaced>>

DispatchNext ==
    \/ \E d \in Dispatches :
          \/ Begin(d) \/ Over(d)
          \/ \E g \in Services \cup {NoService} : ApplyReplace(d, g) \/ ExtensionEnds(d, g)
    \/ Rediscover

-----------------------------------------------------------------------------
\* "全局扩展包含在拥有匹配扩展的服务组中" (dispatcher.go:327): a dispatch that is over has run
\* every extension that matched, and to its end, unless another dispatch ran it again.
\* A global one that several groups have is cancelled by the group that comes to it
\* next: it is the last of them that runs it.
EveryMatchRuns ==
    \A d \in Dispatches : dispatch[d].pc = "over" =>
        \A e \in dispatch[d].matched : <<d, e>> \in ran \cup replaced
=============================================================================
