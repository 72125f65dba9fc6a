------------------------ MODULE ExtensionActivation -------------------------
(***************************************************************************)
(* The activation of extensions in an extension host: the classes          *)
(* ExtensionsActivator and ActivationOperation of                          *)
(* workbench/api/common/extHostExtensionActivator.ts, on a registry from   *)
(* which deltaExtensions() (workbench/services/extensions/common/          *)
(* extensionDescriptionRegistry.ts) has removed the looping extensions.    *)
(***************************************************************************)
EXTENDS Naturals, Sequences, SequencesExt

CONSTANTS
    Extensions,    \* ids of extensions that are installed
    Missing,       \* the id of one that is not
    Manifests,     \* the extensionDependencies that installed extensions may have
    Kinds,         \* what they may be: where they run, or "descriptive"
    Events,        \* activation events
    Activates      \* the extensions that an event activates, in order

VARIABLES
    extensionDependencies,
    kind,          \* "main", "host", "descriptive", or "unknown" to the registry
    operations,    \* by id: the state of the operation, and the deps it waits for
    events         \* by event: "none", "waiting" or "done"

vars == <<extensionDependencies, kind, operations, events>>

Ids == Extensions \cup {Missing}

-----------------------------------------------------------------------------
(* The registry.                                                           *)

ArcsOf(g, e) == IF e \in DOMAIN g THEN ToSet(g[e]) ELSE {}

MutantGrow(g, nodes, good) == good \cup {e \in nodes : ArcsOf(g, e) \cap good # {}}

\* The extensions that have only good dependencies become good.
Grow(g, nodes, good) == good \cup {e \in nodes : ArcsOf(g, e) \subseteq good}

RECURSIVE GoodFrom(_, _, _)
GoodFrom(g, nodes, good) ==
    LET more == Grow(g, nodes, good)
    IN  IF more = good THEN good ELSE GoodFrom(g, nodes, more)

\* _findLoopingExtensions(), which starts with the ids without dependencies.
FindLoopingExtensions(g) ==
    LET nodes == DOMAIN g \cup UNION {ArcsOf(g, e) : e \in DOMAIN g}
    IN  nodes \ GoodFrom(g, nodes, {e \in nodes : ArcsOf(g, e) = {}})

Init ==
    /\ extensionDependencies \in Manifests
    /\ \E k \in Kinds :
         kind = [e \in Ids |->
                   IF e = Missing \/ e \in FindLoopingExtensions(extensionDependencies)
                   THEN "unknown" ELSE k[e]]
    /\ operations = [e \in Ids |-> [state |-> "none", deps |-> {}]]
    /\ events = [v \in Events |-> "none"]

-----------------------------------------------------------------------------
(* _handleActivationRequest().                                             *)

MutantStateAfter(ops, deps) ==
    IF \E d \in deps : ops[d].state \in {"activating", "waiting"} THEN "waiting"
    ELSE "activating"

\* One round of _waitForDepsThenActivate().
StateAfter(ops, deps) ==
    IF \E d \in deps : ops[d].state = "failed" THEN "failed"
    ELSE IF \E d \in deps : ops[d].state # "activated" THEN "waiting"
    ELSE "activating"

\* The operation of e, with what its constructor does before it awaits.
Create(ops, e, deps) ==
    [ops EXCEPT ![e] =
        [state |-> StateAfter(ops, deps),
         deps |-> {d \in deps : ops[d].state # "activated"}]]

Fail(ops, e) == [ops EXCEPT ![e] = [state |-> "failed", deps |-> {}]]

RECURSIVE HandleActivationRequest(_, _), HandleDependencies(_, _, _, _)
HandleActivationRequest(ops, e) ==
    IF ops[e].state # "none" THEN ops
    ELSE IF kind[e] = "host" THEN Create(ops, e, {})
    ELSE IF kind[e] = "unknown" THEN Fail(ops, e)
    ELSE HandleDependencies(ops, e, extensionDependencies[e], {})

\* The loop over the dependencies; those in deps will be awaited.
HandleDependencies(ops, e, dependencies, deps) ==
    IF dependencies = <<>> THEN Create(ops, e, deps)
    ELSE LET d == Head(dependencies)
             rest == Tail(dependencies)
         IN  IF kind[d] = "descriptive" THEN HandleDependencies(ops, e, rest, deps)
             ELSE IF ops[d].state # "none" THEN HandleDependencies(ops, e, rest, deps \cup {d})
             ELSE IF kind[d] # "unknown"
                  THEN HandleDependencies(HandleActivationRequest(ops, d), e, rest, deps \cup {d})
             ELSE Fail(ops, e)

-----------------------------------------------------------------------------
(* The steps.                                                              *)

HasValue(e) == operations[e].state \in {"activated", "failed"}

\* The extensions of event v that the registry of this host knows.
ExtensionsFor(v) == SelectSeq(Activates[v], LAMBDA e : kind[e] \in {"main", "descriptive"})

\* activateByEvent(), up to its await.
ActivateByEvent(v) ==
    /\ events[v] = "none"
    /\ events' = [events EXCEPT ![v] = "waiting"]
    /\ operations' =
         FoldLeft(HandleActivationRequest, operations,
                  SelectSeq(ExtensionsFor(v), LAMBDA e : ~HasValue(e)))
    /\ UNCHANGED <<extensionDependencies, kind>>

MutantIsOpen(e) == operations[e].state = "activated"

\* The barrier of an operation opens whether it has failed or not.
IsOpen(e) == HasValue(e)

\* Promise.all() of the barriers: the event counts as activated.
EventDone(v) ==
    /\ events[v] = "waiting"
    /\ \A e \in ToSet(ExtensionsFor(v)) : IsOpen(e)
    /\ events' = [events EXCEPT ![v] = "done"]
    /\ UNCHANGED <<extensionDependencies, kind, operations>>

\* Promise.race() of the barriers of the dependencies: one of them is open.
DependencyDone(e) ==
    /\ operations[e].state = "waiting"
    /\ \E d \in operations[e].deps : IsOpen(d)
    /\ operations' = Create(operations, e, operations[e].deps)
    /\ UNCHANGED <<extensionDependencies, kind, events>>

\* actualActivateExtension() ends, for better or worse.
ActivationEnds(e) ==
    /\ operations[e].state = "activating"
    /\ \E s \in {"activated", "failed"} :
         operations' = [operations EXCEPT ![e].state = s]
    /\ UNCHANGED <<extensionDependencies, kind, events>>

Next ==
    \/ \E v \in Events : ActivateByEvent(v) \/ EventDone(v)
    \/ \E e \in Ids : DependencyDone(e) \/ ActivationEnds(e)

Spec == Init /\ [][Next]_vars

\* Promises continue, and the code of every extension ends its activation.
Progress ==
    \/ \E v \in Events : EventDone(v)
    \/ \E e \in Ids : DependencyDone(e) \/ ActivationEnds(e)

-----------------------------------------------------------------------------
(* Properties.                                                             *)

\* There is a way along dependencies that never leaves S.
Endless(S) == \A e \in S : ArcsOf(extensionDependencies, e) \cap S # {}

\* The registry loses the extensions from which dependencies lead into a
\* loop, and no others: what _findLoopingExtensions() computes by spreading
\* what is good is the largest set that one can follow dependencies in for
\* ever.
LoopsAreRemoved ==
    FindLoopingExtensions(extensionDependencies) = UNION {S \in SUBSET Ids : Endless(S)}

\* The code of an extension runs only when all its dependencies that have
\* code are activated, whichever event has asked for them, in whichever order
\* they end, and also if some of them have failed or are not installed.
DependenciesFirst ==
    \A e \in Extensions :
        kind[e] = "main" /\ operations[e].state \in {"activating", "activated"} =>
            \A d \in ToSet(extensionDependencies[e]) :
                kind[d] = "descriptive" \/ operations[d].state = "activated"

\* Every activation event ends, also if extensions fail.
EventsEnd == <>[](\A v \in Events : events[v] \in {"none", "done"})
=============================================================================
