---------------------------- MODULE ExtWorkspace ----------------------------
(***************************************************************************)
(* The ext-workspace-v1 protocol (miriway_ext_workspace_v1.cpp) between    *)
(* the workspace manager and the panels that show workspaces.              *)
(*                                                                         *)
(* Two threads.  The window manager changes the row of workspaces under    *)
(* its lock (as WorkspaceList promises), is told of outputs under the same *)
(* lock, and calls the on_ hooks: each updates all_the_workspaces or       *)
(* all_the_outputs under its mutex, releases it, and then queues a         *)
(* notification on the Wayland main loop.  The main loop delivers these in *)
(* order, and between them serves clients: bind sends a snapshot of the    *)
(* two, activate asks the manager to switch and waits for its lock.        *)
(*                                                                         *)
(* A definition whose name ends in _mutant is a wrong version of the next  *)
(* one: no action uses it, and the properties are shown to reject it.      *)
(***************************************************************************)
EXTENDS Rows, Integers, FiniteSets

CONSTANTS
    Workspace,      \* the pool of workspace objects
    Output,         \* the pool of outputs, one for each time one is plugged in
    Client,         \* the panels
    None,           \* end(), or nothing to post
    MaxQueue        \* bound on the notifications waiting for the main loop

ASSUME PoolAssumption == Workspace \cap Output = {} /\ IsFiniteSet(Workspace)
ASSUME QueueAssumption == MaxQueue \in Nat /\ MaxQueue >= 8

VARIABLES
    workspaces, active,     \* the manager's list, as in WorkspaceList
    todo,                   \* hook calls the lock holder has still to make
    posting,                \* registry updated, notification not yet queued
    registry,               \* all_the_workspaces
    outputs,                \* all_the_outputs
    queue,                  \* run_on_wayland_mainloop
    loop,                   \* where the main loop is in on_activate or bind
    target,                 \* the shared_ptr on_activate locked, the client bind serves
    bound,                  \* clients with an ExtWorkspaceManagerV1
    handles,                \* its list of handles, as the client was told of them
    discarded,              \* history: clients that have destroyed a handle
    wl_output               \* external: each client's wl_output, and whether its
                            \* workspace group has entered it

list == <<workspaces, active>>
manager == <<workspaces, active, todo>>
shared == <<posting, registry, outputs, queue>>
main == <<loop, target>>
clients == <<bound, handles, discarded, wl_output>>
vars == <<manager, shared, main, clients>>

Op == {"create", "activate", "deactivate", "destroy"}
OutputOp == {"output_create", "output_destroy"}
Hook == [op : Op, of : Workspace] \cup [op : OutputOp, of : Output]
ASSUME NoneAssumption == None \notin Workspace \cup Output \cup Hook
Told == {"none", "active", "hidden"}
Handle == [ws : Workspace, state : Told, number : Nat]
\* "late": bound when the client had already been told of the output.
Shown == {"unbound", "bound", "late", "entered"}

WL == INSTANCE WorkspaceList
-----------------------------------------------------------------------------
\* The window manager, one operation under its lock at a time.

LockFree == todo = <<>> /\ posting = None
Hk(op, x) == [op |-> op, of |-> x]

SwitchHooks_mutant(ws) ==                                  \* nothing deactivated
    <<Hk("activate", ws)>>
        \o IF active \in Listed(workspaces') THEN <<>> ELSE <<Hk("destroy", active)>>

\* change_active_workspace then, when the list lost it, on_workspace_destroy.
SwitchHooks(ws) ==
    <<Hk("deactivate", active), Hk("activate", ws)>>
        \o IF active \in Listed(workspaces') THEN <<>> ELSE <<Hk("destroy", active)>>

\* append_new_workspace has announced and activated the new one before that.
ExtendHooks(ws) == <<Hk("create", ws), Hk("activate", ws)>> \o SwitchHooks(ws)

\* Bound: a command leaves room for the three hooks of an activate request.
Room == Len(queue) + Len(todo') <= MaxQueue - 3

\* The main loop holds the lock itself while it serves an activate request.
SwitchCommand(ws) ==
    /\ LockFree /\ active # None
    /\ WL!Switch(ws)
    /\ todo' = SwitchHooks(ws) /\ Room
    /\ UNCHANGED <<shared, main, clients>>

\* An object not used again while anything still refers to it.
Unused(ws) ==
    /\ registry[ws] = "absent"
    /\ ws # target
    /\ \A i \in 1..Len(queue) : queue[i].of # ws
    /\ \A c \in Client : \A i \in 1..Len(handles[c]) : handles[c][i].ws # ws

ExtendCommand(ws) ==
    /\ LockFree /\ active # None
    /\ Unused(ws)
    /\ WL!Extend(ws)
    /\ todo' = ExtendHooks(ws) /\ Room
    /\ UNCHANGED <<shared, main, clients>>

\* advise_output_create and _delete.
OutputPlugged(o) ==
    /\ LockFree /\ active # None
    /\ o \notin outputs
    /\ \A i \in 1..Len(queue) : queue[i].of # o
    /\ \A c \in Client : wl_output[c][o] = "unbound"
    /\ todo' = <<Hk("output_create", o)>> /\ Room
    /\ UNCHANGED <<list, shared, main, clients>>

OutputUnplugged(o) ==
    /\ LockFree /\ active # None
    /\ o \in outputs
    /\ todo' = <<Hk("output_destroy", o)>> /\ Room
    /\ UNCHANGED <<list, shared, main, clients>>

Registered_mutant(h) ==                                    \* no state at first
    [registry EXCEPT ![h.of] =
        CASE h.op = "create" -> "none" [] h.op = "activate" -> "active"
          [] h.op = "deactivate" -> "hidden" [] h.op = "destroy" -> "absent"]

\* The first half of a hook, under all_the_workspaces_mutex.
Registered(h) ==
    CASE h.op = "create"     -> [registry EXCEPT ![h.of] = IF @ = "absent" THEN "hidden" ELSE @]
      [] h.op = "activate"   -> [registry EXCEPT ![h.of] = "active"]
      [] h.op = "deactivate" -> [registry EXCEPT ![h.of] = "hidden"]
      [] h.op = "destroy"    -> [registry EXCEPT ![h.of] = "absent"]

\* on_workspace_activate and _deactivate pass over a workspace not registered.
PassedOver(h) == h.op \in {"activate", "deactivate"} /\ registry[h.of] = "absent"

UpdateRegistry ==
    /\ posting = None /\ todo # <<>>
    /\ todo' = Tail(todo)
    /\ LET h == Head(todo) IN
       \/ /\ h.op \in OutputOp
          /\ outputs' = IF h.op = "output_create" THEN outputs \cup {h.of} ELSE outputs \ {h.of}
          /\ posting' = h
          /\ UNCHANGED registry
       \/ /\ h.op \in Op /\ ~PassedOver(h)
          /\ registry' = Registered(h)
          /\ posting' = h
          /\ UNCHANGED outputs
       \/ h.op \in Op /\ PassedOver(h) /\ UNCHANGED <<registry, outputs, posting>>
    /\ UNCHANGED <<list, queue, main, clients>>

PostNotification_mutant ==                                 \* lost while the loop is busy
    /\ posting # None
    /\ queue' = IF loop = "idle" THEN Append(queue, posting) ELSE queue
    /\ posting' = None
    /\ UNCHANGED <<manager, registry, outputs, main, clients>>

\* The second half, under all_the_globals_mutex: Global::workspace_..., output_...
PostNotification ==
    /\ posting # None
    /\ queue' = Append(queue, posting)
    /\ posting' = None
    /\ UNCHANGED <<manager, registry, outputs, main, clients>>
-----------------------------------------------------------------------------
\* ExtWorkspaceManagerV1: what one client's list of handles becomes.

workspace_created(hs, ws, state) ==
    Append(hs, [ws |-> ws, state |-> state, number |-> Len(hs) + 1])

\* The first handle of the workspace only: the loops break.
First(hs, ws) == {i \in 1..Len(hs) : hs[i].ws = ws /\ \A j \in 1..(i - 1) : hs[j].ws # ws}
state_sent_mutant(hs, ws, state) ==                        \* only if not yet known
    [i \in 1..Len(hs) |->
        IF i \in First(hs, ws) /\ hs[i].state = "none" THEN [hs[i] EXCEPT !.state = state] ELSE hs[i]]
state_sent(hs, ws, state) ==
    [i \in 1..Len(hs) |->
        IF i \in First(hs, ws) THEN [hs[i] EXCEPT !.state = state] ELSE hs[i]]

\* Every handle of the workspace is removed, those behind the first renumbered.
Others_mutant(hs, ws) ==                                   \* the first one only
    LET at == First(hs, ws) IN
    IF at = {} THEN hs
    ELSE LET i == CHOOSE i \in at : TRUE IN SubSeq(hs, 1, i - 1) \o SubSeq(hs, i + 1, Len(hs))
Others(hs, ws) == Selected(hs, {i \in 1..Len(hs) : hs[i].ws # ws})
workspace_destroyed_mutant(hs, ws) == Others(hs, ws)       \* not renumbered
workspace_destroyed(hs, ws) ==
    LET kept == Others(hs, ws)
    IN  [i \in 1..Len(kept) |->
            IF \E f \in First(hs, ws) : i >= f THEN [kept[i] EXCEPT !.number = i] ELSE kept[i]]

Notified(hs, m) ==
    CASE m.op = "create"     -> workspace_created(hs, m.of, "none")
      [] m.op = "activate"   -> state_sent(hs, m.of, "active")
      [] m.op = "deactivate" -> state_sent(hs, m.of, "hidden")
      [] m.op = "destroy"    -> workspace_destroyed(hs, m.of)
      [] m.op \in OutputOp   -> hs

\* for_each_binding: the wl_outputs the client has at this moment.
output_added(shown, os) ==
    [o \in Output |-> IF o \in os /\ shown[o] # "unbound" THEN "entered" ELSE shown[o]]
output_deleted_mutant(shown, o) == shown                   \* no output_leave
output_deleted(shown, o) ==
    IF shown[o] = "entered" THEN [shown EXCEPT ![o] = "bound"] ELSE shown

OutputNotified(shown, m) ==
    CASE m.op = "output_create"  -> output_added(shown, {m.of})
      [] m.op = "output_destroy" -> output_deleted(shown, m.of)
      [] m.op \in Op             -> shown

\* A lambda queued by Global, for every manager still there.
Deliver ==
    /\ loop = "idle" /\ queue # <<>>
    /\ queue' = Tail(queue)
    /\ handles' = [c \in Client |->
                      IF c \in bound THEN Notified(handles[c], Head(queue)) ELSE handles[c]]
    /\ wl_output' = [c \in Client |->
                      IF c \in bound THEN OutputNotified(wl_output[c], Head(queue)) ELSE wl_output[c]]
    /\ UNCHANGED <<manager, posting, registry, outputs, main, bound, discarded>>

\* Global::bind: the outputs under their mutex, ...
bind(c) ==
    /\ loop = "idle" /\ c \notin bound
    /\ loop' = "binding" /\ target' = c
    /\ bound' = bound \cup {c}
    /\ wl_output' = [wl_output EXCEPT ![c] = output_added(@, outputs)]
    /\ UNCHANGED <<manager, shared, handles, discarded>>

\* ... and then the workspaces under theirs, in the order of the map's keys.
Present == {ws \in Workspace : registry[ws] # "absent"}
Orders(S) == {o \in [1..Cardinality(S) -> S] : NoRepeats(o)}

BindReturns ==
    /\ loop = "binding"
    /\ loop' = "idle" /\ target' = None
    /\ \E order \in Orders(Present) :
          handles' = [handles EXCEPT ![target] =
              [i \in 1..Len(order) |->
                  [ws |-> order[i], state |-> registry[order[i]], number |-> i]]]
    /\ UNCHANGED <<manager, shared, bound, discarded, wl_output>>

Disconnect(c) ==
    /\ loop = "idle" /\ c \in bound
    /\ bound' = bound \ {c}
    /\ handles' = [handles EXCEPT ![c] = <<>>]
    /\ discarded' = discarded \ {c}
    /\ wl_output' = [wl_output EXCEPT ![c] = [o \in Output |-> "unbound"]]
    /\ UNCHANGED <<manager, shared, main>>

\* Is the manager of c still to be told of o?
ToBeTold(c, o) ==
    \/ c \notin bound
    \/ posting = Hk("output_create", o)
    \/ \E i \in 1..Len(queue) : queue[i] = Hk("output_create", o)

BindOutput(c, o) ==
    /\ loop = "idle"
    /\ o \in outputs /\ wl_output[c][o] = "unbound"
    /\ wl_output' = [wl_output EXCEPT ![c] =
                      [@ EXCEPT ![o] = IF ToBeTold(c, o) THEN "bound" ELSE "late"]]
    /\ UNCHANGED <<manager, shared, main, bound, handles, discarded>>

ReleaseOutput(c, o) ==
    /\ loop = "idle"
    /\ wl_output[c][o] # "unbound"
    /\ wl_output' = [wl_output EXCEPT ![c] = [@ EXCEPT ![o] = "unbound"]]
    /\ UNCHANGED <<manager, shared, main, bound, handles, discarded>>

\* ExtWorkspaceHandleV1::destroy: the pair goes, nothing is renumbered.
on_destroy(c, i) ==
    /\ loop = "idle" /\ c \in bound
    /\ handles' = [handles EXCEPT ![c] =
                      SubSeq(@, 1, i - 1) \o SubSeq(@, i + 1, Len(@))]
    /\ discarded' = discarded \cup {c}
    /\ UNCHANGED <<manager, shared, main, bound, wl_output>>

\* weak_ptr::lock succeeds while a shared_ptr is left: in the list, in the
\* registry, or captured by a queued lambda (workspace_destroyed holds a weak one).
Alive(ws) ==
    \/ ws \in Listed(workspaces) \cup Present
    \/ posting # None /\ posting.of = ws /\ posting.op # "destroy"
    \/ \E i \in 1..Len(queue) : queue[i].of = ws /\ queue[i].op # "destroy"

on_activate(c, i) ==
    /\ loop = "idle" /\ c \in bound
    /\ Alive(handles[c][i].ws)
    /\ Len(queue) + Len(todo) <= MaxQueue - 3      \* bound, as for Room
    /\ loop' = "waiting"
    /\ target' = handles[c][i].ws
    /\ UNCHANGED <<manager, shared, clients>>

\* The activator callback, once invoke_under_lock has the lock.
ActivatorCallback ==
    /\ loop = "waiting" /\ LockFree /\ active # None
    /\ loop' = "inside"
    /\ IF target = active THEN UNCHANGED manager
       ELSE /\ IF target \in Listed(workspaces)
               THEN WL!Switch(target)
               ELSE /\ active' = None
                    /\ workspaces' \in {workspaces, Erase(workspaces, active)}
            /\ todo' = SwitchHooks(target)
    /\ UNCHANGED <<shared, target, clients>>

CallbackReturns ==
    /\ loop = "inside" /\ LockFree
    /\ loop' = "idle"
    /\ target' = None
    /\ UNCHANGED <<manager, shared, clients>>
-----------------------------------------------------------------------------
Init ==
    /\ WL!Init
    /\ registry = [ws \in Workspace |-> IF ws = active THEN "active" ELSE "absent"]
    /\ todo = <<>> /\ posting = None /\ queue = <<>>
    /\ outputs = {}
    /\ loop = "idle" /\ target = None
    /\ bound = {} /\ handles = [c \in Client |-> <<>>] /\ discarded = {}
    /\ wl_output = [c \in Client |-> [o \in Output |-> "unbound"]]

Command ==
    \/ \E ws \in Workspace : SwitchCommand(ws) \/ ExtendCommand(ws)
    \/ \E o \in Output : OutputPlugged(o) \/ OutputUnplugged(o)

ClientRequest ==
    \/ \E c \in Client : bind(c) \/ Disconnect(c)
    \/ \E c \in Client, o \in Output : BindOutput(c, o) \/ ReleaseOutput(c, o)
    \/ \E c \in Client : \E i \in 1..Len(handles[c]) : on_destroy(c, i) \/ on_activate(c, i)

\* Beyond end() the manager's next operation is undefined: nothing is said of it.
Undefined == active = None /\ LockFree /\ UNCHANGED vars

Next ==
    \/ Command \/ UpdateRegistry \/ PostNotification
    \/ Deliver \/ BindReturns \/ ActivatorCallback \/ CallbackReturns
    \/ ClientRequest \/ Undefined

(* The holder of the lock finishes its operation.  The main loop serves the
   queue and every client in each of its iterations, so a waiting notification
   is served however busy clients are: strong fairness.  Nothing says that
   users issue commands or clients requests.                                *)
Fairness ==
    /\ WF_vars(UpdateRegistry) /\ WF_vars(PostNotification)
    /\ WF_vars(ActivatorCallback) /\ WF_vars(CallbackReturns) /\ WF_vars(BindReturns)
    /\ SF_vars(Deliver)

Spec == Init /\ [][Next]_vars /\ Fairness
-----------------------------------------------------------------------------
TypeOK ==
    /\ workspaces \in Seq(Workspace) /\ active \in Workspace \cup {None}
    /\ todo \in Seq(Hook) /\ posting \in Hook \cup {None}
    /\ registry \in [Workspace -> {"absent", "active", "hidden"}]
    /\ outputs \subseteq Output
    /\ queue \in Seq(Hook)
    /\ loop \in {"idle", "binding", "waiting", "inside"}
    /\ target \in Workspace \cup Client \cup {None}
    /\ bound \subseteq Client /\ handles \in [Client -> Seq(Handle)]
    /\ discarded \subseteq bound
    /\ wl_output \in [Client -> [Output -> Shown]]

\* active_workspace_ always points at an element of the list.
ActiveIsListed == active \in Listed(workspaces)

\* Between two operations of the manager the registry, from which a new client
\* is told everything, is the manager's list with its one active workspace.
RegistryFollowsList ==
    LockFree /\ active # None =>
        /\ Present = Listed(workspaces)
        /\ \A ws \in Present : registry[ws] = "active" <=> ws = active

\* What a client has been told agrees with the registry: each workspace it has
\* a handle for exists and, unless the client destroyed handles, each workspace
\* has one and its first handle shows its state.
Agrees(c) ==
    LET hs == handles[c] IN
    /\ \A i \in 1..Len(hs) : hs[i].ws \in Present
    /\ c \notin discarded =>
          \A ws \in Present : \E i \in First(hs, ws) : hs[i].state = registry[ws]

\* However bind, the two halves of each hook and the queue interleave, a
\* client agrees with the registry once the manager and the queue are at rest.
AgreesAtRest ==
    LockFree /\ queue = <<>> /\ loop # "binding" => \A c \in bound : Agrees(c)

\* A handle of a workspace no longer registered is about to be removed: no
\* panel shows a dead workspace for ever.
RemovalPending ==
    \A c \in bound : \A i \in 1..Len(handles[c]) :
        LET gone == Hk("destroy", handles[c][i].ws) IN
        registry[handles[c][i].ws] = "absent" =>
            posting = gone \/ \E j \in 1..Len(queue) : queue[j] = gone

\* The numbers shown are 1, 2, ... in the order of the handles, for a client
\* that keeps its handles; renumbering happens only when a workspace goes.
Numbered ==
    \A c \in bound \ discarded : \A i \in 1..Len(handles[c]) : handles[c][i].number = i

\* Once the user stops changing workspaces, every client comes to agree with
\* the registry and stays so, whatever clients keep doing.
Converges ==
    [](active # None) /\ <>[][UNCHANGED list]_vars => <>[](\A c \in bound : loop = "binding" \/ Agrees(c))

\* The outputs shown to a client: once the manager and the queue are at rest
\* its group has left every output that is gone, and has entered every one
\* whose wl_output the client had in time.
OutputsShown ==
    LockFree /\ queue = <<>> =>
        \A c \in bound, o \in Output :
            /\ o \in outputs => wl_output[c][o] # "bound"
            /\ o \notin outputs => wl_output[c][o] # "entered"

\* The invariant of the proofs.

\* The notifications on their way: queued, and the one about to be.
Pending == IF posting = None THEN queue ELSE Append(queue, posting)

Has(hooks, h) == \E j \in 1..Len(hooks) : hooks[j] = h
LastAbout(hooks, j) == \A k \in 1..Len(hooks) : k > j => hooks[k].of # hooks[j].of
FirstAbout(hooks, j) == \A k \in 1..Len(hooks) : k < j => hooks[k].of # hooks[j].of

\* What the registry has of a workspace after a hook.
Leaves(op) ==
    IF op = "activate" THEN "active" ELSE IF op = "destroy" THEN "absent" ELSE "hidden"

\* The list has no workspace twice, and the active one.
ListSound == NoRepeats(workspaces) /\ (active # None => active \in Listed(workspaces))

\* What the registry should have of a workspace.
Standing(ws) ==
    IF ws = active THEN "active" ELSE IF ws \in Listed(workspaces) THEN "hidden" ELSE "absent"

\* After the hooks still to be made the registry is the list.
RegistryCatchesUp ==
    active # None =>
        /\ \A ws \in Workspace :
              (\A j \in 1..Len(todo) : todo[j].of # ws) => registry[ws] = Standing(ws)
        /\ \A j \in 1..Len(todo) : todo[j].op \in Op =>
              /\ LastAbout(todo, j) => Leaves(todo[j].op) = Standing(todo[j].of)
              /\ todo[j].op \in {"activate", "deactivate"} =>
                    registry[todo[j].of] # "absent" \/ todo[1] = Hk("create", todo[j].of)

\* A workspace is created first, known to nobody, and activated next; it is
\* destroyed last, while it is registered.
HooksInOrder ==
    \A j \in 1..Len(todo) :
        /\ todo[j].op = "create" =>
              /\ j = 1 /\ Len(todo) >= 2 /\ todo[2] = Hk("activate", todo[1].of)
              /\ registry[todo[1].of] = "absent"
              /\ \A k \in 1..Len(Pending) : Pending[k].of # todo[1].of
        /\ todo[j].op = "destroy" => j = Len(todo) /\ registry[todo[j].of] # "absent"
        /\ todo[j].op = "output_create" =>
              /\ j = 1 /\ todo[j].of \notin outputs
              /\ \A k \in 1..Len(Pending) : Pending[k].of # todo[j].of

\* The last notification on its way about a workspace says what the registry
\* has; its creation comes first, and its removal last.
NotificationsTrue ==
    \A j \in 1..Len(Pending) :
        /\ Pending[j].op \in Op /\ LastAbout(Pending, j) =>
              registry[Pending[j].of] = Leaves(Pending[j].op)
        /\ Pending[j].op = "create" =>
              /\ FirstAbout(Pending, j)
              /\ LastAbout(Pending, j) => todo # <<>> /\ todo[1] = Hk("activate", Pending[j].of)
        /\ Pending[j].op = "destroy" => LastAbout(Pending, j)

\* After the notifications on their way a client's handles are the registry.
HandlesCatchUp ==
    /\ \A c \in Client \ bound : handles[c] = <<>>
    /\ \A c \in bound :
        /\ \A i \in 1..Len(handles[c]) :
              registry[handles[c][i].ws] = "absent" =>
                  Has(Pending, Hk("destroy", handles[c][i].ws))
        /\ loop = "binding" /\ target = c => handles[c] = <<>>
        /\ c \notin discarded /\ ~(loop = "binding" /\ target = c) =>
              \A ws \in Present :
                  /\ \/ Has(Pending, Hk("create", ws))
                     \/ \E i \in 1..Len(handles[c]) : handles[c][i].ws = ws
                  /\ \/ Has(Pending, Hk("activate", ws)) \/ Has(Pending, Hk("deactivate", ws))
                     \/ todo # <<>> /\ todo[1] = Hk("activate", ws)
                     \/ \E i \in First(handles[c], ws) : handles[c][i].state = registry[ws]

\* So is what its group has entered.
OutputsCatchUp ==
    /\ \A j \in 1..Len(Pending) :
          /\ Pending[j].op = "output_create" /\ Pending[j].of \notin outputs =>
                \E k \in (j + 1)..Len(Pending) : Pending[k] = Hk("output_destroy", Pending[j].of)
          /\ Pending[j].op = "output_destroy" => Pending[j].of \notin outputs
    /\ \A c \in Client, o \in Output :
          /\ wl_output[c][o] = "entered" => c \in bound
          /\ c \in bound /\ o \in outputs /\ wl_output[c][o] = "bound" =>
                Has(Pending, Hk("output_create", o))
          /\ wl_output[c][o] = "entered" /\ o \notin outputs =>
                Has(Pending, Hk("output_destroy", o))

\* What the main loop is at.
LoopSound ==
    /\ loop = "binding" => target \in bound
    /\ loop \in {"waiting", "inside"} => target \in Workspace

IInv ==
    /\ TypeOK /\ ListSound /\ LoopSound /\ Numbered
    /\ RegistryCatchesUp /\ HooksInOrder /\ NotificationsTrue
    /\ HandlesCatchUp /\ OutputsCatchUp
-----------------------------------------------------------------------------
\* "After a client binds the ext_workspace_manager_v1, each workspace will be
\* sent via the workspace event": no client has two handles for one workspace.
OneHandleEach ==
    \A c \in bound : \A i, j \in 1..Len(handles[c]) :
        handles[c][i].ws = handles[c][j].ws => i = j

\* "This event is emitted whenever an output is assigned to the workspace group
\* or a new wl_output object is bound by the client": at rest the group has
\* entered every wl_output of an output that is there.
EveryOutputEntered ==
    LockFree /\ queue = <<>> =>
        \A c \in bound, o \in outputs : wl_output[c][o] \in {"unbound", "entered"}
=============================================================================
