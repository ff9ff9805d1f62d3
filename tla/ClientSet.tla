------------------------------- MODULE ClientSet -------------------------------
(***************************************************************************)
(* nobox_core::ClientSet: the managed clients, their management and        *)
(* stacking orders, the workspaces, the per-workspace focus histories and  *)
(* the focused client.  One action per mutating method; each action is     *)
(* the whole method, the focus recovery it ends with included.             *)
(*                                                                         *)
(* The data of a client is cut down to what these methods read.  Geometry, *)
(* maximize, fullscreen and decorations are in WindowPresentation, the     *)
(* policy order computed from `stacking` in PolicyStacking.                *)
(***************************************************************************)
EXTENDS UniqueSeqs

CONSTANTS
  IdOrder,         \* the client identifiers in ascending order (BTreeMap order)
  Groups,          \* application groups
  MaxWorkspaces,   \* the bound the backends put on workspace_count
  Policies,        \* the ClientPolicy values in use: [role, focusable, titlebar]
  Presentations,   \* the ClientPresentation values in use: [skipTaskbar, urgent]
  Relations,       \* the relationships in use: [transientFor, group, modal]
  WorkspaceRequests, \* the assignments asked for, valid or not
  IconicModes,     \* the iconic states asked for
  StackingReports, \* the orders a display backend may report
  NoClient, NoTransient, GroupTransient, NoGroup, AllWorkspaces

Clients == Members(IdOrder)
Roles == {"Normal", "Dialog", "Desktop", "Dock", "Splash"}
WorkspaceIds == 0..(MaxWorkspaces - 1)
Assignments == WorkspaceIds \cup {AllWorkspaces}
Transients == Clients \cup {NoTransient, GroupTransient}

PolicyType == [role : Roles, focusable : BOOLEAN, titlebar : BOOLEAN]
PresentationType == [skipTaskbar : BOOLEAN, urgent : BOOLEAN]
RelationType ==
  [transientFor : Transients, group : Groups \cup {NoGroup}, modal : BOOLEAN]

ASSUME IdOrderAssumption == IdOrder \in Seq(Clients) /\ Unique(IdOrder)
ASSUME WorkspacesAssumption == MaxWorkspaces \in Nat \ {0}
ASSUME ValuesAssumption ==
  /\ Policies \subseteq PolicyType
  /\ Presentations \subseteq PresentationType
  /\ Relations \subseteq RelationType
  /\ WorkspaceRequests \subseteq Assignments
  /\ IconicModes \subseteq BOOLEAN
  /\ StackingReports \subseteq Seq(Clients)
ASSUME SentinelsAssumption ==
  /\ NoClient \notin Clients
  /\ NoTransient \notin Clients /\ GroupTransient \notin Clients
  /\ AllWorkspaces \notin Nat

ClientType ==
  [workspace : Assignments, iconic : BOOLEAN, shaded : BOOLEAN,
   policy : Policies, presentation : Presentations,
   transientFor : Transients, group : Groups \cup {NoGroup}, modal : BOOLEAN]

VARIABLES
  clients,          \* the managed clients: a map from identifier to ClientType
  managementOrder,  \* identifiers, oldest first
  stacking,         \* identifiers, bottom first
  workspaceCount,
  currentWorkspace,
  lastWorkspace,
  focusOrder,       \* one history per workspace, most recently used last
  focused,
  showingDesktop

workspaces == <<workspaceCount, currentWorkspace, lastWorkspace>>
vars == <<clients, managementOrder, stacking, workspaces, focusOrder, focused,
          showingDesktop>>

Managed == DOMAIN clients

TypeOK ==
  /\ Managed \subseteq Clients
  /\ clients \in [Managed -> ClientType]
  /\ managementOrder \in Seq(Clients)
  /\ stacking \in Seq(Clients)
  /\ workspaceCount \in 1..MaxWorkspaces
  /\ currentWorkspace \in WorkspaceIds
  /\ lastWorkspace \in WorkspaceIds
  /\ focusOrder \in [WorkspaceIds -> Seq(Clients)]
  /\ focused \in Clients \cup {NoClient}
  /\ showingDesktop \in BOOLEAN

(* ---- Visibility and focus policy ---- *)
IsVisible(c) ==
  /\ clients[c].workspace \in {currentWorkspace, AllWorkspaces}
  /\ showingDesktop => clients[c].policy.role \in {"Desktop", "Dock"}

\* The clients recover_focus and focus accept.
Usable ==
  {c \in Managed : ~clients[c].iconic /\ clients[c].policy.focusable /\ IsVisible(c)}

\* is_automatic_focus_candidate
AutomaticCandidates ==
  {c \in Usable : \/ ~clients[c].presentation.skipTaskbar
                  \/ clients[c].modal
                  \/ clients[c].presentation.urgent
                  \/ clients[c].policy.role = "Dialog"}

\* Mutant: no stacking fallback after the history.
RecoveredFromHistory ==
  IF Members(focusOrder[currentWorkspace]) \cap Usable # {}
  THEN LastIn(focusOrder[currentWorkspace], Usable) ELSE NoClient

\* recover_focus: the most recent usable client of this workspace, else the
\* topmost one.
RecoveredFocus ==
  LET history == focusOrder[currentWorkspace] IN
  IF Members(history) \cap Usable # {} THEN LastIn(history, Usable)
  ELSE IF Members(stacking) \cap Usable # {} THEN LastIn(stacking, Usable)
  ELSE NoClient

\* The modal transients that block a client from being focused itself.
Blocking(target) ==
  {m \in Managed :
     /\ clients[m].modal /\ ~clients[m].iconic /\ IsVisible(m)
     /\ \/ clients[m].transientFor = target
        \/ /\ clients[m].transientFor = GroupTransient
           /\ clients[m].group # NoGroup
           /\ clients[m].group = clients[target].group}

\* Mutant: a dialog's own dialogs are not followed.
FocusTargetOnce(requested) ==
  IF requested \in Managed /\ ~clients[requested].iconic /\ IsVisible(requested)
  THEN LET next == Members(stacking) \cap (Blocking(requested) \ {requested})
       IN IF next = {} THEN requested ELSE LastIn(stacking, next)
  ELSE NoClient

\* The loop of focus_target, which goes to the topmost blocking transient not visited
\* yet; `path` lists the clients visited, in their order.
FollowModal[path \in Seq(Clients)] ==
  LET target == path[Len(path)]
      next == Members(stacking) \cap (Blocking(target) \ Members(path))
  IN IF next = {} THEN target ELSE FollowModal[Append(path, LastIn(stacking, next))]

FocusTarget(requested) ==
  IF requested \in Managed /\ ~clients[requested].iconic /\ IsVisible(requested)
  THEN FollowModal[<<requested>>]
  ELSE NoClient

\* Mutants: an assignment is taken as it comes; it is always recorded in the
\* history of the current workspace.
ValidAssignmentUnchecked(a) == a
HistoryOfCurrent(a) == currentWorkspace

ValidAssignment(a) ==
  IF a # AllWorkspaces /\ a >= workspaceCount THEN currentWorkspace ELSE a

\* The history a client with this assignment is recorded in.
HistoryOf(a) == IF a = AllWorkspaces THEN currentWorkspace ELSE a

\* record_workspace_membership, for the clients of the sequence in turn.
RecordMembership(moved, a) ==
  [w \in WorkspaceIds |->
     LET others == Keep(focusOrder[w], Clients \ Members(moved))
     IN IF w = HistoryOf(a) THEN others \o moved ELSE others]

(* ---- Specific-transient families ---- *)
\* family_root: follow managed specific parents, once around a cycle at most.
FamilyRoot(c) ==
  LET climb[d \in Clients, visited \in SUBSET Clients] ==
        LET parent == clients[d].transientFor
        IN IF d \in visited \/ parent \notin Managed THEN d
           ELSE climb[parent, visited \cup {d}]
  IN climb[c, {}]

Children(c) == {d \in Managed : clients[d].transientFor = c}

\* The group transients that follow an ordinary root of their group.
GroupFollowers(root) ==
  IF /\ clients[root].transientFor # GroupTransient
     /\ clients[root].policy.role \notin {"Desktop", "Dock", "Splash"}
     /\ clients[root].group # NoGroup
  THEN {d \in Managed : /\ clients[d].group = clients[root].group
                        /\ clients[d].transientFor = GroupTransient}
  ELSE {}

\* transient_descendants: the depth-first order in which `pending` is popped.
TransientDescendants(root) ==
  LET visit[pending \in Seq(Clients), seen \in SUBSET Clients] ==
        IF pending = <<>> THEN <<>>
        ELSE LET next == pending[Len(pending)]
                 rest == SubSeq(pending, 1, Len(pending) - 1)
             IN IF next \in seen THEN visit[rest, seen]
                ELSE <<next>> \o visit[rest \o Keep(managementOrder, Children(next)),
                                       seen \cup {next}]
  IN visit[<<root>> \o Keep(managementOrder, GroupFollowers(root)), {}]

(* ---- Initial state: ClientSet::default ---- *)
Init ==
  /\ clients = <<>>
  /\ managementOrder = <<>>
  /\ stacking = <<>>
  /\ workspaceCount = 1
  /\ currentWorkspace = 0
  /\ lastWorkspace = 0
  /\ focusOrder = [w \in WorkspaceIds |-> <<>>]
  /\ focused = NoClient
  /\ showingDesktop = FALSE

(* ---- Management ---- *)
\* manage, for a client that is not managed yet: it joins the recent end of
\* its history without being focused.
Manage(c, client) ==
  /\ c \notin Managed
  /\ LET placed == [client EXCEPT !.workspace = ValidAssignment(client.workspace)]
         w == HistoryOf(placed.workspace)
     IN /\ clients' = [d \in Managed \cup {c} |-> IF d = c THEN placed ELSE clients[d]]
        /\ focusOrder' = [focusOrder EXCEPT ![w] = Append(@, c)]
  /\ managementOrder' = Append(managementOrder, c)
  /\ stacking' = Append(stacking, c)
  /\ UNCHANGED <<workspaces, focused, showingDesktop>>

\* manage, for a client that is already managed.
Refresh(c, client) ==
  LET a == ValidAssignment(client.workspace)
      moved == a # clients[c].workspace
  IN /\ c \in Managed
     /\ clients' = [clients EXCEPT ![c] = [client EXCEPT !.workspace = a]]
     /\ focusOrder' = IF moved THEN RecordMembership(<<c>>, a) ELSE focusOrder
     /\ UNCHANGED <<managementOrder, stacking, workspaces, showingDesktop>>
     /\ focused' = IF moved THEN RecoveredFocus' ELSE focused

Unmanage(c) ==
  /\ c \in Managed
  /\ clients' = [d \in Managed \ {c} |->
                   IF clients[d].transientFor = c
                   THEN [clients[d] EXCEPT !.transientFor = NoTransient] ELSE clients[d]]
  /\ managementOrder' = Without(managementOrder, c)
  /\ stacking' = Without(stacking, c)
  /\ focusOrder' = [w \in WorkspaceIds |-> Without(focusOrder[w], c)]
  /\ UNCHANGED <<workspaces, showingDesktop>>
  /\ focused' = IF focused = c THEN RecoveredFocus' ELSE focused

(* ---- Focus ---- *)
\* The common end of focus and focus_fallback_from.
TakeFocus(id) ==
  /\ focused' = id
  /\ focusOrder' = [focusOrder EXCEPT ![currentWorkspace] = MoveToEnd(@, id)]

Focus(requested) ==
  /\ FocusTarget(requested) \in Usable
  /\ TakeFocus(FocusTarget(requested))
  /\ UNCHANGED <<clients, managementOrder, stacking, workspaces, showingDesktop>>

FocusToBottom(c) ==
  /\ c \in Managed
  /\ focusOrder' = [focusOrder EXCEPT ![currentWorkspace] = MoveToFront(@, c)]
  /\ UNCHANGED <<clients, managementOrder, stacking, workspaces, focused, showingDesktop>>

\* The requests focus_fallback_from tries, most preferred last, and those of
\* them whose focus target it accepts.
FallbackRequests == stacking \o focusOrder[currentWorkspace]
FallbackTargets(old) ==
  {c \in AutomaticCandidates : ~clients[c].shaded} \ {old}
\* Mutant: the request is examined instead of the client it leads to.
FallbackUnresolved(old) ==
  LET accepted == Members(FallbackRequests) \cap FallbackTargets(old)
  IN IF accepted = {} THEN NoClient ELSE LastIn(FallbackRequests, accepted)
Fallback(old) ==
  LET accepted == {c \in Members(FallbackRequests) :
                     FocusTarget(c) \in FallbackTargets(old)}
  IN IF accepted = {} THEN NoClient
     ELSE FocusTarget(LastIn(FallbackRequests, accepted))

\* The fallback found is focused through focus, which resolves its modal
\* transients a second time.
FocusFallbackFrom(old) ==
  /\ focused = old
  /\ old # NoClient
  /\ LET target == Fallback(old) IN
     IF target # NoClient /\ FocusTarget(target) \in Usable
     THEN TakeFocus(FocusTarget(target))
     ELSE focused' = NoClient /\ UNCHANGED focusOrder
  /\ UNCHANGED <<clients, managementOrder, stacking, workspaces, showingDesktop>>

ClearFocus ==
  /\ focused' = NoClient
  /\ UNCHANGED <<clients, managementOrder, stacking, workspaces, focusOrder, showingDesktop>>

SetShowingDesktop(showing) ==
  /\ showing # showingDesktop
  /\ showingDesktop' = showing
  /\ UNCHANGED <<clients, managementOrder, stacking, workspaces, focusOrder>>
  /\ focused' = RecoveredFocus'

(* ---- Workspaces ---- *)
SwitchWorkspace(w) ==
  /\ w < workspaceCount
  /\ w # currentWorkspace
  /\ lastWorkspace' = currentWorkspace
  /\ currentWorkspace' = w
  /\ UNCHANGED <<clients, managementOrder, stacking, workspaceCount, focusOrder,
                 showingDesktop>>
  /\ focused' = RecoveredFocus'

\* clients.values_mut() with a new workspace for every fixed assignment.
MapWorkspaces(f) ==
  [c \in Managed |->
     IF clients[c].workspace = AllWorkspaces THEN clients[c]
     ELSE [clients[c] EXCEPT !.workspace = f[@]]]

\* set_workspace_count: the clients of dropped workspaces go to the last one
\* kept, in identifier order; the dropped histories go altogether.
SetWorkspaceCount(requested) ==
  LET count == IF requested = 0 THEN 1 ELSE requested
      last == count - 1
      clamp == [w \in WorkspaceIds |-> IF w >= count THEN last ELSE w]
      moved == {c \in Managed : /\ clients[c].workspace # AllWorkspaces
                                /\ clients[c].workspace >= count}
  IN /\ count # workspaceCount
     /\ workspaceCount' = count
     /\ currentWorkspace' = clamp[currentWorkspace]
     /\ lastWorkspace' = clamp[lastWorkspace]
     /\ clients' = MapWorkspaces(clamp)
     /\ focusOrder' =
          [w \in WorkspaceIds |->
             IF w >= count THEN <<>>
             ELSE Keep(focusOrder[w], Clients \ moved)
                  \o (IF w = last THEN Keep(IdOrder, moved) ELSE <<>>)]
     /\ UNCHANGED <<managementOrder, stacking, showingDesktop>>
     /\ focused' = RecoveredFocus'

\* The limit on the count is the backends'; the method itself only refuses to
\* wrap around.
RoomForWorkspace == workspaceCount < MaxWorkspaces

InsertWorkspace(index) ==
  /\ RoomForWorkspace
  /\ index <= workspaceCount
  /\ LET shift == [w \in WorkspaceIds |-> IF w >= index THEN w + 1 ELSE w]
     IN /\ clients' = MapWorkspaces(shift)
        /\ lastWorkspace' = shift[lastWorkspace]
  /\ currentWorkspace' =
       IF currentWorkspace > index THEN currentWorkspace + 1 ELSE currentWorkspace
  /\ focusOrder' = [w \in WorkspaceIds |->
                      IF w < index THEN focusOrder[w]
                      ELSE IF w = index THEN <<>> ELSE focusOrder[w - 1]]
  /\ workspaceCount' = workspaceCount + 1
  /\ UNCHANGED <<managementOrder, stacking, showingDesktop>>
  /\ focused' = RecoveredFocus'

\* remap_removed_workspace
RemapRemoved(assigned, removed, remaining) ==
  IF assigned > removed THEN assigned - 1
  ELSE IF assigned >= remaining THEN remaining - 1 ELSE assigned

\* remove_workspace: the removed workspace and the neighbour it merges with
\* are consecutive; their histories become one, the lower one first.
RemoveWorkspace(index) ==
  /\ workspaceCount > 1
  /\ index < workspaceCount
  /\ LET remaining == workspaceCount - 1
         remap == [w \in WorkspaceIds |-> RemapRemoved(w, index, remaining)]
         merged == remap[index]
         lower == focusOrder[merged]
     IN /\ clients' = MapWorkspaces(remap)
        /\ focusOrder' =
             [w \in WorkspaceIds |->
                IF w < merged THEN focusOrder[w]
                ELSE IF w = merged
                     THEN lower \o Keep(focusOrder[merged + 1], Clients \ Members(lower))
                ELSE IF w < remaining THEN focusOrder[w + 1] ELSE <<>>]
        /\ currentWorkspace' = remap[currentWorkspace]
        /\ lastWorkspace' = remap[lastWorkspace]
        /\ workspaceCount' = remaining
  /\ UNCHANGED <<managementOrder, stacking, showingDesktop>>
  /\ focused' = RecoveredFocus'

AssignWorkspace(c, requested) ==
  LET a == ValidAssignment(requested) IN
  /\ c \in Managed
  /\ clients[c].workspace # a
  /\ clients' = [clients EXCEPT ![c].workspace = a]
  /\ focusOrder' = RecordMembership(<<c>>, a)
  /\ UNCHANGED <<managementOrder, stacking, workspaces, showingDesktop>>
  /\ focused' = RecoveredFocus'

\* assign_workspace_family: `changed` lists the members that move, in the
\* order of the family.
AssignWorkspaceFamily(c, requested) ==
  LET a == ValidAssignment(requested)
      family == TransientDescendants(FamilyRoot(c))
      moving == {m \in Managed : m \in Members(family) /\ clients[m].workspace # a}
  IN /\ c \in Managed
     /\ moving # {}
     /\ \E changed \in Listings(moving) :
          /\ changed = Keep(family, moving)
          /\ clients' = [m \in Managed |->
                           IF m \in moving THEN [clients[m] EXCEPT !.workspace = a]
                           ELSE clients[m]]
          /\ focusOrder' = RecordMembership(changed, a)
     /\ UNCHANGED <<managementOrder, stacking, workspaces, showingDesktop>>
     /\ focused' = RecoveredFocus'

(* ---- Stacking ---- *)
Raise(c) ==
  /\ c \in Managed
  /\ stacking' = MoveToEnd(stacking, c)
  /\ UNCHANGED <<clients, managementOrder, workspaces, focusOrder, focused, showingDesktop>>

Lower(c) ==
  /\ c \in Managed
  /\ stacking' = MoveToFront(stacking, c)
  /\ UNCHANGED <<clients, managementOrder, workspaces, focusOrder, focused, showingDesktop>>

SyncStacking(order) ==
  LET observed == KeepOnce(order, Managed)
  IN /\ stacking' = Keep(stacking, Clients \ Members(observed)) \o observed
     /\ UNCHANGED <<clients, managementOrder, workspaces, focusOrder, focused, showingDesktop>>

(* ---- Client attributes ---- *)
\* A change of one client's data and of nothing else.
Update(c, client) ==
  /\ clients' = [clients EXCEPT ![c] = client]
  /\ UNCHANGED <<managementOrder, stacking, workspaces, focusOrder, showingDesktop>>

SetIconic(c, iconic) ==
  /\ c \in Managed
  /\ Update(c, [clients[c] EXCEPT !.iconic = iconic])
  /\ focused' = IF iconic /\ focused = c THEN RecoveredFocus' ELSE focused

\* set_shaded; its fullscreen condition is in WindowPresentation.
SetShaded(c, shaded) ==
  /\ c \in Managed
  /\ shaded => clients[c].policy.titlebar
  /\ clients[c].shaded # shaded
  /\ Update(c, [clients[c] EXCEPT !.shaded = shaded])
  /\ UNCHANGED focused

SetPolicy(c, policy) ==
  /\ c \in Managed
  /\ clients[c].policy # policy
  /\ Update(c, [clients[c] EXCEPT !.policy = policy])
  /\ UNCHANGED focused

SetPresentation(c, presentation) ==
  /\ c \in Managed
  /\ clients[c].presentation # presentation
  /\ Update(c, [clients[c] EXCEPT !.presentation = presentation])
  /\ UNCHANGED focused

RelationOf(client) ==
  [transientFor |-> client.transientFor, group |-> client.group, modal |-> client.modal]

\* set_relationships drops a client's claim to be its own parent.
SetRelationships(c, relation) ==
  LET parent == IF relation.transientFor = c THEN NoTransient ELSE relation.transientFor
      kept == [relation EXCEPT !.transientFor = parent]
  IN /\ c \in Managed
     /\ kept # RelationOf(clients[c])
     /\ Update(c, [clients[c] EXCEPT !.transientFor = kept.transientFor,
                                     !.group = kept.group, !.modal = kept.modal])
     /\ UNCHANGED focused

SetModal(c, modal) ==
  /\ c \in Managed
  /\ Update(c, [clients[c] EXCEPT !.modal = modal])
  /\ UNCHANGED focused

(* ---- The specification: a backend calls any method at any time ---- *)
\* The clients a backend may manage.  Whether a client without a titlebar can
\* start out shaded is a question for WindowPresentation.
NewClients ==
  {client \in
     {[workspace |-> a, iconic |-> i, shaded |-> s, policy |-> p, presentation |-> n,
       transientFor |-> r.transientFor, group |-> r.group, modal |-> r.modal] :
        a \in WorkspaceRequests, i \in IconicModes, s \in BOOLEAN, p \in Policies,
        n \in Presentations, r \in Relations} :
     client.shaded => client.policy.titlebar}

\* No backend manages a managed client again; of the fields that would be
\* replaced, only the workspace has further consequences.
Reassigned(c, a) == [clients[c] EXCEPT !.workspace = a]

ManagementStep ==
  \E c \in Clients :
    \/ \E client \in NewClients : Manage(c, client)
    \/ \E a \in WorkspaceRequests : c \in Managed /\ Refresh(c, Reassigned(c, a))
    \/ Unmanage(c)

FocusStep ==
  \/ \E c \in Clients : Focus(c) \/ FocusToBottom(c) \/ FocusFallbackFrom(c)
  \/ ClearFocus
  \/ \E showing \in BOOLEAN : SetShowingDesktop(showing)

WorkspaceStep ==
  \/ \E w \in WorkspaceIds : SwitchWorkspace(w) \/ RemoveWorkspace(w)
  \/ \E w \in 0..MaxWorkspaces : InsertWorkspace(w) \/ SetWorkspaceCount(w)
  \/ \E c \in Clients, a \in WorkspaceRequests :
       AssignWorkspace(c, a) \/ AssignWorkspaceFamily(c, a)

StackingStep ==
  \/ \E c \in Clients : Raise(c) \/ Lower(c)
  \/ \E order \in StackingReports : SyncStacking(order)

AttributeStep ==
  \E c \in Clients :
    \/ \E b \in IconicModes : SetIconic(c, b)
    \/ \E b \in BOOLEAN : SetShaded(c, b)
    \/ \E b \in {r.modal : r \in Relations} : SetModal(c, b)
    \/ \E p \in Policies : SetPolicy(c, p)
    \/ \E n \in Presentations : SetPresentation(c, n)
    \/ \E r \in Relations : SetRelationships(c, r)

Next ==
  ManagementStep \/ FocusStep \/ WorkspaceStep \/ StackingStep \/ AttributeStep

Spec == Init /\ [][Next]_vars

(* ---- Safety ---- *)
\* The three kinds of list agree with the map of managed clients: both orders
\* list every managed client once, no history repeats a client or outlives it,
\* and a dropped workspace leaves no history behind.
OrdersMatchManaged ==
  Enumerates(managementOrder, Managed) /\ Enumerates(stacking, Managed)
HistoriesMatchManaged ==
  \A w \in WorkspaceIds :
    /\ Unique(focusOrder[w])
    /\ Members(focusOrder[w]) \subseteq Managed
    /\ w >= workspaceCount => focusOrder[w] = <<>>
\* Every workspace index in use names an existing workspace, through any
\* sequence of insertions, removals, merges and count changes.
WorkspacesExist ==
  /\ currentWorkspace < workspaceCount
  /\ lastWorkspace < workspaceCount
  /\ \A c \in Managed :
       clients[c].workspace # AllWorkspaces => clients[c].workspace < workspaceCount
FocusIsManaged == focused # NoClient => focused \in Managed

Consistent ==
  OrdersMatchManaged /\ HistoriesMatchManaged /\ WorkspacesExist /\ FocusIsManaged

\* A client that belongs to one workspace is in that workspace's history, so
\* that switching there can find it: shifts, merges, reassignments and count
\* changes move the membership and the history entry together.
MembersRemembered ==
  \A c \in Managed :
    clients[c].workspace # AllWorkspaces => c \in Members(focusOrder[clients[c].workspace])

\* The operations that drop focus on purpose, and the one that changes what a
\* client may do and leaves the consequences to the backend.
MayLoseFocus ==
  \/ ClearFocus
  \/ \E c \in Clients : FocusFallbackFrom(c)
  \/ \E c \in Clients, p \in Policies : SetPolicy(c, p)

\* No other operation leaves the focus on a client that is hidden, iconic or
\* gone, and it gives the focus up only when nobody could take it.
FocusKept ==
  focused \in Usable => \/ focused' \in Usable'
                        \/ focused' = NoClient /\ Usable' = {}
FocusSurvives == [][FocusKept \/ MayLoseFocus]_vars

\* No client is, through its specific parents, its own ancestor.
SpecificForest ==
  \A S \in (SUBSET Managed) \ {{}} : \E c \in S : clients[c].transientFor \notin S
NoGroupModals ==
  \A c \in Managed : ~(clients[c].modal /\ clients[c].transientFor = GroupTransient)

\* Where modal dialogs form trees, a focus request ends at a client that no
\* modal dialog blocks, however the dialogs are stacked.
FocusReachesModal ==
  SpecificForest /\ NoGroupModals =>
    \A c \in Managed : FocusTarget(c) # NoClient => Blocking(FocusTarget(c)) = {}

\* Where modal dialogs form trees, focus_fallback_from ends at a client it may
\* choose (not the old one, not shaded, not skipped by the task list) or clears
\* the focus, although focus resolves the dialogs of its choice once more.
FallbackIsEligible ==
  \A old \in Clients :
    FocusFallbackFrom(old) => focused' \in FallbackTargets(old) \cup {NoClient}
FallbackEligibleInTrees ==
  [][SpecificForest /\ NoGroupModals => FallbackIsEligible]_vars
===============================================================================
