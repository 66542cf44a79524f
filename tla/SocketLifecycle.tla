-------------------------- MODULE SocketLifecycle --------------------------
(***************************************************************************)
(* The life of the two UDS names of a process, from the start of           *)
(* GrpcScanRuntime to its close or its drop (src/src/scan_runtime/         *)
(* server.rs).  Several processes use one socket directory, one after the  *)
(* other or at the same time, and each of them can be killed at any point. *)
(*                                                                         *)
(* Every call on the file system is a step of its own, because the         *)
(* directory is shared.  A process binds each listener under a temporary   *)
(* name, remembers the inode it finds there, and moves the name to its     *)
(* target without replacing anything.  The inode it remembers is its only  *)
(* token of ownership when it removes names later.  The number of an inode *)
(* can be given out again once it has neither a name nor an open listener. *)
(*                                                                         *)
(* An operator, who stands for everything outside the program, may put a   *)
(* file or a socket of his own at a target at any time, also between a     *)
(* process's look at the name and the unlink that follows it.              *)
(***************************************************************************)
EXTENDS Naturals, Sequences, FiniteSets

CONSTANTS Processes,    \* the processes, each of which runs once
          Ids,          \* the six digits of an instance id in a temporary name
          MaxInode,     \* bound: inodes of the directory's file system
          Unknown,      \* no inode read yet
          MaxFaults,    \* bound: calls that fail for no reason of the directory
          MaxOperator   \* bound: interventions of the operator

ASSUME SocketAssumption ==
    /\ MaxInode \in Nat /\ MaxFaults \in Nat /\ MaxOperator \in Nat
    /\ Unknown \notin 1..MaxInode /\ "sock" \notin Ids /\ "operator" \notin Processes

VARIABLES
    dir,        \* name -> what is there
    pc,         \* the next call of each process
    lane,       \* the lane that call is about
    ids,        \* the ids of a process's temporary names
    bound,      \* the inode each open listener is bound to
    identity,   \* the inode read back after bind: SocketIdentity
    todo,       \* the names still to be passed to remove_owned_socket
    why,        \* why a start was given up
    contested,  \* history: another process was at work on the same names
    missed,     \* history: names that a failed call kept a process from removing
    slipped,    \* history: the operator came between a process's look and its unlink
    faults, operator

vars == <<dir, pc, lane, ids, bound, identity, todo, why, contested, missed, slipped,
          faults, operator>>
process == <<ids, identity, bound>>
history == <<contested, missed, slipped, faults, operator>>

Lanes == 1..2
Target(l) == <<l, "sock">>
Temporary(p) == <<lane[p], ids[p]>>
Names == Lanes \X ({"sock"} \union Ids)

Absent == [kind |-> "none"]
Node(kind, inode, by) == [kind |-> kind, inode |-> inode, by |-> by]
MadeBy(n, who) == dir[n].kind # "none" /\ dir[n].by = who

Over == {"idle", "ended", "killed"}
Removing == {"removing", "unlinking"}
Starting(p) == pc[p] \notin Over \union Removing \union {"running"}

\* A name or an open listener keeps an inode from being given out again.
FreeInodes ==
    (1..MaxInode) \ ({dir[n].inode : n \in {m \in Names : dir[m].kind # "none"}}
                     \union UNION {{bound[p][l] : l \in Lanes} : p \in Processes})

\* File systems give out the lowest free number, so that it is reused early.
NextInode == CHOOSE i \in FreeInodes : \A j \in FreeInodes : i <= j

NoInodes == [l \in Lanes |-> Unknown]

Init ==
    /\ dir = [n \in Names |-> Absent]
    /\ pc = [p \in Processes |-> "idle"]
    /\ lane = [p \in Processes |-> 1]
    /\ ids = [p \in Processes |-> Unknown]
    /\ bound = [p \in Processes |-> NoInodes]
    /\ identity = [p \in Processes |-> NoInodes]
    /\ todo = [p \in Processes |-> <<>>]
    /\ why = [p \in Processes |-> "none"]
    /\ contested = [p \in Processes |-> FALSE]
    /\ missed = [p \in Processes |-> {}]
    /\ slipped = [p \in Processes |-> FALSE]
    /\ faults = 0 /\ operator = 0

----------------------------------------------------------------------------
(* The start.                                                              *)

\* The configuration is valid; the instance ids are drawn.
\* (One id stands for both lanes, whose names differ anyway.)  The names of p
\* are contested from here on by a process that starts later, and p's start
\* by one that is starting or ending now.
Start(p) ==
    /\ pc[p] = "idle"
    /\ pc' = [pc EXCEPT ![p] = "preflight"]
    /\ \E id \in Ids : ids' = [ids EXCEPT ![p] = id]
    /\ contested' = [q \in Processes |->
         IF q = p THEN \E r \in Processes : pc[r] \notin Over \union {"running"}
                  ELSE contested[q] \/ pc[q] \notin Over]
    /\ UNCHANGED <<dir, lane, bound, identity, todo, why, missed, slipped, faults, operator>>

\* What a process finds at a look, it unlinks in its next call.
Looks(p) ==
    /\ slipped' = [slipped EXCEPT ![p] = FALSE]
    /\ UNCHANGED <<contested, missed, faults, operator>>

\* The name that the next call of a process unlinks.
Unlinks(p, n) ==
    \/ pc[p] = "unlink" /\ n = Target(lane[p])
    \/ pc[p] = "unlinking" /\ n = Head(todo[p]).name

Step(p, next) == pc' = [pc EXCEPT ![p] = next]

\* The same call for the second lane, or what comes after both lanes.
Lanewise(p, again, after) ==
    /\ Step(p, IF lane[p] = 1 THEN again ELSE after)
    /\ lane' = [lane EXCEPT ![p] = 3 - lane[p]]

Owned(p, lanes) == [l \in 1..lanes |-> [name |-> Target(l), inode |-> identity[p][l]]]
OwnTemporary(p) == <<[name |-> Temporary(p), inode |-> identity[p][lane[p]]]>>

\* Seeded fault: the temporary name is forgotten when the rename fails.
RemovalsForgetting(p) ==
    CASE pc[p] \in {"preflight", "temporary", "inspect", "unlink"} -> <<>>
      [] pc[p] \in {"bind", "identify", "again", "publish", "verify"}
            -> Owned(p, lane[p] - 1)
      [] pc[p] = "chmod" -> OwnTemporary(p) \o Owned(p, lane[p] - 1)
      [] OTHER -> Owned(p, 2)

\* The names that a start given up at this point removes: those of the lanes
\* completed before, and the temporary one where its identity is certain.
Removals(p) ==
    CASE pc[p] \in {"preflight", "temporary", "inspect", "unlink"} -> <<>>
      [] pc[p] \in {"bind", "identify", "again", "verify"}
            -> Owned(p, lane[p] - 1)
      [] pc[p] \in {"chmod", "publish"} -> OwnTemporary(p) \o Owned(p, lane[p] - 1)
      [] OTHER -> Owned(p, 2)

\* The listener of this lane is dropped before anything is removed; earlier
\* ones live until the error is returned, except that a failing clock or
\* status drops both first.
GiveUp(p, reason) ==
    /\ todo' = [todo EXCEPT ![p] = Removals(p)]
    /\ bound' = [bound EXCEPT ![p] =
         IF pc[p] = "complete" THEN NoInodes ELSE [@ EXCEPT ![lane[p]] = Unknown]]
    /\ why' = [why EXCEPT ![p] = reason]
    /\ lane' = [lane EXCEPT ![p] = 1]
    /\ Step(p, "removing")
    /\ UNCHANGED <<dir, ids, identity>>

\* preflight_socket of both targets, before anything is changed.
Preflight(p) ==
    /\ pc[p] = "preflight"
    /\ IF dir[Target(lane[p])].kind = "file"
       THEN GiveUp(p, "foreign")
       ELSE /\ Lanewise(p, "preflight", "temporary")
            /\ UNCHANGED <<dir, todo, why, process>>
    /\ UNCHANGED history

PreflightTemporary(p) ==
    /\ pc[p] = "temporary"
    /\ IF dir[Temporary(p)].kind # "none"
       THEN GiveUp(p, "name")
       ELSE /\ Lanewise(p, "temporary", "inspect")
            /\ UNCHANGED <<dir, todo, why, process>>
    /\ UNCHANGED history

\* Seeded fault: whatever is at the target is taken for a stale socket.
InspectAnything(p) ==
    /\ pc[p] = "inspect"
    /\ IF dir[Target(lane[p])].kind = "none"
       THEN Lanewise(p, "inspect", "bind")
       ELSE Step(p, "unlink") /\ UNCHANGED lane
    /\ Looks(p)
    /\ UNCHANGED <<dir, todo, why, process>>

\* Seeded fault: a socket found at the target is left where it is.
InspectSparing(p) ==
    /\ pc[p] = "inspect"
    /\ IF dir[Target(lane[p])].kind = "file"
       THEN GiveUp(p, "foreign")
       ELSE /\ Lanewise(p, "inspect", "bind")
            /\ UNCHANGED <<dir, todo, why, process>>
    /\ UNCHANGED history

\* remove_stale_socket: the type decides, and the name is unlinked in a
\* second call.  Whether a living process serves the socket is not asked.
InspectStale(p) ==
    /\ pc[p] = "inspect"
    /\ CASE dir[Target(lane[p])].kind = "file" -> GiveUp(p, "foreign")
         [] dir[Target(lane[p])].kind = "socket" ->
              Step(p, "unlink") /\ UNCHANGED <<dir, lane, todo, why, process>>
         [] OTHER -> /\ Lanewise(p, "inspect", "bind")
                     /\ UNCHANGED <<dir, todo, why, process>>
    /\ Looks(p)

\* The unlink names a path: what is there now goes.  Another process may have
\* been quicker, and the name gone already.
UnlinkStale(p) ==
    /\ pc[p] = "unlink"
    /\ IF dir[Target(lane[p])].kind = "none"
       THEN GiveUp(p, "contest")
       ELSE /\ dir' = [dir EXCEPT ![Target(lane[p])] = Absent]
            /\ Lanewise(p, "inspect", "bind")
            /\ UNCHANGED <<todo, why, process>>
    /\ UNCHANGED history

\* bind creates the temporary name with an inode no name and no listener has.
Bind(p) ==
    /\ pc[p] = "bind"
    /\ IF dir[Temporary(p)].kind # "none" \/ FreeInodes = {}
       THEN GiveUp(p, "name")
       ELSE /\ dir' = [dir EXCEPT ![Temporary(p)] = Node("socket", NextInode, p)]
            /\ bound' = [bound EXCEPT ![p][lane[p]] = NextInode]
            /\ Step(p, "identify")
            /\ UNCHANGED <<lane, ids, identity, todo, why>>
    /\ UNCHANGED history

\* The identity the process will know its socket by.
Identify(p) ==
    /\ pc[p] = "identify"
    /\ IF dir[Temporary(p)].kind # "socket"
       THEN GiveUp(p, "contest")
       ELSE /\ identity' = [identity EXCEPT ![p][lane[p]] = dir[Temporary(p)].inode]
            /\ Step(p, "chmod")
            /\ UNCHANGED <<dir, lane, ids, bound, todo, why>>
    /\ UNCHANGED history

\* validate_listener_descriptor and set_permissions.
Chmod(p) ==
    /\ pc[p] = "chmod"
    /\ IF dir[Temporary(p)].kind = "none"
       THEN GiveUp(p, "contest")
       ELSE Step(p, "again") /\ UNCHANGED <<dir, lane, todo, why, process>>
    /\ UNCHANGED history

IsOwn(p, n) == dir[n].kind = "socket" /\ dir[n].inode = identity[p][lane[p]]

IdentifyAgain(p) ==
    /\ pc[p] = "again"
    /\ IF IsOwn(p, Temporary(p))
       THEN Step(p, "publish") /\ UNCHANGED <<dir, lane, todo, why, process>>
       ELSE GiveUp(p, "contest")
    /\ UNCHANGED history

\* renameat with NOREPLACE: a name that is there by now is not replaced.
Publish(p) ==
    /\ pc[p] = "publish"
    /\ IF dir[Target(lane[p])].kind # "none" \/ dir[Temporary(p)].kind = "none"
       THEN GiveUp(p, "contest")
       ELSE /\ dir' = [dir EXCEPT ![Target(lane[p])] = dir[Temporary(p)],
                                  ![Temporary(p)] = Absent]
            /\ Step(p, "verify")
            /\ UNCHANGED <<lane, todo, why, process>>
    /\ UNCHANGED history

Verify(p) ==
    /\ pc[p] = "verify"
    /\ IF IsOwn(p, Target(lane[p]))
       THEN /\ Lanewise(p, "bind", "complete")
            /\ UNCHANGED <<dir, todo, why, process>>
       ELSE GiveUp(p, "contest")
    /\ UNCHANGED history

\* The clock was read and the first two status files are written.
Complete(p) ==
    /\ pc[p] = "complete"
    /\ Step(p, "running")
    /\ UNCHANGED <<dir, lane, todo, why, process, history>>

\* Where the identity of a socket was to be read, its name is given up unremoved.
Unidentified(p) ==
    CASE pc[p] \in {"identify", "again"} -> {Temporary(p)}
      [] pc[p] = "verify" -> {Target(lane[p])}
      [] OTHER -> {}

\* Any call of the start may fail for a reason of its own.
CallFails(p) ==
    /\ Starting(p)
    /\ faults < MaxFaults
    /\ faults' = faults + 1
    /\ missed' = [missed EXCEPT ![p] = @ \union Unidentified(p)]
    /\ GiveUp(p, "fault")
    /\ UNCHANGED <<contested, slipped, operator>>

----------------------------------------------------------------------------
(* The end.                                                                *)

\* close(): every task has ended or was aborted, and the listeners with them.
\* A process that is starting meanwhile is contested.
Close(p) ==
    /\ pc[p] = "running"
    /\ todo' = [todo EXCEPT ![p] = Owned(p, 2)]
    /\ bound' = [bound EXCEPT ![p] = NoInodes]
    /\ Step(p, "removing")
    /\ contested' = [q \in Processes |-> contested[q] \/ Starting(q)]
    /\ UNCHANGED <<dir, lane, ids, identity, why, missed, slipped, faults, operator>>

\* drop: the tasks are aborted but not awaited, so the listeners are open
\* while the names are removed.
DropRuntime(p) ==
    /\ pc[p] = "running"
    /\ todo' = [todo EXCEPT ![p] = Owned(p, 2)]
    /\ Step(p, "removing")
    /\ contested' = [q \in Processes |-> contested[q] \/ Starting(q)]
    /\ UNCHANGED <<dir, lane, process, why, missed, slipped, faults, operator>>

\* Seeded fault: any socket at the name is removed.
LookForSockets(p) ==
    /\ pc[p] = "removing" /\ todo[p] # <<>>
    /\ IF dir[Head(todo[p]).name].kind = "socket"
       THEN Step(p, "unlinking") /\ UNCHANGED todo
       ELSE todo' = [todo EXCEPT ![p] = Tail(@)] /\ UNCHANGED pc
    /\ Looks(p)
    /\ UNCHANGED <<dir, lane, process, why>>

\* remove_owned_socket: a socket with the remembered inode, and nothing else.
LookForOwned(p) ==
    /\ pc[p] = "removing" /\ todo[p] # <<>>
    /\ LET n == Head(todo[p]).name IN
       IF dir[n].kind = "socket" /\ dir[n].inode = Head(todo[p]).inode
       THEN Step(p, "unlinking") /\ UNCHANGED todo
       ELSE todo' = [todo EXCEPT ![p] = Tail(@)] /\ UNCHANGED pc
    /\ Looks(p)
    /\ UNCHANGED <<dir, lane, process, why>>

\* The unlink names a path, not an inode: what is there now goes, if anything.
UnlinkOwned(p) ==
    /\ pc[p] = "unlinking"
    /\ dir' = [dir EXCEPT ![Head(todo[p]).name] = Absent]
    /\ todo' = [todo EXCEPT ![p] = Tail(@)]
    /\ Step(p, "removing")
    /\ UNCHANGED <<lane, process, why, history>>

\* Seeded fault: the first removal that fails ends the cleanup.
RemovalFailsForAll(p) ==
    /\ pc[p] \in Removing /\ todo[p] # <<>>
    /\ faults < MaxFaults
    /\ faults' = faults + 1
    /\ missed' = [missed EXCEPT ![p] = @ \union {Head(todo[p]).name}]
    /\ todo' = [todo EXCEPT ![p] = <<>>]
    /\ Step(p, "removing")
    /\ UNCHANGED <<dir, lane, process, why, contested, slipped, operator>>

\* Either call of a removal may fail.  The error is not looked at: the name
\* stays and the next one is taken.
RemovalFails(p) ==
    /\ pc[p] \in Removing /\ todo[p] # <<>>
    /\ faults < MaxFaults
    /\ faults' = faults + 1
    /\ missed' = [missed EXCEPT ![p] = @ \union {Head(todo[p]).name}]
    /\ todo' = [todo EXCEPT ![p] = Tail(@)]
    /\ Step(p, "removing")
    /\ UNCHANGED <<dir, lane, process, why, contested, slipped, operator>>

Leave(p, how) ==
    /\ Step(p, how)
    /\ lane' = [lane EXCEPT ![p] = 1]
    /\ ids' = [ids EXCEPT ![p] = Unknown]
    /\ bound' = [bound EXCEPT ![p] = NoInodes]
    /\ identity' = [identity EXCEPT ![p] = NoInodes]
    /\ todo' = [todo EXCEPT ![p] = <<>>]
    /\ UNCHANGED <<dir, why, history>>

End(p) == pc[p] = "removing" /\ todo[p] = <<>> /\ Leave(p, "ended")

\* Killed at any point; the names it had stay.
Kill(p) == pc[p] \notin Over /\ Leave(p, "killed")

----------------------------------------------------------------------------
\* The operator moves a file or a socket of his own to a target.  What starts
\* at that moment is contested, and while a process is ending everything is:
\* the new socket may have got the inode that process looks for.
OperatorReplaces(l, kind) ==
    /\ operator < MaxOperator
    /\ ~MadeBy(Target(l), "operator")
    /\ FreeInodes # {}
    /\ dir' = [dir EXCEPT ![Target(l)] = Node(kind, NextInode, "operator")]
    /\ operator' = operator + 1
    /\ contested' = [q \in Processes |->
         contested[q] \/ Starting(q) \/ \E r \in Processes : pc[r] \in Removing]
    /\ slipped' = [q \in Processes |-> slipped[q] \/ Unlinks(q, Target(l))]
    /\ UNCHANGED <<pc, lane, process, todo, why, missed, faults>>

Begin(p) == Start(p) \/ Preflight(p) \/ PreflightTemporary(p) \/ InspectStale(p)
            \/ UnlinkStale(p) \/ Bind(p) \/ Identify(p) \/ Chmod(p)
            \/ IdentifyAgain(p) \/ Publish(p) \/ Verify(p) \/ Complete(p)
            \/ CallFails(p)
Finish(p) == Close(p) \/ DropRuntime(p) \/ LookForOwned(p) \/ UnlinkOwned(p)
             \/ RemovalFails(p) \/ End(p) \/ Kill(p)

Next == \/ \E p \in Processes : Begin(p) \/ Finish(p)
        \/ \E l \in Lanes, kind \in {"file", "socket"} : OperatorReplaces(l, kind)

Spec == Init /\ [][Next]_vars

----------------------------------------------------------------------------
(* Properties.                                                             *)

\* A process that is running is reached at both of its names, or the operator
\* has put something there, unless its names were contested: a later process
\* started, or another one was starting or ending during its own start.  In
\* particular a process whose socket was taken over does not take the
\* successor's socket away when it ends (remove_owned_socket).
RunningIsReachable ==
    \A p \in Processes : pc[p] = "running" /\ ~contested[p] =>
        \A l \in Lanes :
            \/ MadeBy(Target(l), "operator")
            \/ MadeBy(Target(l), p) /\ dir[Target(l)].inode = bound[p][l]

\* A process that closed, was dropped or gave its start up left no name
\* behind, contested or not, but those of which it lost track by a failed
\* call: where it was to learn which socket is its own, or to remove it.  One
\* such name does not keep it from removing the others (bind_owned_socket,
\* cleanup_owned_sockets, remove_owned_socket).
NothingLeftBehind ==
    \A p \in Processes : pc[p] = "ended" =>
        \A n \in Names : MadeBy(n, p) => n \in missed[p]

\* What a process left, killed or ended, does not keep the next one from
\* starting: a start is given up over the directory only if it was contested,
\* or if a file is at a target or a name with its own id is taken
\* (remove_stale_socket).
LeftoversDoNotBlock ==
    \A p \in Processes : why[p] = "contest" => contested[p]

\* Nothing of the operator's is replaced, and it is removed only by the unlink
\* of a process that had looked at the name before it came there; but for a
\* socket, which a start may take for a stale one, and a process whose names
\* were contested for its own, when the inode was given out again.  A file that
\* a process did see stays (remove_stale_socket, renameat with NOREPLACE,
\* remove_owned_socket).
ForeignIsKept ==
    [][\A n \in Names : MadeBy(n, "operator") /\ dir'[n] # dir[n] =>
          /\ dir'[n] = Absent
          /\ \E p \in Processes :
               /\ Unlinks(p, n) /\ pc'[p] # pc[p]
               /\ \/ slipped[p]
                  \/ dir[n].kind = "socket" /\ (pc[p] = "unlink" \/ contested[p])]_dir
=============================================================================
