----------------------- MODULE SocketLifecycleProofs -----------------------
(***************************************************************************)
(* Theorems about SocketLifecycle for any number of processes, ids and     *)
(* inodes: what a process may count on while it runs, what it leaves       *)
(* behind, and what it takes away from others.                             *)
(***************************************************************************)
EXTENDS SocketLifecycle, TLAPS, WellFoundedInduction, NaturalsInduction

-----------------------------------------------------------------------------
(* The inductive invariant, in parts.                                      *)

Inodes == 1..MaxInode
Nodes == [kind : {"socket", "file"}, inode : Inodes, by : Processes \union {"operator"}]
Entries == [name : Names, inode : Inodes \union {Unknown}]
Numbers == [Lanes -> Inodes \union {Unknown}]
Targets == {Target(l) : l \in Lanes}

Looking == {"preflight", "temporary", "inspect", "unlink"}
Named == {"identify", "chmod", "again", "publish"}
Making == {"bind", "verify"} \union Named
Starts == Looking \union Making \union {"complete"}
States == Over \union Starts \union {"running"} \union Removing

Types ==
  /\ dir \in [Names -> {Absent} \union Nodes]
  /\ pc \in [Processes -> States]
  /\ lane \in [Processes -> Lanes]
  /\ ids \in [Processes -> Ids \union {Unknown}]
  /\ bound \in [Processes -> Numbers] /\ identity \in [Processes -> Numbers]
  /\ todo \in [Processes -> Seq(Entries)]
  /\ why \in [Processes -> {"none", "foreign", "name", "contest", "fault"}]
  /\ contested \in [Processes -> BOOLEAN]

HistoryTypes ==
  missed \in [Processes -> SUBSET Names] /\ slipped \in [Processes -> BOOLEAN]

(* The lanes whose socket a process has moved to its target.               *)
Published(p) ==
  {l \in Lanes : \/ pc[p] \in {"complete", "running"}
                 \/ pc[p] \in Making /\ l < lane[p]
                 \/ pc[p] = "verify" /\ l = lane[p]}

(* A process knows its sockets, and nobody touches one at a temporary name.*)
Knows(p) ==
  /\ pc[p] = "idle" => why[p] = "none"
  /\ pc[p] \in Starts => ids[p] \in Ids
  /\ pc[p] \in Named => dir[Temporary(p)] = Node("socket", bound[p][lane[p]], p)
  /\ pc[p] \in Named \ {"identify"} => identity[p][lane[p]] = bound[p][lane[p]]
  /\ \A l \in Published(p) : identity[p][l] = bound[p][l] /\ bound[p][l] \in Inodes

KnowsItsOwn == \A p \in Processes : Knows(p)

(* What a process is to remove: perhaps its temporary name, and targets.   *)
Removes(p) ==
  /\ pc[p] = "unlinking" => todo[p] # << >>
  /\ \A i \in DOMAIN todo[p] :
       \/ todo[p][i].name \in Targets
       \/ i = 1 /\ dir[todo[p][i].name] = Node("socket", todo[p][i].inode, p)

RemovesItsOwn == \A p \in Processes : pc[p] \in Removing => Removes(p)

(* Every name that a process made is one it will find again, or one that a *)
(* failed call has cost it.                                                *)
Accounted(p, n) ==
  /\ dir[n].kind = "socket"
  /\ pc[p] # "idle"
  /\ pc[p] \in Starts \union {"running"} =>
       \/ pc[p] \in Named /\ n = Temporary(p)
       \/ \E l \in Published(p) : n = Target(l) /\ dir[n].inode = identity[p][l]
  /\ pc[p] \in Removing =>
       \/ n \in missed[p]
       \/ \E i \in DOMAIN todo[p] : todo[p][i].name = n /\ todo[p][i].inode = dir[n].inode
  /\ pc[p] = "ended" => n \in missed[p]

NamesAccounted == \A p \in Processes, n \in Names : MadeBy(n, p) => Accounted(p, n)

(* Two open listeners are bound to different inodes.                       *)
ListenersDiffer ==
  \A p, q \in Processes, l, m \in Lanes :
    bound[p][l] = bound[q][m] /\ bound[p][l] # Unknown => p = q /\ l = m

(* What the operator put at a target is not taken for the process's own,   *)
(* unless it got an inode given up by a process that is ending, or came    *)
(* after the process had looked.                                           *)
AllContested == \A p \in Processes : contested[p]

Mistakes(p, i) ==
  MadeBy(todo[p][i].name, "operator") /\ dir[todo[p][i].name].inode = todo[p][i].inode

OperatorDiffers(p) ==
  /\ pc[p] = "unlink" => dir[Target(lane[p])].kind # "file" \/ slipped[p]
  /\ \A l \in Published(p) :
       MadeBy(Target(l), "operator") => dir[Target(l)].inode # bound[p][l]
  /\ pc[p] \in Removing => \A i \in DOMAIN todo[p] : Mistakes(p, i) => AllContested
  /\ pc[p] = "unlinking" /\ MadeBy(Head(todo[p]).name, "operator") =>
       slipped[p] \/ (dir[Head(todo[p]).name].kind = "socket" /\ AllContested)

OperatorsDiffer == \A p \in Processes : OperatorDiffers(p)

(* A process that is not contested is alone with those that run, and after *)
(* its start with those that end.                                          *)
Alone ==
  \A p, q \in Processes : pc[p] \notin Over /\ ~contested[p] /\ p # q =>
    /\ pc[q] \notin Starts
    /\ pc[p] \in Starts => pc[q] \notin Removing

(* Its start finds the directory as it left it.                            *)
Clear(lanes) == \A l \in lanes : dir[Target(l)].kind = "none"
Untouched(p) ==
  /\ pc[p] = "unlink" => dir[Target(lane[p])].kind = "socket"
  /\ pc[p] \in {"inspect", "unlink"} => Clear({l \in Lanes : l < lane[p]})
  /\ pc[p] \in {"bind"} \union Named => Clear({l \in Lanes : l >= lane[p]})
  /\ pc[p] = "verify" => Clear({l \in Lanes : l > lane[p]})

Undisturbed == \A p \in Processes : pc[p] \in Starts /\ ~contested[p] => Untouched(p)

Reached ==
  \A p \in Processes : ~contested[p] =>
    \A l \in Published(p) :
      \/ dir[Target(l)] = Node("socket", bound[p][l], p)
      \/ pc[p] = "running" /\ MadeBy(Target(l), "operator")

(* Those that end do not take its sockets for theirs.                      *)
Spares(q, p) ==
  /\ \A i \in DOMAIN todo[q], l \in Lanes :
       bound[p][l] # Unknown => todo[q][i].inode # bound[p][l]
  /\ pc[q] = "unlinking" => Head(todo[q]).name \notin Targets

Spared ==
  \A p, q \in Processes :
    pc[p] \in Starts \union {"running"} /\ ~contested[p] /\ p # q /\ pc[q] \in Removing =>
      Spares(q, p)

IInv ==
  /\ Types /\ HistoryTypes /\ KnowsItsOwn /\ RemovesItsOwn /\ NamesAccounted
  /\ ListenersDiffer /\ OperatorsDiffer /\ Alone /\ Undisturbed /\ Reached /\ Spared
  /\ LeftoversDoNotBlock
-----------------------------------------------------------------------------
USE SocketAssumption

(* Names of different kinds are different. *)
LEMMA NamesDiffer ==
  /\ \A l \in Lanes : Target(l) \in Names /\ Target(l) \in Targets
  /\ \A l, m \in Lanes : Target(l) = Target(m) => l = m
  /\ Targets \subseteq Names
  /\ \A l \in Lanes, id \in Ids : <<l, id>> \in Names /\ <<l, id>> \notin Targets
BY DEF Target, Targets, Names, Lanes

LEMMA TemporaryName ==
  ASSUME Types, NEW p \in Processes, ids[p] \in Ids
  PROVE  Temporary(p) \in Names /\ Temporary(p) \notin Targets
BY NamesDiffer DEF Temporary, Types

LEMMA NodeFields ==
  ASSUME NEW k, NEW i, NEW b
  PROVE  /\ Node(k, i, b).kind = k /\ Node(k, i, b).inode = i /\ Node(k, i, b).by = b
         /\ Absent.kind = "none"
BY DEF Node, Absent

LEMMA NodeTypes ==
  ASSUME Types, NEW n \in Names
  PROVE  /\ dir[n].kind \in {"none", "socket", "file"}
         /\ dir[n].kind = "none" => dir[n] = Absent
         /\ dir[n].kind # "none" =>
              /\ dir[n].inode \in Inodes /\ dir[n].by \in Processes \union {"operator"}
              /\ dir[n] = Node(dir[n].kind, dir[n].inode, dir[n].by)
<1>1. dir[n] \in {Absent} \union Nodes
  BY DEF Types
<1>2. CASE dir[n] = Absent
  BY <1>2 DEF Absent
<1>3. CASE dir[n] \in Nodes
  BY <1>3 DEF Nodes, Node
<1> QED BY <1>1, <1>2, <1>3

(* The inode of a new socket is no name's and no open listener's. *)
LEMMA NextInodeIsFree ==
  ASSUME Types, FreeInodes # {}
  PROVE  /\ NextInode \in Inodes
         /\ \A p \in Processes, l \in Lanes : bound[p][l] # NextInode
<1>1. FreeInodes \subseteq Nat
  BY DEF FreeInodes
<1>2. \E i \in FreeInodes : \A j \in FreeInodes : i <= j
  <2>1. PICK i \in FreeInodes : \A j \in FreeInodes : ~(<<j, i>> \in OpToRel(<, Nat))
    BY <1>1, NatLessThanWellFounded, WFMin
  <2>2. \A j \in FreeInodes : ~(j < i)
    BY <1>1, <2>1 DEF OpToRel
  <2> QED BY <1>1, <2>2
<1>3. NextInode \in FreeInodes
  BY <1>2 DEF NextInode
<1> QED BY <1>3 DEF FreeInodes, Inodes

(* A step of a process is its own, and nobody becomes less contested.      *)
LEMMA Others ==
  ASSUME Types, NEW p \in Processes, Begin(p) \/ Finish(p), NEW r \in Processes, r # p
  PROVE  /\ pc'[r] = pc[r] /\ lane'[r] = lane[r] /\ ids'[r] = ids[r]
         /\ bound'[r] = bound[r] /\ identity'[r] = identity[r]
         /\ todo'[r] = todo[r] /\ why'[r] = why[r]
         /\ contested[r] => contested'[r]
<1> USE DEF Types, process, history
<1>1. CASE Start(p)
  BY <1>1 DEF Start
<1>2. CASE Preflight(p)
  BY <1>2 DEF Preflight, GiveUp, Lanewise, Step
<1>3. CASE PreflightTemporary(p)
  BY <1>3 DEF PreflightTemporary, GiveUp, Lanewise, Step
<1>4. CASE InspectStale(p)
  BY <1>4 DEF InspectStale, Looks, GiveUp, Lanewise, Step
<1>5. CASE UnlinkStale(p)
  BY <1>5 DEF UnlinkStale, GiveUp, Lanewise, Step
<1>6. CASE Bind(p)
  BY <1>6 DEF Bind, GiveUp, Step
<1>7. CASE Identify(p)
  BY <1>7 DEF Identify, GiveUp, Step
<1>8. CASE Chmod(p)
  BY <1>8 DEF Chmod, GiveUp, Step
<1>9. CASE IdentifyAgain(p)
  BY <1>9 DEF IdentifyAgain, GiveUp, Step
<1>10. CASE Publish(p)
  BY <1>10 DEF Publish, GiveUp, Step
<1>11. CASE Verify(p)
  BY <1>11 DEF Verify, GiveUp, Lanewise, Step
<1>12. CASE Complete(p)
  BY <1>12 DEF Complete, Step
<1>13. CASE CallFails(p)
  BY <1>13 DEF CallFails, GiveUp, Step
<1>14. CASE Close(p)
  BY <1>14 DEF Close, Step
<1>15. CASE DropRuntime(p)
  BY <1>15 DEF DropRuntime, Step
<1>16. CASE LookForOwned(p)
  BY <1>16 DEF LookForOwned, Looks, Step
<1>17. CASE UnlinkOwned(p)
  BY <1>17 DEF UnlinkOwned, Step
<1>18. CASE End(p)
  BY <1>18 DEF End, Leave, Step
<1>19. CASE Kill(p)
  BY <1>19 DEF Kill, Leave, Step
<1>20. CASE RemovalFails(p)
  BY <1>20 DEF RemovalFails, Step, Removing
<1> QED
  BY <1>1, <1>2, <1>3, <1>4, <1>5, <1>6, <1>7, <1>8, <1>9, <1>10, <1>11, <1>12, <1>13,
     <1>14, <1>15, <1>16, <1>17, <1>18, <1>19, <1>20 DEF Begin, Finish

-----------------------------------------------------------------------------
(* What the steps of a process do to it, one lemma for each call.          *)

Kept(p) == /\ ids'[p] = ids[p] /\ identity'[p] = identity[p] /\ bound'[p] = bound[p]
           /\ todo'[p] = todo[p] /\ why'[p] = why[p] /\ contested' = contested
Moved(p, next) == pc'[p] = next /\ lane'[p] = lane[p]
Passed(p, again, after) ==
  pc'[p] = (IF lane[p] = 1 THEN again ELSE after) /\ lane'[p] = 3 - lane[p]

(* A start that is given up, for a reason. *)
GivenUp(p, reason) ==
  /\ pc[p] \in Starts /\ pc'[p] = "removing" /\ why'[p] = reason
  /\ todo'[p] = Removals(p) /\ lane'[p] = 1 /\ dir' = dir
  /\ ids'[p] = ids[p] /\ identity'[p] = identity[p]
  /\ \A l \in Lanes : bound'[p][l] \in {bound[p][l], Unknown}
  /\ contested' = contested

LEMMA GiveUpStep ==
  ASSUME Types, NEW p \in Processes, NEW reason, GiveUp(p, reason), pc[p] \in Starts,
         contested' = contested
  PROVE  GivenUp(p, reason)
BY DEF Types, GiveUp, Step, GivenUp, Numbers, NoInodes

LEMMA StartStep ==
  ASSUME Types, NEW p \in Processes, Start(p)
  PROVE  /\ pc[p] = "idle" /\ pc'[p] = "preflight" /\ dir' = dir
         /\ ids'[p] \in Ids /\ lane'[p] = lane[p] /\ identity'[p] = identity[p]
         /\ bound'[p] = bound[p] /\ todo'[p] = todo[p] /\ why'[p] = why[p]
         /\ contested'[p] = (\E r \in Processes : pc[r] \notin Over \union {"running"})
         /\ \A q \in Processes \ {p} : contested'[q] = (contested[q] \/ pc[q] \notin Over)
BY DEF Types, Start

LEMMA PreflightStep ==
  ASSUME Types, NEW p \in Processes, Preflight(p)
  PROVE  \/ GivenUp(p, "foreign") /\ pc[p] = "preflight"
         \/ /\ pc[p] = "preflight" /\ Passed(p, "preflight", "temporary")
            /\ dir' = dir /\ Kept(p)
<1>1. CASE dir[Target(lane[p])].kind = "file"
  <2>1. GiveUp(p, "foreign") /\ pc[p] \in Starts /\ contested' = contested
    BY <1>1 DEF Preflight, Starts, Looking, Making, Named, history
  <2> QED
    BY <1>1, <2>1, GiveUpStep DEF Preflight
<1>2. CASE ~(dir[Target(lane[p])].kind = "file")
  BY <1>2, NamesDiffer, NodeTypes DEF Preflight, Lanewise, Step, Types, Numbers,
     Passed, Moved, Kept, process, history
<1> QED BY <1>1, <1>2

LEMMA PreflightTemporaryStep ==
  ASSUME Types, NEW p \in Processes, PreflightTemporary(p)
  PROVE  \/ GivenUp(p, "name") /\ pc[p] = "temporary"
         \/ /\ pc[p] = "temporary" /\ Passed(p, "temporary", "inspect")
            /\ dir' = dir /\ Kept(p)
<1>1. CASE dir[Temporary(p)].kind # "none"
  <2>1. GiveUp(p, "name") /\ pc[p] \in Starts /\ contested' = contested
    BY <1>1 DEF PreflightTemporary, Starts, Looking, Making, Named, history
  <2> QED
    BY <1>1, <2>1, GiveUpStep DEF PreflightTemporary
<1>2. CASE ~(dir[Temporary(p)].kind # "none")
  BY <1>2, NamesDiffer, NodeTypes DEF PreflightTemporary, Lanewise, Step, Types,
     Numbers, Passed, Moved, Kept, process, history
<1> QED BY <1>1, <1>2

LEMMA InspectStaleStep ==
  ASSUME Types, NEW p \in Processes, InspectStale(p)
  PROVE  \/ GivenUp(p, "foreign") /\ pc[p] = "inspect"
         \/ /\ pc[p] = "inspect" /\ dir[Target(lane[p])].kind = "socket"
            /\ Moved(p, "unlink") /\ dir' = dir /\ Kept(p)
         \/ /\ pc[p] = "inspect" /\ dir[Target(lane[p])].kind = "none"
            /\ Passed(p, "inspect", "bind") /\ dir' = dir /\ Kept(p)
<1>1. CASE dir[Target(lane[p])].kind = "file"
  <2>1. GiveUp(p, "foreign") /\ pc[p] \in Starts /\ contested' = contested
    BY <1>1 DEF InspectStale, Looks, Starts, Looking, Making, Named, history
  <2> QED
    BY <1>1, <2>1, GiveUpStep DEF InspectStale, Looks
<1>2. CASE ~(dir[Target(lane[p])].kind = "file")
  BY <1>2, NamesDiffer, NodeTypes DEF InspectStale, Looks, Lanewise, Step, Types, Numbers,
     Passed, Moved, Kept, process, history
<1> QED BY <1>1, <1>2

LEMMA UnlinkStaleStep ==
  ASSUME Types, NEW p \in Processes, UnlinkStale(p)
  PROVE  \/ /\ GivenUp(p, "contest") /\ pc[p] = "unlink"
            /\ dir[Target(lane[p])].kind = "none"
         \/ /\ pc[p] = "unlink" /\ Passed(p, "inspect", "bind") /\ Kept(p)
            /\ dir' = [dir EXCEPT ![Target(lane[p])] = Absent]
<1>1. CASE dir[Target(lane[p])].kind = "none"
  <2>1. GiveUp(p, "contest") /\ pc[p] \in Starts /\ contested' = contested
    BY <1>1 DEF UnlinkStale, Starts, Looking, Making, Named, history
  <2> QED
    BY <1>1, <2>1, GiveUpStep DEF UnlinkStale
<1>2. CASE ~(dir[Target(lane[p])].kind = "none")
  BY <1>2, NamesDiffer, NodeTypes DEF UnlinkStale, Lanewise, Step, Types, Numbers,
     Passed, Moved, Kept, process, history
<1> QED BY <1>1, <1>2

LEMMA BindStep ==
  ASSUME Types, NEW p \in Processes, Bind(p)
  PROVE  \/ GivenUp(p, "name") /\ pc[p] = "bind"
         \/ /\ pc[p] = "bind" /\ Moved(p, "identify") /\ FreeInodes # {}
            /\ dir[Temporary(p)].kind = "none"
            /\ dir' = [dir EXCEPT ![Temporary(p)] = Node("socket", NextInode, p)]
            /\ bound'[p] = [bound[p] EXCEPT ![lane[p]] = NextInode]
            /\ ids'[p] = ids[p] /\ identity'[p] = identity[p]
            /\ todo'[p] = todo[p] /\ why'[p] = why[p] /\ contested' = contested
<1>1. CASE dir[Temporary(p)].kind # "none" \/ FreeInodes = {}
  <2>1. GiveUp(p, "name") /\ pc[p] \in Starts /\ contested' = contested
    BY <1>1 DEF Bind, Starts, Looking, Making, Named, history
  <2> QED
    BY <1>1, <2>1, GiveUpStep DEF Bind
<1>2. CASE ~(dir[Temporary(p)].kind # "none" \/ FreeInodes = {})
  BY <1>2, NamesDiffer, NodeTypes DEF Bind, Step, Types, Numbers, Passed, Moved, Kept,
     process, history
<1> QED BY <1>1, <1>2

LEMMA IdentifyStep ==
  ASSUME Types, NEW p \in Processes, Identify(p)
  PROVE  \/ /\ GivenUp(p, "contest") /\ pc[p] = "identify"
            /\ dir[Temporary(p)].kind # "socket"
         \/ /\ pc[p] = "identify" /\ Moved(p, "chmod") /\ dir' = dir
            /\ identity'[p] = [identity[p] EXCEPT ![lane[p]] = dir[Temporary(p)].inode]
            /\ ids'[p] = ids[p] /\ bound'[p] = bound[p]
            /\ todo'[p] = todo[p] /\ why'[p] = why[p] /\ contested' = contested
<1>1. CASE dir[Temporary(p)].kind # "socket"
  <2>1. GiveUp(p, "contest") /\ pc[p] \in Starts /\ contested' = contested
    BY <1>1 DEF Identify, Starts, Looking, Making, Named, history
  <2> QED
    BY <1>1, <2>1, GiveUpStep DEF Identify
<1>2. CASE ~(dir[Temporary(p)].kind # "socket")
  BY <1>2, NamesDiffer, NodeTypes DEF Identify, Step, Types, Numbers, Passed, Moved,
     Kept, process, history
<1> QED BY <1>1, <1>2

LEMMA ChmodStep ==
  ASSUME Types, NEW p \in Processes, Chmod(p)
  PROVE  \/ /\ GivenUp(p, "contest") /\ pc[p] = "chmod"
            /\ dir[Temporary(p)].kind = "none"
         \/ pc[p] = "chmod" /\ Moved(p, "again") /\ dir' = dir /\ Kept(p)
<1>1. CASE dir[Temporary(p)].kind = "none"
  <2>1. GiveUp(p, "contest") /\ pc[p] \in Starts /\ contested' = contested
    BY <1>1 DEF Chmod, Starts, Looking, Making, Named, history
  <2> QED
    BY <1>1, <2>1, GiveUpStep DEF Chmod
<1>2. CASE ~(dir[Temporary(p)].kind = "none")
  BY <1>2, NamesDiffer, NodeTypes DEF Chmod, Step, Types, Numbers, Passed, Moved,
     Kept, process, history
<1> QED BY <1>1, <1>2

LEMMA IdentifyAgainStep ==
  ASSUME Types, NEW p \in Processes, IdentifyAgain(p)
  PROVE  \/ GivenUp(p, "contest") /\ pc[p] = "again" /\ ~IsOwn(p, Temporary(p))
         \/ pc[p] = "again" /\ Moved(p, "publish") /\ dir' = dir /\ Kept(p)
<1>1. CASE ~IsOwn(p, Temporary(p))
  <2>1. GiveUp(p, "contest") /\ pc[p] \in Starts /\ contested' = contested
    BY <1>1 DEF IdentifyAgain, Starts, Looking, Making, Named, history
  <2> QED
    BY <1>1, <2>1, GiveUpStep DEF IdentifyAgain
<1>2. CASE ~(~IsOwn(p, Temporary(p)))
  BY <1>2, NamesDiffer, NodeTypes DEF IdentifyAgain, Step, Types, Numbers, Passed,
     Moved, Kept, process, history, IsOwn
<1> QED BY <1>1, <1>2

LEMMA PublishStep ==
  ASSUME Types, NEW p \in Processes, Publish(p)
  PROVE  \/ /\ GivenUp(p, "contest") /\ pc[p] = "publish"
            /\ dir[Target(lane[p])].kind # "none" \/ dir[Temporary(p)].kind = "none"
         \/ /\ pc[p] = "publish" /\ Moved(p, "verify") /\ Kept(p)
            /\ dir[Target(lane[p])].kind = "none"
            /\ dir' = [dir EXCEPT ![Target(lane[p])] = dir[Temporary(p)],
                                  ![Temporary(p)] = Absent]
<1>1. CASE dir[Target(lane[p])].kind # "none" \/ dir[Temporary(p)].kind = "none"
  <2>1. GiveUp(p, "contest") /\ pc[p] \in Starts /\ contested' = contested
    BY <1>1 DEF Publish, Starts, Looking, Making, Named, history
  <2> QED
    BY <1>1, <2>1, GiveUpStep DEF Publish
<1>2. CASE ~(dir[Target(lane[p])].kind # "none" \/ dir[Temporary(p)].kind = "none")
  BY <1>2, NamesDiffer, NodeTypes DEF Publish, Step, Types, Numbers, Passed, Moved,
     Kept, process, history
<1> QED BY <1>1, <1>2

LEMMA VerifyStep ==
  ASSUME Types, NEW p \in Processes, Verify(p)
  PROVE  \/ GivenUp(p, "contest") /\ pc[p] = "verify" /\ ~IsOwn(p, Target(lane[p]))
         \/ pc[p] = "verify" /\ Passed(p, "bind", "complete") /\ dir' = dir /\ Kept(p)
<1>1. CASE ~IsOwn(p, Target(lane[p]))
  <2>1. GiveUp(p, "contest") /\ pc[p] \in Starts /\ contested' = contested
    BY <1>1 DEF Verify, Starts, Looking, Making, Named, history
  <2> QED
    BY <1>1, <2>1, GiveUpStep DEF Verify
<1>2. CASE ~(~IsOwn(p, Target(lane[p])))
  BY <1>2, NamesDiffer, NodeTypes DEF Verify, Lanewise, Step, Types, Numbers, Passed,
     Moved, Kept, process, history, IsOwn
<1> QED BY <1>1, <1>2

LEMMA CompleteStep ==
  ASSUME Types, NEW p \in Processes, Complete(p)
  PROVE  pc[p] = "complete" /\ Moved(p, "running") /\ dir' = dir /\ Kept(p)
BY DEF Types, Complete, Step, Moved, Kept, process, history

LEMMA CallFailsStep ==
  ASSUME Types, NEW p \in Processes, CallFails(p)
  PROVE  /\ GivenUp(p, "fault")
         /\ HistoryTypes => missed'[p] = missed[p] \union Unidentified(p)
<1>1. pc[p] \in Starts /\ contested' = contested
  BY DEF CallFails, Starting, Types, States
<1>2. HistoryTypes => missed'[p] = missed[p] \union Unidentified(p)
  BY DEF CallFails, HistoryTypes
<1> QED BY <1>1, <1>2, GiveUpStep DEF CallFails

LEMMA CloseStep ==
  ASSUME Types, NEW p \in Processes, Close(p) \/ DropRuntime(p)
  PROVE  /\ pc[p] = "running" /\ Moved(p, "removing") /\ dir' = dir
         /\ todo'[p] = Owned(p, 2) /\ why'[p] = why[p]
         /\ ids'[p] = ids[p] /\ identity'[p] = identity[p]
         /\ \A l \in Lanes : bound'[p][l] \in {bound[p][l], Unknown}
         /\ \A q \in Processes : contested'[q] = (contested[q] \/ pc[q] \in Starts)
<1>1. \A q \in Processes : Starting(q) <=> pc[q] \in Starts
  BY DEF Types, Starting, States, Over, Removing, Starts, Looking, Making, Named
<1> QED BY <1>1 DEF Types, Close, DropRuntime, Step, Moved, process, Numbers, NoInodes

LEMMA LookForOwnedStep ==
  ASSUME Types, NEW p \in Processes, LookForOwned(p)
  PROVE  /\ pc[p] = "removing" /\ todo[p] # << >> /\ dir' = dir /\ lane'[p] = lane[p]
         /\ ids'[p] = ids[p] /\ identity'[p] = identity[p] /\ bound'[p] = bound[p]
         /\ why'[p] = why[p] /\ contested' = contested
         /\ \/ /\ pc'[p] = "unlinking" /\ todo'[p] = todo[p]
               /\ dir[Head(todo[p]).name].kind = "socket"
               /\ dir[Head(todo[p]).name].inode = Head(todo[p]).inode
            \/ /\ pc'[p] = "removing" /\ todo'[p] = Tail(todo[p])
               /\ ~ /\ dir[Head(todo[p]).name].kind = "socket"
                    /\ dir[Head(todo[p]).name].inode = Head(todo[p]).inode
BY DEF Types, LookForOwned, Looks, Step, process, history

LEMMA UnlinkOwnedStep ==
  ASSUME Types, NEW p \in Processes, UnlinkOwned(p)
  PROVE  /\ pc[p] = "unlinking" /\ Moved(p, "removing")
         /\ ids'[p] = ids[p] /\ identity'[p] = identity[p] /\ bound'[p] = bound[p]
         /\ why'[p] = why[p] /\ contested' = contested
         /\ todo'[p] = Tail(todo[p])
         /\ dir' = [dir EXCEPT ![Head(todo[p]).name] = Absent]
BY DEF Types, UnlinkOwned, Step, Moved, process, history

LEMMA RemovalFailsStep ==
  ASSUME Types, NEW p \in Processes, RemovalFails(p)
  PROVE  /\ pc[p] \in Removing /\ todo[p] # << >> /\ Moved(p, "removing") /\ dir' = dir
         /\ ids'[p] = ids[p] /\ identity'[p] = identity[p] /\ bound'[p] = bound[p]
         /\ why'[p] = why[p] /\ contested' = contested /\ todo'[p] = Tail(todo[p])
         /\ HistoryTypes => missed'[p] = missed[p] \union {Head(todo[p]).name}
BY DEF Types, HistoryTypes, RemovalFails, Step, Moved, process

LEMMA LeaveStep ==
  ASSUME Types, NEW p \in Processes, End(p) \/ Kill(p)
  PROVE  /\ dir' = dir /\ todo'[p] = << >> /\ why'[p] = why[p] /\ contested' = contested
         /\ \A l \in Lanes : bound'[p][l] = Unknown
         /\ \/ pc[p] = "removing" /\ todo[p] = << >> /\ pc'[p] = "ended"
            \/ pc[p] \notin Over /\ pc'[p] = "killed"
BY DEF Types, End, Kill, Leave, Step, NoInodes, history

LEMMA OperatorStep ==
  ASSUME Types, NEW l \in Lanes, NEW kind \in {"file", "socket"}, OperatorReplaces(l, kind)
  PROVE  /\ UNCHANGED <<pc, lane, ids, bound, identity, todo, why>>
         /\ FreeInodes # {} /\ ~MadeBy(Target(l), "operator")
         /\ missed' = missed
         /\ slipped' = [q \in Processes |-> slipped[q] \/ Unlinks(q, Target(l))]
         /\ dir' = [dir EXCEPT ![Target(l)] = Node(kind, NextInode, "operator")]
         /\ \A q \in Processes :
              contested'[q] = (contested[q] \/ pc[q] \in Starts
                                            \/ \E r \in Processes : pc[r] \in Removing)
<1>1. \A q \in Processes : Starting(q) <=> pc[q] \in Starts
  BY DEF Types, Starting, States, Over, Removing, Starts, Looking, Making, Named
<1> QED BY <1>1 DEF Types, OperatorReplaces, process

-----------------------------------------------------------------------------
(* What a start that is given up is to remove.                             *)

Entry(n, i) == [name |-> n, inode |-> i]

LEMMA OwnedIs ==
  ASSUME Types, NEW p \in Processes, NEW k \in 0..2
  PROVE  /\ Owned(p, k) \in Seq(Entries) /\ Len(Owned(p, k)) = k
         /\ DOMAIN Owned(p, k) = 1..k
         /\ \A l \in 1..k : Owned(p, k)[l] = Entry(Target(l), identity[p][l])
<1>1. \A l \in 1..k : l \in Lanes /\ Entry(Target(l), identity[p][l]) \in Entries
  BY NamesDiffer DEF Types, Entries, Entry, Lanes, Numbers
<1>2. Owned(p, k) = [l \in 1..k |-> Entry(Target(l), identity[p][l])]
  BY DEF Owned, Entry
<1> QED BY <1>1, <1>2

LEMMA OwnTemporaryIs ==
  ASSUME Types, NEW p \in Processes, ids[p] \in Ids
  PROVE  /\ OwnTemporary(p) = <<Entry(Temporary(p), identity[p][lane[p]])>>
         /\ Entry(Temporary(p), identity[p][lane[p]]) \in Entries
<1>1. Temporary(p) \in Names /\ identity[p][lane[p]] \in Inodes \union {Unknown}
  BY TemporaryName DEF Types, Numbers
<1>2. Entry(Temporary(p), identity[p][lane[p]]) \in Entries
  BY <1>1 DEF Entries, Entry
<1>3. OwnTemporary(p) = <<Entry(Temporary(p), identity[p][lane[p]])>>
  BY DEF Entry, OwnTemporary
<1> QED BY <1>2, <1>3

LEMMA RemovalsAre ==
  ASSUME Types, NEW p \in Processes, pc[p] \in Starts, ids[p] \in Ids
  PROVE  /\ Removals(p) \in Seq(Entries)
         /\ \A i \in DOMAIN Removals(p) :
              \/ \E l \in Published(p) : Removals(p)[i] = Entry(Target(l), identity[p][l])
              \/ /\ i = 1 /\ pc[p] \in {"chmod", "publish"}
                 /\ Removals(p)[i] = Entry(Temporary(p), identity[p][lane[p]])
         /\ pc[p] \in {"chmod", "publish"} =>
              \E i \in DOMAIN Removals(p) :
                 Removals(p)[i] = Entry(Temporary(p), identity[p][lane[p]])
         /\ \A l \in Published(p) : pc[p] # "verify" \/ l # lane[p] =>
              \E i \in DOMAIN Removals(p) : Removals(p)[i] = Entry(Target(l), identity[p][l])
<1>0. lane[p] \in {1, 2}
  BY DEF Types, Lanes
<1>1. CASE pc[p] \in Looking
  <2>1. Removals(p) = << >> /\ Published(p) = {}
    BY <1>1 DEF Removals, Published, Looking, Making, Named
  <2> QED BY <1>1, <2>1 DEF Looking
<1>2. CASE pc[p] \in {"bind", "identify", "again", "verify"}
  <2>1. Removals(p) = Owned(p, lane[p] - 1)
    BY <1>2 DEF Removals
  <2>2. \A l \in Lanes :
          l \in Published(p) <=> (l < lane[p] \/ (pc[p] = "verify" /\ l = lane[p]))
    <3>1. CASE pc[p] = "verify"
      BY <1>0, <3>1 DEF Published, Making, Named, Lanes
    <3>2. CASE pc[p] # "verify"
      BY <1>0, <1>2, <3>2 DEF Published, Making, Named
    <3> QED BY <3>1, <3>2
  <2>3. lane[p] - 1 \in 0..2 /\ \A l : l \in 1..(lane[p] - 1) <=> l \in Lanes /\ l < lane[p]
    BY <1>0 DEF Lanes
  <2>4. Published(p) \subseteq Lanes
    BY DEF Published
  <2>5. \A l \in DOMAIN Owned(p, lane[p] - 1) :
          /\ l \in Published(p)
          /\ Owned(p, lane[p] - 1)[l] = Entry(Target(l), identity[p][l])
    <3>1. /\ DOMAIN Owned(p, lane[p] - 1) = 1..(lane[p] - 1)
          /\ \A l \in 1..(lane[p] - 1) :
               Owned(p, lane[p] - 1)[l] = Entry(Target(l), identity[p][l])
      <4>1. PICK k \in 0..2 : k = lane[p] - 1
        BY <2>3
      <4> QED BY <4>1, OwnedIs
    <3> QED BY <3>1, <2>2, <2>3
  <2>6. \A l \in Published(p) : pc[p] # "verify" \/ l # lane[p] =>
          l \in DOMAIN Owned(p, lane[p] - 1)
    BY <2>2, <2>3, <2>4, OwnedIs
  <2>7. Owned(p, lane[p] - 1) \in Seq(Entries)
    BY <2>3, OwnedIs
  <2> QED BY <1>2, <2>1, <2>5, <2>6, <2>7
<1>3. CASE pc[p] \in {"chmod", "publish"}
  <2> DEFINE own == Owned(p, lane[p] - 1)
             all == OwnTemporary(p) \o own
  <2>1. Removals(p) = all
    BY <1>3 DEF Removals
  <2>2. \A l \in Lanes : l \in Published(p) <=> l < lane[p]
    BY <1>3 DEF Published, Making, Named
  <2>3. lane[p] - 1 \in 0..2 /\ \A l : l \in 1..(lane[p] - 1) <=> l \in Lanes /\ l < lane[p]
    BY <1>0 DEF Lanes
  <2>4. Published(p) \subseteq Lanes
    BY DEF Published
  <2>5. own \in Seq(Entries) /\ Len(own) = lane[p] - 1
    BY <2>3, OwnedIs
  <2>6. \A l \in 1..Len(own) :
          l \in Published(p) /\ own[l] = Entry(Target(l), identity[p][l])
    BY <2>2, <2>3, <2>5, OwnedIs
  <2>7. /\ all \in Seq(Entries) /\ DOMAIN all = 1..(1 + Len(own))
        /\ all[1] = Entry(Temporary(p), identity[p][lane[p]])
        /\ \A l \in 1..Len(own) : all[1 + l] = own[l]
    <3>1. PICK e \in Entries : /\ OwnTemporary(p) = <<e>>
                               /\ e = Entry(Temporary(p), identity[p][lane[p]])
      BY OwnTemporaryIs
    <3>2. all = <<e>> \o own
      BY <3>1
    <3> HIDE DEF own, all
    <3> QED BY <2>5, <3>1, <3>2
  <2> HIDE DEF all, own
  <2>8. \A i \in DOMAIN all : i = 1 \/ (i - 1 \in 1..Len(own) /\ all[i] = own[i - 1])
    <3>1. Len(own) \in Nat
      BY <2>5
    <3>2. \A i \in 1..(1 + Len(own)) : i = 1 \/ (i - 1 \in 1..Len(own) /\ 1 + (i - 1) = i)
      BY <3>1
    <3> SUFFICES ASSUME NEW i \in DOMAIN all, i # 1
                 PROVE  i - 1 \in 1..Len(own) /\ all[i] = own[i - 1]
      OBVIOUS
    <3>3. i - 1 \in 1..Len(own) /\ 1 + (i - 1) = i
      BY <2>7, <3>2
    <3>4. all[1 + (i - 1)] = own[i - 1]
      BY <2>7, <3>3
    <3> QED BY <3>3, <3>4
  <2>9. \A l \in Published(p) : l \in 1..Len(own) /\ 1 + l \in DOMAIN all
    BY <2>2, <2>3, <2>4, <2>5, <2>7
  <2>10. 1 \in DOMAIN all
    BY <2>5, <2>7
  <2>11. \A i \in DOMAIN all :
           \/ \E l \in Published(p) : all[i] = Entry(Target(l), identity[p][l])
           \/ i = 1 /\ all[i] = Entry(Temporary(p), identity[p][lane[p]])
    BY <2>6, <2>7, <2>8
  <2>12. \A l \in Published(p) : all[1 + l] = Entry(Target(l), identity[p][l])
    BY <2>6, <2>7, <2>9
  <2> QED BY <1>3, <2>1, <2>7, <2>9, <2>10, <2>11, <2>12
<1>4. CASE pc[p] = "complete"
  <2>1. Removals(p) = Owned(p, 2)
    BY <1>4 DEF Removals
  <2>2. Published(p) = 1..2
    BY <1>4 DEF Published, Lanes
  <2>3. \A l \in DOMAIN Owned(p, 2) : Owned(p, 2)[l] = Entry(Target(l), identity[p][l])
    BY OwnedIs
  <2>4. DOMAIN Owned(p, 2) = 1..2 /\ Owned(p, 2) \in Seq(Entries)
    BY OwnedIs
  <2> QED BY <1>4, <2>1, <2>2, <2>3, <2>4
<1> QED
  BY <1>1, <1>2, <1>3, <1>4 DEF Starts, Making, Named

-----------------------------------------------------------------------------
(* Every step keeps the types.                                             *)

LEMMA GiveUpTypes ==
  ASSUME Types, KnowsItsOwn, NEW p \in Processes, NEW reason, GiveUp(p, reason),
         pc[p] \in Starts, contested' = contested,
         reason \in {"foreign", "name", "contest", "fault"}
  PROVE  Types'
<1>1. Removals(p) \in Seq(Entries)
  BY RemovalsAre DEF KnowsItsOwn, Knows
<1>2. todo' \in [Processes -> Seq(Entries)]
  BY <1>1 DEF GiveUp, Types
<1>3. bound' \in [Processes -> Numbers]
  BY DEF GiveUp, Types, Numbers, NoInodes
<1>4. /\ pc' \in [Processes -> States]
      /\ lane' \in [Processes -> Lanes]
  BY DEF GiveUp, Types, Step, States, Removing, Lanes
<1>5. UNCHANGED <<dir, ids, identity>>
      /\ why' \in [Processes -> {"none", "foreign", "name", "contest", "fault"}]
  BY DEF GiveUp, Types
<1> QED
  BY <1>2, <1>3, <1>4, <1>5 DEF Types

LEMMA TypesKept ==
  ASSUME Types, KnowsItsOwn, RemovesItsOwn, NEW p \in Processes, Begin(p) \/ Finish(p)
  PROVE  Types'
<1>t. /\ (pc[p] \in {"bind", "identify", "publish"} => Temporary(p) \in Names)
      /\ Target(lane[p]) \in Names /\ 3 - lane[p] \in Lanes /\ lane[p] \in Lanes
  BY TemporaryName, NamesDiffer DEF KnowsItsOwn, Knows, Types, Lanes, Starts, Making, Named
<1>f. \A i \in Inodes, k \in {"socket", "file"} : Node(k, i, p) \in Nodes
  BY DEF Node, Nodes
<1>l. /\ \A s \in {"idle", "ended", "killed", "preflight", "temporary", "inspect",
                   "unlink", "bind", "verify", "identify", "chmod", "again",
                   "publish", "complete", "running", "removing", "unlinking"} :
           s \in States
      /\ 1 \in Lanes /\ lane[p] \in Lanes
      /\ NextInode \in Inodes \union {Unknown} \/ FreeInodes = {}
      /\ pc[p] = "identify" /\ dir[Temporary(p)].kind = "socket" =>
           dir[Temporary(p)].inode \in Inodes
  BY <1>t, NodeTypes, NextInodeIsFree
     DEF States, Starts, Looking, Making, Named, Over, Removing, Lanes, Types
<1>h. /\ pc[p] = "unlinking" => todo[p] # << >>
      /\ todo[p] # << >> =>
           Head(todo[p]).name \in Names /\ Tail(todo[p]) \in Seq(Entries)
  <2>1. todo[p] \in Seq(Entries)
    BY DEF Types
  <2>2. todo[p] # << >> => Head(todo[p]) \in Entries /\ Tail(todo[p]) \in Seq(Entries)
    BY <2>1
  <2> QED BY <2>2 DEF Entries, RemovesItsOwn, Removes, Removing
<1>1. CASE Start(p)
  <2>1. pc' \in [Processes -> States]
    BY <1>1, <1>l DEF Start, Types
  <2>2. ids' \in [Processes -> Ids \union {Unknown}]
    BY <1>1 DEF Start, Types
  <2>3. contested' \in [Processes -> BOOLEAN]
    BY <1>1 DEF Start, Types
  <2> QED BY <1>1, <2>1, <2>2, <2>3 DEF Start, Types, process, history
<1>2. CASE Preflight(p)
  <2>1. CASE dir[Target(lane[p])].kind = "file"
    <3>1. GiveUp(p, "foreign") /\ pc[p] \in Starts /\ contested' = contested
      BY <1>2, <2>1 DEF Preflight, Starts, Looking, Making, Named, history
    <3> QED BY <3>1, GiveUpTypes
  <2>2. CASE ~(dir[Target(lane[p])].kind = "file")
    <3>1. PICK s \in States : pc' = [pc EXCEPT ![p] = s]
      <4>1. CASE lane[p] = 1
        BY <1>2, <2>2, <4>1, <1>l DEF Preflight, Lanewise, Step
      <4>2. CASE lane[p] # 1
        BY <1>2, <2>2, <4>2, <1>l DEF Preflight, Lanewise, Step
      <4> QED BY <4>1, <4>2
    <3>2. lane' \in [Processes -> Lanes]
      <4>1. lane' = lane \/ lane' = [lane EXCEPT ![p] = 3 - lane[p]]
        BY <1>2, <2>2 DEF Preflight, Lanewise, Step
      <4>2. 3 - lane[p] \in Lanes
        BY <1>2, <2>2, <1>t, <1>l, NextInodeIsFree, NodeTypes DEF Preflight
      <4> QED BY <4>1, <4>2, <1>t DEF Types
    <3> QED BY <1>2, <2>2, <3>1, <3>2 DEF Preflight, Lanewise, Step, Types, process,
       history
  <2> QED BY <2>1, <2>2
<1>3. CASE PreflightTemporary(p)
  <2>1. CASE dir[Temporary(p)].kind # "none"
    <3>1. GiveUp(p, "name") /\ pc[p] \in Starts /\ contested' = contested
      BY <1>3, <2>1 DEF PreflightTemporary, Starts, Looking, Making, Named, history
    <3> QED BY <3>1, GiveUpTypes
  <2>2. CASE ~(dir[Temporary(p)].kind # "none")
    <3>1. PICK s \in States : pc' = [pc EXCEPT ![p] = s]
      <4>1. CASE lane[p] = 1
        BY <1>3, <2>2, <4>1, <1>l DEF PreflightTemporary, Lanewise, Step
      <4>2. CASE lane[p] # 1
        BY <1>3, <2>2, <4>2, <1>l DEF PreflightTemporary, Lanewise, Step
      <4> QED BY <4>1, <4>2
    <3>2. lane' \in [Processes -> Lanes]
      <4>1. lane' = lane \/ lane' = [lane EXCEPT ![p] = 3 - lane[p]]
        BY <1>3, <2>2 DEF PreflightTemporary, Lanewise, Step
      <4>2. 3 - lane[p] \in Lanes
        BY <1>3, <2>2, <1>t, <1>l, NextInodeIsFree, NodeTypes DEF PreflightTemporary
      <4> QED BY <4>1, <4>2, <1>t DEF Types
    <3> QED BY <1>3, <2>2, <3>1, <3>2 DEF PreflightTemporary, Lanewise, Step, Types,
       process, history
  <2> QED BY <2>1, <2>2
<1>4. CASE InspectStale(p)
  <2>1. CASE dir[Target(lane[p])].kind = "file"
    <3>1. GiveUp(p, "foreign") /\ pc[p] \in Starts /\ contested' = contested
      BY <1>4, <2>1 DEF InspectStale, Looks, Starts, Looking, Making, Named, history
    <3> QED BY <3>1, GiveUpTypes
  <2>2. CASE ~(dir[Target(lane[p])].kind = "file")
    <3>1. PICK s \in States : pc' = [pc EXCEPT ![p] = s]
      <4>1. CASE lane[p] = 1
        BY <1>4, <2>2, <4>1, <1>l DEF InspectStale, Looks, Lanewise, Step
      <4>2. CASE lane[p] # 1
        BY <1>4, <2>2, <4>2, <1>l DEF InspectStale, Looks, Lanewise, Step
      <4> QED BY <4>1, <4>2
    <3>2. lane' \in [Processes -> Lanes]
      <4>1. lane' = lane \/ lane' = [lane EXCEPT ![p] = 3 - lane[p]]
        BY <1>4, <2>2 DEF InspectStale, Looks, Lanewise, Step
      <4>2. 3 - lane[p] \in Lanes
        BY <1>4, <2>2, <1>t, <1>l, NextInodeIsFree, NodeTypes DEF InspectStale, Looks
      <4> QED BY <4>1, <4>2, <1>t DEF Types
    <3> QED BY <1>4, <2>2, <3>1, <3>2 DEF InspectStale, Looks, Lanewise, Step, Types,
       process, history
  <2> QED BY <2>1, <2>2
<1>5. CASE UnlinkStale(p)
  <2>1. CASE dir[Target(lane[p])].kind = "none"
    <3>1. GiveUp(p, "contest") /\ pc[p] \in Starts /\ contested' = contested
      BY <1>5, <2>1 DEF UnlinkStale, Starts, Looking, Making, Named, history
    <3> QED BY <3>1, GiveUpTypes
  <2>2. CASE ~(dir[Target(lane[p])].kind = "none")
    <3>1. PICK s \in States : pc' = [pc EXCEPT ![p] = s]
      <4>1. CASE lane[p] = 1
        BY <1>5, <2>2, <4>1, <1>l DEF UnlinkStale, Lanewise, Step
      <4>2. CASE lane[p] # 1
        BY <1>5, <2>2, <4>2, <1>l DEF UnlinkStale, Lanewise, Step
      <4> QED BY <4>1, <4>2
    <3>2. lane' \in [Processes -> Lanes]
      <4>1. lane' = lane \/ lane' = [lane EXCEPT ![p] = 3 - lane[p]]
        BY <1>5, <2>2 DEF UnlinkStale, Lanewise, Step
      <4>2. 3 - lane[p] \in Lanes
        BY <1>5, <2>2, <1>t, <1>l, NextInodeIsFree, NodeTypes DEF UnlinkStale
      <4> QED BY <4>1, <4>2, <1>t DEF Types
    <3>3. dir' \in [Names -> {Absent} \union Nodes]
      BY <1>5, <2>2, <1>t, <1>f, <1>h DEF UnlinkStale, Lanewise, Step, Types
    <3> QED BY <1>5, <2>2, <3>1, <3>2, <3>3 DEF UnlinkStale, Lanewise, Step, Types,
       process, history
  <2> QED BY <2>1, <2>2
<1>6. CASE Bind(p)
  <2>1. CASE dir[Temporary(p)].kind # "none" \/ FreeInodes = {}
    <3>1. GiveUp(p, "name") /\ pc[p] \in Starts /\ contested' = contested
      BY <1>6, <2>1 DEF Bind, Starts, Looking, Making, Named, history
    <3> QED BY <3>1, GiveUpTypes
  <2>2. CASE ~(dir[Temporary(p)].kind # "none" \/ FreeInodes = {})
    <3>1. pc' \in [Processes -> States]
      BY <1>6, <2>2, <1>l DEF Bind, Step, Types
    <3>2. dir' \in [Names -> {Absent} \union Nodes]
      BY <1>6, <2>2, <1>t, <1>f, <1>h, NextInodeIsFree DEF Bind, Step, Types
    <3>3. bound' \in [Processes -> Numbers]
      <4>1. bound' = [bound EXCEPT ![p][lane[p]] = NextInode]
        BY <1>6, <2>2 DEF Bind, Step
      <4>2. NextInode \in Inodes
        BY <1>6, <2>2, <1>t, <1>l, NextInodeIsFree, NodeTypes DEF Bind
      <4> QED BY <4>1, <4>2, <1>t DEF Types, Numbers
    <3> QED BY <1>6, <2>2, <3>1, <3>2, <3>3 DEF Bind, Step, Types, process, history
  <2> QED BY <2>1, <2>2
<1>7. CASE Identify(p)
  <2>1. CASE dir[Temporary(p)].kind # "socket"
    <3>1. GiveUp(p, "contest") /\ pc[p] \in Starts /\ contested' = contested
      BY <1>7, <2>1 DEF Identify, Starts, Looking, Making, Named, history
    <3> QED BY <3>1, GiveUpTypes
  <2>2. CASE ~(dir[Temporary(p)].kind # "socket")
    <3>1. pc' \in [Processes -> States]
      BY <1>7, <2>2, <1>l DEF Identify, Step, Types
    <3>2. identity' \in [Processes -> Numbers]
      <4>1. identity' = [identity EXCEPT ![p][lane[p]] = dir[Temporary(p)].inode]
        BY <1>7, <2>2 DEF Identify, Step
      <4>2. dir[Temporary(p)].inode \in Inodes
        BY <1>7, <2>2, <1>t, <1>l, NextInodeIsFree, NodeTypes DEF Identify
      <4> QED BY <4>1, <4>2, <1>t DEF Types, Numbers
    <3> QED BY <1>7, <2>2, <3>1, <3>2 DEF Identify, Step, Types, process, history
  <2> QED BY <2>1, <2>2
<1>8. CASE Chmod(p)
  <2>1. CASE dir[Temporary(p)].kind = "none"
    <3>1. GiveUp(p, "contest") /\ pc[p] \in Starts /\ contested' = contested
      BY <1>8, <2>1 DEF Chmod, Starts, Looking, Making, Named, history
    <3> QED BY <3>1, GiveUpTypes
  <2>2. CASE ~(dir[Temporary(p)].kind = "none")
    <3>1. pc' \in [Processes -> States]
      BY <1>8, <2>2, <1>l DEF Chmod, Step, Types
    <3> QED BY <1>8, <2>2, <3>1 DEF Chmod, Step, Types, process, history
  <2> QED BY <2>1, <2>2
<1>9. CASE IdentifyAgain(p)
  <2>1. CASE ~IsOwn(p, Temporary(p))
    <3>1. GiveUp(p, "contest") /\ pc[p] \in Starts /\ contested' = contested
      BY <1>9, <2>1 DEF IdentifyAgain, Starts, Looking, Making, Named, history
    <3> QED BY <3>1, GiveUpTypes
  <2>2. CASE ~(~IsOwn(p, Temporary(p)))
    <3>1. pc' \in [Processes -> States]
      BY <1>9, <2>2, <1>l DEF IdentifyAgain, Step, Types
    <3> QED BY <1>9, <2>2, <3>1 DEF IdentifyAgain, Step, Types, process, history
  <2> QED BY <2>1, <2>2
<1>10. CASE Publish(p)
  <2>1. CASE dir[Target(lane[p])].kind # "none" \/ dir[Temporary(p)].kind = "none"
    <3>1. GiveUp(p, "contest") /\ pc[p] \in Starts /\ contested' = contested
      BY <1>10, <2>1 DEF Publish, Starts, Looking, Making, Named, history
    <3> QED BY <3>1, GiveUpTypes
  <2>2. CASE ~(dir[Target(lane[p])].kind # "none" \/ dir[Temporary(p)].kind = "none")
    <3>1. pc' \in [Processes -> States]
      BY <1>10, <2>2, <1>l DEF Publish, Step, Types
    <3>2. dir' \in [Names -> {Absent} \union Nodes]
      BY <1>10, <2>2, <1>t, <1>f, <1>h DEF Publish, Step, Types
    <3> QED BY <1>10, <2>2, <3>1, <3>2 DEF Publish, Step, Types, process, history
  <2> QED BY <2>1, <2>2
<1>11. CASE Verify(p)
  <2>1. CASE ~IsOwn(p, Target(lane[p]))
    <3>1. GiveUp(p, "contest") /\ pc[p] \in Starts /\ contested' = contested
      BY <1>11, <2>1 DEF Verify, Starts, Looking, Making, Named, history
    <3> QED BY <3>1, GiveUpTypes
  <2>2. CASE ~(~IsOwn(p, Target(lane[p])))
    <3>1. PICK s \in States : pc' = [pc EXCEPT ![p] = s]
      <4>1. CASE lane[p] = 1
        BY <1>11, <2>2, <4>1, <1>l DEF Verify, Lanewise, Step
      <4>2. CASE lane[p] # 1
        BY <1>11, <2>2, <4>2, <1>l DEF Verify, Lanewise, Step
      <4> QED BY <4>1, <4>2
    <3>2. lane' \in [Processes -> Lanes]
      <4>1. lane' = lane \/ lane' = [lane EXCEPT ![p] = 3 - lane[p]]
        BY <1>11, <2>2 DEF Verify, Lanewise, Step
      <4>2. 3 - lane[p] \in Lanes
        BY <1>11, <2>2, <1>t, <1>l, NextInodeIsFree, NodeTypes DEF Verify
      <4> QED BY <4>1, <4>2, <1>t DEF Types
    <3> QED BY <1>11, <2>2, <3>1, <3>2 DEF Verify, Lanewise, Step, Types, process,
       history
  <2> QED BY <2>1, <2>2
<1>12. CASE Complete(p)
  <2>1. pc' \in [Processes -> States]
    BY <1>12, <1>l DEF Complete, Step, Types
  <2> QED BY <1>12, <2>1 DEF Complete, Step, Types, process, history
<1>13. CASE CallFails(p)
  <2>1. pc[p] \in Starts /\ contested' = contested
    BY <1>13, CallFailsStep DEF GivenUp
  <2> QED BY <1>13, <2>1, GiveUpTypes DEF CallFails
<1>14. CASE Close(p)
  <2>1. pc' \in [Processes -> States]
    BY <1>14, <1>l DEF Close, Step, Types
  <2>2. todo' \in [Processes -> Seq(Entries)]
    BY <1>14, <1>h, OwnedIs DEF Close, Step, Types
  <2>3. bound' \in [Processes -> Numbers]
    BY <1>14, <1>l DEF Close, Step, Types, Numbers, NoInodes
  <2>4. contested' \in [Processes -> BOOLEAN]
    BY <1>14 DEF Close, Step, Types
  <2> QED BY <1>14, <2>1, <2>2, <2>3, <2>4 DEF Close, Step, Types, process, history
<1>15. CASE DropRuntime(p)
  <2>1. pc' \in [Processes -> States]
    BY <1>15, <1>l DEF DropRuntime, Step, Types
  <2>2. todo' \in [Processes -> Seq(Entries)]
    BY <1>15, <1>h, OwnedIs DEF DropRuntime, Step, Types
  <2>3. contested' \in [Processes -> BOOLEAN]
    BY <1>15 DEF DropRuntime, Step, Types
  <2> QED BY <1>15, <2>1, <2>2, <2>3 DEF DropRuntime, Step, Types, process, history
<1>16. CASE LookForOwned(p)
  <2>1. pc' \in [Processes -> States]
    BY <1>16, <1>l DEF LookForOwned, Looks, Step, Types
  <2>2. todo' \in [Processes -> Seq(Entries)]
    BY <1>16, <1>h, OwnedIs DEF LookForOwned, Looks, Step, Types
  <2> QED BY <1>16, <2>1, <2>2 DEF LookForOwned, Looks, Step, Types, process, history
<1>17. CASE UnlinkOwned(p)
  <2>1. pc' \in [Processes -> States]
    BY <1>17, <1>l DEF UnlinkOwned, Step, Types
  <2>2. todo' \in [Processes -> Seq(Entries)]
    BY <1>17, <1>h, OwnedIs DEF UnlinkOwned, Step, Types
  <2>3. dir' \in [Names -> {Absent} \union Nodes]
    BY <1>17, <1>t, <1>f, <1>h DEF UnlinkOwned, Step, Types
  <2> QED BY <1>17, <2>1, <2>2, <2>3 DEF UnlinkOwned, Step, Types, process, history
<1>18. CASE End(p)
  <2>1. pc' \in [Processes -> States]
    BY <1>18, <1>l DEF End, Leave, Step, Types
  <2>2. lane' \in [Processes -> Lanes]
    BY <1>18, <1>l DEF End, Leave, Step, Types
  <2>3. ids' \in [Processes -> Ids \union {Unknown}] /\ bound' \in [Processes ->
     Numbers] /\ identity' \in [Processes -> Numbers] /\ todo' \in [Processes ->
     Seq(Entries)]
    BY <1>18, <1>l DEF End, Leave, Step, Types, Numbers, NoInodes
  <2> QED BY <1>18, <2>1, <2>2, <2>3 DEF End, Leave, Step, Types, process, history
<1>19. CASE Kill(p)
  <2>1. pc' \in [Processes -> States]
    BY <1>19, <1>l DEF Kill, Leave, Step, Types
  <2>2. lane' \in [Processes -> Lanes]
    BY <1>19, <1>l DEF Kill, Leave, Step, Types
  <2>3. ids' \in [Processes -> Ids \union {Unknown}] /\ bound' \in [Processes ->
     Numbers] /\ identity' \in [Processes -> Numbers] /\ todo' \in [Processes ->
     Seq(Entries)]
    BY <1>19, <1>l DEF Kill, Leave, Step, Types, Numbers, NoInodes
  <2> QED BY <1>19, <2>1, <2>2, <2>3 DEF Kill, Leave, Step, Types, process, history
<1>20. CASE RemovalFails(p)
  <2>1. pc' \in [Processes -> States]
    BY <1>20, <1>l DEF RemovalFails, Step, Types
  <2>2. todo' \in [Processes -> Seq(Entries)]
    BY <1>20, <1>h DEF RemovalFails, Step, Types
  <2> QED BY <1>20, <2>1, <2>2 DEF RemovalFails, Step, Types, process
<1> QED
  BY <1>1, <1>2, <1>3, <1>4, <1>5, <1>6, <1>7, <1>8, <1>9, <1>10, <1>11, <1>12, <1>13,
     <1>14, <1>15, <1>16, <1>17, <1>18, <1>19, <1>20 DEF Begin, Finish

LEMMA OperatorTypes ==
  ASSUME Types, NEW l \in Lanes, NEW kind \in {"file", "socket"}, OperatorReplaces(l, kind)
  PROVE  Types'
<1>1. Node(kind, NextInode, "operator") \in Nodes
  BY OperatorStep, NextInodeIsFree DEF Node, Nodes
<1>2. dir' \in [Names -> {Absent} \union Nodes]
  <2>1. dir' = [dir EXCEPT ![Target(l)] = Node(kind, NextInode, "operator")]
    BY OperatorStep
  <2> QED BY <1>1, <2>1 DEF Types
<1>3. contested' \in [Processes -> BOOLEAN]
  BY DEF OperatorReplaces, Types
<1> QED BY <1>2, <1>3, OperatorStep DEF Types

-----------------------------------------------------------------------------
(* What the steps of a process do to the directory, to its place in its    *)
(* life and to its listeners.                                              *)

Vanishes(p, n) ==
  /\ dir'[n] = Absent
  /\ \/ pc[p] = "unlink" /\ n = Target(lane[p])
     \/ pc[p] = "unlinking" /\ n = Head(todo[p]).name
     \/ pc[p] = "publish" /\ n = Temporary(p)

Appears(p, n) ==
  /\ dir[n].kind = "none"
  /\ \/ /\ pc[p] = "bind" /\ n = Temporary(p) /\ FreeInodes # {}
        /\ dir'[n] = Node("socket", NextInode, p)
        /\ pc'[p] = "identify" /\ Temporary(p)' = Temporary(p)
     \/ /\ pc[p] = "publish" /\ n = Target(lane[p]) /\ dir'[n] = dir[Temporary(p)]
        /\ pc'[p] = "verify" /\ lane'[p] = lane[p]

LEMMA DirStep ==
  ASSUME Types, NEW p \in Processes, Begin(p) \/ Finish(p), NEW n \in Names
  PROVE  dir'[n] = dir[n] \/ Vanishes(p, n) \/ Appears(p, n)
<1>1. CASE Start(p)
  BY <1>1, StartStep DEF Types, Vanishes, Appears
<1>2. CASE Preflight(p)
  BY <1>2, PreflightStep DEF GivenUp, Moved, Passed, Kept, Types, Vanishes, Appears
<1>3. CASE PreflightTemporary(p)
  BY <1>3, PreflightTemporaryStep DEF GivenUp, Moved, Passed, Kept, Types, Vanishes,
     Appears
<1>4. CASE InspectStale(p)
  BY <1>4, InspectStaleStep DEF GivenUp, Moved, Passed, Kept, Types, Vanishes, Appears
<1>5. CASE UnlinkStale(p)
  BY <1>5, UnlinkStaleStep, NamesDiffer DEF GivenUp, Moved, Passed, Kept, Types,
     Vanishes, Appears
<1>6. CASE Bind(p)
  BY <1>6, BindStep DEF GivenUp, Moved, Kept, Types, Vanishes, Appears, Temporary
<1>7. CASE Identify(p)
  BY <1>7, IdentifyStep DEF GivenUp, Moved, Kept, Types, Vanishes, Appears
<1>8. CASE Chmod(p)
  BY <1>8, ChmodStep DEF GivenUp, Moved, Kept, Types, Vanishes, Appears
<1>9. CASE IdentifyAgain(p)
  BY <1>9, IdentifyAgainStep DEF GivenUp, Moved, Kept, Types, Vanishes, Appears
<1>10. CASE Publish(p)
  <2>1. CASE GivenUp(p, "contest")
    BY <2>1 DEF GivenUp
  <2>2. CASE ~GivenUp(p, "contest")
    <3>1. /\ pc[p] = "publish" /\ pc'[p] = "verify" /\ lane'[p] = lane[p]
          /\ dir[Target(lane[p])].kind = "none"
          /\ dir' = [dir EXCEPT ![Target(lane[p])] = dir[Temporary(p)],
                                ![Temporary(p)] = Absent]
      BY <1>10, <2>2, PublishStep DEF Moved
    <3>2. dir'[n] = IF n = Temporary(p) THEN Absent
                    ELSE IF n = Target(lane[p]) THEN dir[Temporary(p)] ELSE dir[n]
      BY <3>1 DEF Types
    <3> QED BY <3>1, <3>2 DEF Vanishes, Appears
  <2> QED BY <2>1, <2>2
<1>11. CASE Verify(p)
  BY <1>11, VerifyStep DEF GivenUp, Moved, Passed, Kept, Types, Vanishes, Appears
<1>12. CASE Complete(p)
  BY <1>12, CompleteStep DEF Moved, Kept, Types, Vanishes, Appears
<1>13. CASE CallFails(p)
  BY <1>13, CallFailsStep DEF GivenUp, Types, Vanishes, Appears
<1>14. CASE Close(p)
  BY <1>14, CloseStep DEF Moved, Types, Vanishes, Appears
<1>15. CASE DropRuntime(p)
  BY <1>15, CloseStep DEF Moved, Types, Vanishes, Appears
<1>16. CASE LookForOwned(p)
  BY <1>16, LookForOwnedStep DEF Types, Vanishes, Appears
<1>17. CASE UnlinkOwned(p)
  BY <1>17, UnlinkOwnedStep DEF Moved, Types, Vanishes, Appears
<1>18. CASE End(p)
  BY <1>18, LeaveStep DEF Types, Vanishes, Appears
<1>19. CASE Kill(p)
  BY <1>19, LeaveStep DEF Types, Vanishes, Appears
<1>20. CASE RemovalFails(p)
  BY <1>20, RemovalFailsStep DEF Moved, Types, Vanishes, Appears, Removing
<1> QED
  BY <1>1, <1>2, <1>3, <1>4, <1>5, <1>6, <1>7, <1>8, <1>9, <1>10, <1>11, <1>12, <1>13,
     <1>14, <1>15, <1>16, <1>17, <1>18, <1>19, <1>20 DEF Begin, Finish

LEMMA PcStep ==
  ASSUME Types, NEW p \in Processes, Begin(p) \/ Finish(p)
  PROVE  \/ Start(p)
         \/ /\ pc[p] \notin Over /\ pc'[p] # "idle"
            /\ \A q \in Processes : contested[q] => contested'[q]
            /\ pc'[p] \in Starts => pc[p] \in Starts
            /\ pc'[p] \in Starts \union {"running"} =>
                 pc[p] \in Starts /\ why'[p] = why[p] /\ ids'[p] = ids[p]
            /\ pc'[p] \in Removing =>
                 \/ pc[p] \in Starts \union Removing
                 \/ pc[p] = "running" /\ (Close(p) \/ DropRuntime(p))
            /\ pc[p] \in {"unlink", "unlinking"} => pc'[p] # pc[p]
<1>1. CASE Start(p)
  BY <1>1, StartStep DEF Types, States, Starts, Looking, Making, Named, Over, Removing
<1>2. CASE Preflight(p)
  BY <1>2, PreflightStep DEF GivenUp, Moved, Passed, Kept, Types, States, Starts,
     Looking, Making, Named, Over, Removing
<1>3. CASE PreflightTemporary(p)
  BY <1>3, PreflightTemporaryStep DEF GivenUp, Moved, Passed, Kept, Types, States,
     Starts, Looking, Making, Named, Over, Removing
<1>4. CASE InspectStale(p)
  BY <1>4, InspectStaleStep DEF GivenUp, Moved, Passed, Kept, Types, States, Starts,
     Looking, Making, Named, Over, Removing
<1>5. CASE UnlinkStale(p)
  BY <1>5, UnlinkStaleStep DEF GivenUp, Moved, Passed, Kept, Types, States, Starts,
     Looking, Making, Named, Over, Removing
<1>6. CASE Bind(p)
  BY <1>6, BindStep DEF GivenUp, Moved, Kept, Types, States, Starts, Looking, Making,
     Named, Over, Removing
<1>7. CASE Identify(p)
  BY <1>7, IdentifyStep DEF GivenUp, Moved, Kept, Types, States, Starts, Looking,
     Making, Named, Over, Removing
<1>8. CASE Chmod(p)
  BY <1>8, ChmodStep DEF GivenUp, Moved, Kept, Types, States, Starts, Looking, Making,
     Named, Over, Removing
<1>9. CASE IdentifyAgain(p)
  BY <1>9, IdentifyAgainStep DEF GivenUp, Moved, Kept, Types, States, Starts, Looking,
     Making, Named, Over, Removing
<1>10. CASE Publish(p)
  BY <1>10, PublishStep DEF GivenUp, Moved, Kept, Types, States, Starts, Looking,
     Making, Named, Over, Removing
<1>11. CASE Verify(p)
  BY <1>11, VerifyStep DEF GivenUp, Moved, Passed, Kept, Types, States, Starts,
     Looking, Making, Named, Over, Removing
<1>12. CASE Complete(p)
  BY <1>12, CompleteStep DEF Moved, Kept, Types, States, Starts, Looking, Making,
     Named, Over, Removing
<1>13. CASE CallFails(p)
  BY <1>13, CallFailsStep DEF GivenUp, Types, States, Starts, Looking, Making, Named,
     Over, Removing
<1>14. CASE Close(p)
  BY <1>14, CloseStep DEF Moved, Types, States, Starts, Looking, Making, Named, Over,
     Removing
<1>15. CASE DropRuntime(p)
  BY <1>15, CloseStep DEF Moved, Types, States, Starts, Looking, Making, Named, Over,
     Removing
<1>16. CASE LookForOwned(p)
  BY <1>16, LookForOwnedStep DEF Types, States, Starts, Looking, Making, Named, Over,
     Removing
<1>17. CASE UnlinkOwned(p)
  BY <1>17, UnlinkOwnedStep DEF Moved, Types, States, Starts, Looking, Making, Named,
     Over, Removing
<1>18. CASE End(p)
  BY <1>18, LeaveStep DEF Types, States, Starts, Looking, Making, Named, Over,
     Removing
<1>19. CASE Kill(p)
  BY <1>19, LeaveStep DEF Types, States, Starts, Looking, Making, Named, Over,
     Removing
<1>20. CASE RemovalFails(p)
  BY <1>20, RemovalFailsStep DEF Moved, Types, States, Starts, Looking, Making, Named,
     Over, Removing
<1> QED
  BY <1>1, <1>2, <1>3, <1>4, <1>5, <1>6, <1>7, <1>8, <1>9, <1>10, <1>11, <1>12, <1>13,
     <1>14, <1>15, <1>16, <1>17, <1>18, <1>19, <1>20 DEF Begin, Finish

LEMMA BoundStep ==
  ASSUME Types, NEW p \in Processes, Begin(p) \/ Finish(p), NEW l \in Lanes
  PROVE  \/ bound'[p][l] \in {bound[p][l], Unknown}
         \/ /\ pc[p] = "bind" /\ pc'[p] = "identify" /\ FreeInodes # {}
            /\ l = lane[p] /\ bound'[p][l] = NextInode
<1>1. CASE Start(p)
  BY <1>1, StartStep
<1>2. CASE Preflight(p)
  BY <1>2, PreflightStep DEF GivenUp, Moved, Passed, Kept
<1>3. CASE PreflightTemporary(p)
  BY <1>3, PreflightTemporaryStep DEF GivenUp, Moved, Passed, Kept
<1>4. CASE InspectStale(p)
  BY <1>4, InspectStaleStep DEF GivenUp, Moved, Passed, Kept
<1>5. CASE UnlinkStale(p)
  BY <1>5, UnlinkStaleStep DEF GivenUp, Moved, Passed, Kept
<1>6. CASE Bind(p)
  <2>1. CASE GivenUp(p, "name")
    BY <2>1 DEF GivenUp
  <2>2. CASE ~GivenUp(p, "name")
    <3>1. bound'[p] = [bound[p] EXCEPT ![lane[p]] = NextInode]
      BY <1>6, <2>2, BindStep
    <3>2. bound'[p][l] = IF l = lane[p] THEN NextInode ELSE bound[p][l]
      BY <3>1 DEF Types, Numbers
    <3>3. pc[p] = "bind" /\ pc'[p] = "identify" /\ FreeInodes # {}
      BY <1>6, <2>2, BindStep DEF Moved
    <3> QED BY <3>2, <3>3
  <2> QED BY <2>1, <2>2
<1>7. CASE Identify(p)
  BY <1>7, IdentifyStep DEF GivenUp, Moved, Kept
<1>8. CASE Chmod(p)
  BY <1>8, ChmodStep DEF GivenUp, Moved, Kept
<1>9. CASE IdentifyAgain(p)
  BY <1>9, IdentifyAgainStep DEF GivenUp, Moved, Kept
<1>10. CASE Publish(p)
  BY <1>10, PublishStep DEF GivenUp, Moved, Kept
<1>11. CASE Verify(p)
  BY <1>11, VerifyStep DEF GivenUp, Moved, Passed, Kept
<1>12. CASE Complete(p)
  BY <1>12, CompleteStep DEF Moved, Kept
<1>13. CASE CallFails(p)
  BY <1>13, CallFailsStep DEF GivenUp
<1>14. CASE Close(p)
  BY <1>14, CloseStep DEF Moved
<1>15. CASE DropRuntime(p)
  BY <1>15, CloseStep DEF Moved
<1>16. CASE LookForOwned(p)
  BY <1>16, LookForOwnedStep
<1>17. CASE UnlinkOwned(p)
  BY <1>17, UnlinkOwnedStep DEF Moved
<1>18. CASE End(p)
  BY <1>18, LeaveStep
<1>19. CASE Kill(p)
  BY <1>19, LeaveStep
<1>20. CASE RemovalFails(p)
  BY <1>20, RemovalFailsStep DEF Moved, Removing
<1> QED
  BY <1>1, <1>2, <1>3, <1>4, <1>5, <1>6, <1>7, <1>8, <1>9, <1>10, <1>11, <1>12, <1>13,
     <1>14, <1>15, <1>16, <1>17, <1>18, <1>19, <1>20 DEF Begin, Finish

(* A name that another has made is his, and a temporary one stays his.     *)
LEMMA OthersNames ==
  ASSUME IInv, NEW p \in Processes, Begin(p) \/ Finish(p), NEW n \in Names,
         NEW r \in Processes \union {"operator"}, r # p
  PROVE  /\ MadeBy(n, r)' => dir'[n] = dir[n]
         /\ MadeBy(n, r) /\ n \notin Targets => dir'[n] = dir[n]
<1>1. CASE dir'[n] = dir[n]
  BY <1>1
<1>2. CASE Vanishes(p, n)
  <2>1. dir'[n].kind = "none"
    BY <1>2, NodeFields DEF Vanishes
  <2>2. ~(MadeBy(n, r) /\ n \notin Targets)
    <3>1. CASE pc[p] = "unlink"
      BY <1>2, <3>1, NamesDiffer DEF Vanishes, Types, IInv
    <3>2. CASE pc[p] = "unlinking"
      <4>1. todo[p] # << >> /\ todo[p] \in Seq(Entries)
        BY <3>2 DEF IInv, RemovesItsOwn, Removes, Types, Removing
      <4>2. 1 \in DOMAIN todo[p] /\ todo[p][1] = Head(todo[p])
        BY <4>1
      <4>3. n \in Targets \/ dir[n] = Node("socket", Head(todo[p]).inode, p)
        BY <1>2, <3>2, <4>2 DEF Vanishes, IInv, RemovesItsOwn, Removes, Removing
      <4> QED BY <4>3, NodeFields DEF MadeBy
    <3>3. CASE pc[p] = "publish"
      BY <1>2, <3>3, NodeFields DEF Vanishes, IInv, KnowsItsOwn, Knows, Named, MadeBy
    <3> QED BY <1>2, <3>1, <3>2, <3>3 DEF Vanishes
  <2> QED BY <2>1, <2>2 DEF MadeBy
<1>3. CASE Appears(p, n)
  <2>1. dir'[n].by = p
    BY <1>3, NodeFields DEF Appears, IInv, KnowsItsOwn, Knows, Named
  <2> QED BY <1>3, <2>1 DEF Appears, MadeBy
<1> QED BY <1>1, <1>2, <1>3, DirStep DEF IInv

LEMMA NoFileAppears ==
  ASSUME IInv, NEW p \in Processes, Begin(p) \/ Finish(p), NEW n \in Names,
         dir'[n].kind = "file"
  PROVE  dir'[n] = dir[n]
<1>1. ~Vanishes(p, n)
  BY NodeFields DEF Vanishes
<1>2. ~Appears(p, n)
  BY NodeFields DEF Appears, IInv, KnowsItsOwn, Knows, Named
<1> QED BY <1>1, <1>2, DirStep DEF IInv

-----------------------------------------------------------------------------
(* Every step of a process keeps the invariant, part by part.              *)

(* What a process has published stays published, and grows by one lane. *)
LEMMA PublishedStep ==
  ASSUME Types, NEW p \in Processes, Begin(p) \/ Finish(p)
  PROVE  /\ \A l \in Published(p)' :
              /\ \/ l \in Published(p)
                 \/ /\ pc[p] = "publish" /\ pc'[p] = "verify" /\ l = lane[p]
                    /\ dir[Target(l)].kind = "none"
                    /\ dir'[Target(l)] = dir[Temporary(p)] \/ Target(l) = Temporary(p)
              /\ identity'[p][l] = identity[p][l] /\ bound'[p][l] = bound[p][l]
         /\ pc'[p] \in Starts \union {"running"} => Published(p) \subseteq Published(p)'
<1>0. lane[p] \in {1, 2}
  BY DEF Types, Lanes
<1>1. CASE Start(p)
  BY <1>1, StartStep, <1>0 DEF Types, Published, Lanes, Numbers, Starts, Looking,
     Making, Named
<1>2. CASE Preflight(p)
  BY <1>2, PreflightStep, <1>0 DEF GivenUp, Moved, Passed, Kept, Types, Published,
     Lanes, Numbers, Starts, Looking, Making, Named
<1>3. CASE PreflightTemporary(p)
  BY <1>3, PreflightTemporaryStep, <1>0 DEF GivenUp, Moved, Passed, Kept, Types,
     Published, Lanes, Numbers, Starts, Looking, Making, Named
<1>4. CASE InspectStale(p)
  <2>1. CASE GivenUp(p, "foreign")
    BY <2>1 DEF GivenUp, Published, Starts, Looking, Making, Named
  <2>2. CASE ~GivenUp(p, "foreign")
    <3>1. /\ pc[p] = "inspect" /\ Kept(p)
          /\ pc'[p] = "unlink" \/ Passed(p, "inspect", "bind")
      BY <1>4, <2>2, InspectStaleStep DEF Moved
    <3>2. Published(p) = {}
      BY <3>1 DEF Published, Making, Named
    <3>3. Published(p)' = {}
      BY <1>0, <3>1 DEF Passed, Published, Lanes, Making, Named
    <3> QED BY <3>2, <3>3
  <2> QED BY <2>1, <2>2
<1>5. CASE UnlinkStale(p)
  BY <1>5, UnlinkStaleStep, <1>0 DEF GivenUp, Moved, Passed, Kept, Types, Published,
     Lanes, Numbers, Starts, Looking, Making, Named
<1>6. CASE Bind(p)
  <2>1. CASE GivenUp(p, "name")
    BY <2>1 DEF GivenUp, Published, Starts, Looking, Making, Named
  <2>2. CASE ~GivenUp(p, "name")
    <3>1. bound'[p] = [bound[p] EXCEPT ![lane[p]] = NextInode]
      BY <1>6, <2>2, BindStep
    <3>2. \A l \in Lanes : l < lane[p] => bound'[p][l] = bound[p][l]
      BY <1>0, <3>1 DEF Types, Numbers, Lanes
    <3>3. /\ Published(p)' = {l \in Lanes : l < lane[p]}
          /\ Published(p) = {l \in Lanes : l < lane[p]}
      BY <1>6, <2>2, BindStep DEF Published, Making, Named, Moved
    <3>4. identity'[p] = identity[p]
      BY <1>6, <2>2, BindStep
    <3> QED BY <3>2, <3>3, <3>4
  <2> QED BY <2>1, <2>2
<1>7. CASE Identify(p)
  <2>1. CASE GivenUp(p, "contest")
    BY <2>1 DEF GivenUp, Published, Starts, Looking, Making, Named
  <2>2. CASE ~GivenUp(p, "contest")
    <3>1. identity'[p] = [identity[p] EXCEPT ![lane[p]] = dir[Temporary(p)].inode]
      BY <1>7, <2>2, IdentifyStep
    <3>2. \A l \in Lanes : l < lane[p] => identity'[p][l] = identity[p][l]
      BY <1>0, <3>1 DEF Types, Numbers, Lanes
    <3>3. /\ Published(p)' = {l \in Lanes : l < lane[p]}
          /\ Published(p) = {l \in Lanes : l < lane[p]}
      BY <1>7, <2>2, IdentifyStep DEF Published, Making, Named, Moved
    <3>4. bound'[p] = bound[p]
      BY <1>7, <2>2, IdentifyStep
    <3> QED BY <3>2, <3>3, <3>4
  <2> QED BY <2>1, <2>2
<1>8. CASE Chmod(p)
  BY <1>8, ChmodStep, <1>0 DEF GivenUp, Moved, Kept, Types, Published, Lanes, Numbers,
     Starts, Looking, Making, Named
<1>9. CASE IdentifyAgain(p)
  BY <1>9, IdentifyAgainStep, <1>0 DEF GivenUp, Moved, Kept, Types, Published, Lanes,
     Numbers, Starts, Looking, Making, Named
<1>10. CASE Publish(p)
  <2>1. CASE GivenUp(p, "contest")
    BY <2>1 DEF GivenUp, Published, Starts, Looking, Making, Named
  <2>2. CASE ~GivenUp(p, "contest")
    <3>1. /\ pc[p] = "publish" /\ Moved(p, "verify") /\ Kept(p)
          /\ dir[Target(lane[p])].kind = "none"
          /\ dir' = [dir EXCEPT ![Target(lane[p])] = dir[Temporary(p)],
                                ![Temporary(p)] = Absent]
      BY <1>10, <2>2, PublishStep
    <3>2. Target(lane[p]) \in Names
      BY NamesDiffer DEF Types
    <3>3. \/ dir'[Target(lane[p])] = dir[Temporary(p)]
          \/ Target(lane[p]) = Temporary(p)
      BY <3>1, <3>2 DEF Types
    <3>4. /\ Published(p)' = {l \in Lanes : l < lane[p] \/ l = lane[p]}
          /\ Published(p) = {l \in Lanes : l < lane[p]}
      BY <3>1 DEF Published, Making, Named, Moved
    <3> QED BY <3>1, <3>3, <3>4 DEF Kept, Moved
  <2> QED BY <2>1, <2>2
<1>11. CASE Verify(p)
  BY <1>11, VerifyStep, <1>0 DEF GivenUp, Moved, Passed, Kept, Types, Published,
     Lanes, Numbers, Starts, Looking, Making, Named
<1>12. CASE Complete(p)
  BY <1>12, CompleteStep, <1>0 DEF Moved, Kept, Types, Published, Lanes, Numbers,
     Starts, Looking, Making, Named
<1>13. CASE CallFails(p)
  BY <1>13, CallFailsStep, <1>0 DEF GivenUp, Types, Published, Lanes, Numbers, Starts,
     Looking, Making, Named
<1>14. CASE Close(p)
  BY <1>14, CloseStep, <1>0 DEF Moved, Types, Published, Lanes, Numbers, Starts,
     Looking, Making, Named
<1>15. CASE DropRuntime(p)
  BY <1>15, CloseStep, <1>0 DEF Moved, Types, Published, Lanes, Numbers, Starts,
     Looking, Making, Named
<1>16. CASE LookForOwned(p)
  BY <1>16, LookForOwnedStep, <1>0 DEF Types, Published, Lanes, Numbers, Starts,
     Looking, Making, Named
<1>17. CASE UnlinkOwned(p)
  BY <1>17, UnlinkOwnedStep, <1>0 DEF Moved, Types, Published, Lanes, Numbers, Starts,
     Looking, Making, Named
<1>18. CASE End(p)
  BY <1>18, LeaveStep, <1>0 DEF Types, Published, Lanes, Numbers, Starts, Looking,
     Making, Named
<1>19. CASE Kill(p)
  BY <1>19, LeaveStep, <1>0 DEF Types, Published, Lanes, Numbers, Starts, Looking,
     Making, Named
<1>20. CASE RemovalFails(p)
  BY <1>20, RemovalFailsStep, <1>0 DEF Moved, Types, Published, Lanes, Numbers, Starts,
     Looking, Making, Named, Removing
<1> QED
  BY <1>1, <1>2, <1>3, <1>4, <1>5, <1>6, <1>7, <1>8, <1>9, <1>10, <1>11, <1>12, <1>13,
     <1>14, <1>15, <1>16, <1>17, <1>18, <1>19, <1>20 DEF Begin, Finish

LEMMA OthersPublished ==
  ASSUME Types, NEW p \in Processes, Begin(p) \/ Finish(p), NEW r \in Processes, r # p
  PROVE  Published(r)' = Published(r) /\ Temporary(r)' = Temporary(r)
BY Others DEF Published, Temporary

LEMMA KnowsItsOwnKept ==
  ASSUME IInv, NEW p \in Processes, Begin(p) \/ Finish(p)
  PROVE  KnowsItsOwn'
<1> USE DEF IInv
<1>1. SUFFICES ASSUME NEW r \in Processes PROVE Knows(r)'
  BY DEF KnowsItsOwn
<1>k. Knows(r)
  BY DEF KnowsItsOwn
<1>2. CASE r # p
  <2>1. pc[r] \in Named => dir'[Temporary(r)] = dir[Temporary(r)]
    <3>1. pc[r] \in Named =>
            /\ Temporary(r) \in Names /\ Temporary(r) \notin Targets
            /\ MadeBy(Temporary(r), r)
      BY <1>k, TemporaryName, NodeFields DEF Knows, Starts, Making, MadeBy
    <3> QED BY <1>2, <3>1, OthersNames
  <2>2. Published(r)' = Published(r) /\ Temporary(r)' = Temporary(r)
    BY <1>2, OthersPublished
  <2>3. /\ pc'[r] = pc[r] /\ lane'[r] = lane[r] /\ ids'[r] = ids[r]
        /\ bound'[r] = bound[r] /\ identity'[r] = identity[r] /\ why'[r] = why[r]
    BY <1>2, Others
  <2> QED BY <1>k, <2>1, <2>2, <2>3 DEF Knows
<1>3. CASE r = p
  <2>1. \A l \in Published(p)' : identity'[p][l] = bound'[p][l] /\ bound'[p][l] \in Inodes
    <3>1. pc[p] = "publish" => /\ identity[p][lane[p]] = bound[p][lane[p]]
                               /\ bound[p][lane[p]] \in Inodes
      <4>1. pc[p] = "publish" => Temporary(p) \in Names
        BY <1>3, <1>k, TemporaryName DEF Knows, Starts, Making, Named
      <4> QED BY <1>3, <1>k, <4>1, NodeTypes, NodeFields DEF Knows, Named
    <3> QED BY <1>3, <1>k, <3>1, PublishedStep DEF Knows
  <2>2. /\ pc'[p] # "idle"
        /\ pc'[p] \in Starts => ids'[p] \in Ids
    <3>1. CASE Start(p)
      BY <3>1, StartStep
    <3>2. CASE ~Start(p)
      BY <1>3, <1>k, <3>2, PcStep DEF Knows
    <3> QED BY <3>1, <3>2
  <2>3. pc'[p] \in Named =>
          /\ dir'[Temporary(p)'] = Node("socket", bound'[p][lane'[p]], p)
          /\ pc'[p] # "identify" => identity'[p][lane'[p]] = bound'[p][lane'[p]]
    <3>s. /\ Temporary(p)' = <<lane'[p], ids'[p]>> /\ Temporary(p) = <<lane[p], ids[p]>>
          /\ pc[p] \in Starts => Temporary(p) \in Names
      BY <1>3, <1>k, TemporaryName DEF Temporary, Knows
    <3>1. CASE Start(p)
      BY <3>1, StartStep DEF Named
    <3>2. CASE Preflight(p)
      BY <3>2, PreflightStep DEF GivenUp, Moved, Passed, Kept, Named
    <3>3. CASE PreflightTemporary(p)
      BY <3>3, PreflightTemporaryStep DEF GivenUp, Moved, Passed, Kept, Named
    <3>4. CASE InspectStale(p)
      BY <3>4, InspectStaleStep DEF GivenUp, Moved, Passed, Kept, Named
    <3>5. CASE UnlinkStale(p)
      BY <3>5, UnlinkStaleStep DEF GivenUp, Moved, Passed, Kept, Named
    <3>6. CASE Bind(p)
      <4>1. CASE GivenUp(p, "name")
        BY <4>1 DEF GivenUp, Named
      <4>2. CASE ~GivenUp(p, "name")
        <5>1. /\ pc'[p] = "identify" /\ lane'[p] = lane[p] /\ ids'[p] = ids[p]
              /\ pc[p] = "bind"
              /\ bound'[p] = [bound[p] EXCEPT ![lane[p]] = NextInode]
              /\ dir' = [dir EXCEPT ![Temporary(p)] = Node("socket", NextInode, p)]
          BY <3>6, <4>2, BindStep DEF Moved
        <5>2. bound'[p][lane[p]] = NextInode
          BY <5>1 DEF Types, Numbers
        <5>3. dir'[Temporary(p)] = Node("socket", NextInode, p)
          BY <5>1, <3>s DEF Types, Starts, Making
        <5> QED BY <5>1, <5>2, <5>3, <3>s
      <4> QED BY <4>1, <4>2
    <3>7. CASE Identify(p)
      <4>1. CASE GivenUp(p, "contest")
        BY <4>1 DEF GivenUp, Named
      <4>2. CASE ~GivenUp(p, "contest")
        <5>1. /\ pc'[p] = "chmod" /\ lane'[p] = lane[p] /\ ids'[p] = ids[p]
              /\ pc[p] = "identify" /\ bound'[p] = bound[p] /\ dir' = dir
              /\ identity'[p] = [identity[p] EXCEPT ![lane[p]] = dir[Temporary(p)].inode]
          BY <3>7, <4>2, IdentifyStep DEF Moved
        <5>2. identity'[p][lane[p]] = dir[Temporary(p)].inode
          BY <5>1 DEF Types, Numbers
        <5>3. dir[Temporary(p)] = Node("socket", bound[p][lane[p]], p)
          BY <5>1, <1>3, <1>k DEF Knows, Named
        <5> QED BY <5>1, <5>2, <5>3, <3>s, NodeFields
      <4> QED BY <4>1, <4>2
    <3>8. CASE Chmod(p)
      BY <3>8, ChmodStep, <1>3, <1>k, <3>s DEF GivenUp, Moved, Kept, Named, Knows
    <3>9. CASE IdentifyAgain(p)
      BY <3>9, IdentifyAgainStep, <1>3, <1>k, <3>s DEF GivenUp, Moved, Kept, Named,
         Knows
    <3>10. CASE Publish(p)
      BY <3>10, PublishStep DEF GivenUp, Moved, Kept, Named
    <3>11. CASE Verify(p)
      BY <3>11, VerifyStep DEF GivenUp, Moved, Passed, Kept, Named
    <3>12. CASE Complete(p)
      BY <3>12, CompleteStep DEF Moved, Kept, Named
    <3>13. CASE CallFails(p)
      BY <3>13, CallFailsStep DEF GivenUp, Named
    <3>14. CASE Close(p)
      BY <3>14, CloseStep DEF Moved, Named
    <3>15. CASE DropRuntime(p)
      BY <3>15, CloseStep DEF Moved, Named
    <3>16. CASE LookForOwned(p)
      BY <3>16, LookForOwnedStep DEF Named
    <3>17. CASE UnlinkOwned(p)
      BY <3>17, UnlinkOwnedStep DEF Moved, Named
    <3>18. CASE End(p)
      BY <3>18, LeaveStep DEF Named
    <3>19. CASE Kill(p)
      BY <3>19, LeaveStep DEF Named
    <3>20. CASE RemovalFails(p)
      BY <3>20, RemovalFailsStep DEF Moved, Named, Removing
    <3> QED
      BY <3>1, <3>2, <3>3, <3>4, <3>5, <3>6, <3>7, <3>8, <3>9, <3>10, <3>11, <3>12,
         <3>13, <3>14, <3>15, <3>16, <3>17, <3>18, <3>19, <3>20 DEF Begin, Finish
  <2>4. Temporary(p)' = <<lane'[p], ids'[p]>>
    BY DEF Temporary
  <2> QED BY <1>3, <2>1, <2>2, <2>3 DEF Knows
<1> QED BY <1>2, <1>3

(* The list of names to remove, one shorter. *)
LEMMA TodoTail ==
  ASSUME Types, NEW p \in Processes, todo[p] # << >>
  PROVE  /\ \A i \in DOMAIN Tail(todo[p]) :
              /\ i + 1 \in DOMAIN todo[p] /\ i + 1 # 1
              /\ Tail(todo[p])[i] = todo[p][i + 1]
         /\ \A i \in DOMAIN todo[p] :
              i # 1 => i - 1 \in DOMAIN Tail(todo[p]) /\ Tail(todo[p])[i - 1] = todo[p][i]
         /\ 1 \in DOMAIN todo[p] /\ todo[p][1] = Head(todo[p])
         /\ Head(todo[p]).name \in Names
<1>1. todo[p] \in Seq(Entries)
  BY DEF Types
<1>2. Head(todo[p]) \in Entries
  BY <1>1
<1> QED BY <1>1, <1>2 DEF Entries

LEMMA TodoNames ==
  ASSUME Types, NEW p \in Processes, NEW i \in DOMAIN todo[p]
  PROVE  todo[p][i].name \in Names /\ todo[p][i].inode \in Inodes \union {Unknown}
<1>1. todo[p] \in Seq(Entries)
  BY DEF Types
<1>2. todo[p][i] \in Entries
  BY <1>1
<1> QED BY <1>2 DEF Entries

(* What was missed stays missed, and a process's look is its own.          *)
LEMMA HistoryStep ==
  ASSUME Types, HistoryTypes, KnowsItsOwn, NEW p \in Processes, Begin(p) \/ Finish(p)
  PROVE  /\ HistoryTypes'
         /\ \A r \in Processes : missed[r] \subseteq missed'[r]
         /\ \A r \in Processes : r # p => missed'[r] = missed[r] /\ slipped'[r] = slipped[r]
<1> DEFINE Same == UNCHANGED <<missed, slipped>>
           Looked == UNCHANGED missed /\ slipped' = [slipped EXCEPT ![p] = FALSE]
           Missed(names) == /\ slipped' = slipped
                            /\ missed' = [missed EXCEPT ![p] = missed[p] \union names]
<1>1. \/ Same
      \/ Looked
      \/ CallFails(p) /\ Missed(Unidentified(p))
      \/ RemovalFails(p) /\ Missed({Head(todo[p]).name})
  <2>1. CASE Start(p) \/ Complete(p) \/ Close(p) \/ DropRuntime(p) \/ UnlinkOwned(p)
    BY <2>1 DEF Start, Complete, Close, DropRuntime, UnlinkOwned, history
  <2>2. CASE Preflight(p) \/ PreflightTemporary(p) \/ UnlinkStale(p) \/ Bind(p)
    BY <2>2 DEF Preflight, PreflightTemporary, UnlinkStale, Bind, history
  <2>3. CASE Identify(p) \/ Chmod(p) \/ IdentifyAgain(p) \/ Publish(p) \/ Verify(p)
    BY <2>3 DEF Identify, Chmod, IdentifyAgain, Publish, Verify, history
  <2>4. CASE End(p) \/ Kill(p)
    BY <2>4 DEF End, Kill, Leave, history
  <2>5. CASE InspectStale(p) \/ LookForOwned(p)
    BY <2>5 DEF InspectStale, LookForOwned, Looks
  <2>6. CASE CallFails(p)
    BY <2>6 DEF CallFails
  <2>7. CASE RemovalFails(p)
    BY <2>7 DEF RemovalFails
  <2> QED BY <2>1, <2>2, <2>3, <2>4, <2>5, <2>6, <2>7 DEF Begin, Finish
<1>2. CASE Same
  BY <1>2 DEF HistoryTypes
<1>3. CASE Looked
  BY <1>3 DEF HistoryTypes
<1>4. ASSUME NEW names \in SUBSET Names, Missed(names)
      PROVE  /\ HistoryTypes'
             /\ \A r \in Processes : missed[r] \subseteq missed'[r]
             /\ \A r \in Processes : r # p => missed'[r] = missed[r]
                                               /\ slipped'[r] = slipped[r]
  BY <1>4 DEF HistoryTypes
<1>5. CASE CallFails(p) /\ Missed(Unidentified(p))
  <2>1. pc[p] \in Starts
    BY <1>5, CallFailsStep DEF GivenUp
  <2>2. Temporary(p) \in Names /\ Target(lane[p]) \in Names
    BY <2>1, TemporaryName, NamesDiffer DEF KnowsItsOwn, Knows, Types
  <2>3. Unidentified(p) \in SUBSET Names
    BY <2>2 DEF Unidentified
  <2> QED BY <1>4, <1>5, <2>3
<1>6. CASE RemovalFails(p) /\ Missed({Head(todo[p]).name})
  <2>1. {Head(todo[p]).name} \in SUBSET Names
    BY <1>6, RemovalFailsStep, TodoTail
  <2> QED BY <1>4, <1>6, <2>1
<1> HIDE DEF Same, Looked, Missed
<1> QED BY <1>1, <1>2, <1>3, <1>5, <1>6

LEMMA EntryFields ==
  ASSUME NEW n, NEW i
  PROVE  Entry(n, i).name = n /\ Entry(n, i).inode = i
BY DEF Entry

(* A start that is given up will remove what it made. *)
LEMMA GivenUpRemoves ==
  ASSUME IInv, NEW p \in Processes, NEW reason, GivenUp(p, reason)
  PROVE  Removes(p)'
<1>1. /\ todo'[p] = Removals(p) /\ pc'[p] = "removing" /\ dir' = dir
      /\ pc[p] \in Starts /\ ids[p] \in Ids
  BY DEF GivenUp, IInv, KnowsItsOwn, Knows
<1>2. SUFFICES ASSUME NEW i \in DOMAIN Removals(p)
      PROVE  \/ Removals(p)[i].name \in Targets
             \/ i = 1 /\ dir[Removals(p)[i].name] = Node("socket", Removals(p)[i].inode, p)
  BY <1>1 DEF Removes
<1>3. CASE \E l \in Published(p) : Removals(p)[i] = Entry(Target(l), identity[p][l])
  BY <1>3, NamesDiffer, EntryFields DEF Published
<1>4. CASE /\ i = 1 /\ pc[p] \in {"chmod", "publish"}
           /\ Removals(p)[i] = Entry(Temporary(p), identity[p][lane[p]])
  BY <1>4, EntryFields DEF IInv, KnowsItsOwn, Knows, Named
<1> QED BY <1>1, <1>3, <1>4, RemovalsAre DEF IInv

LEMMA RemovesItsOwnKept ==
  ASSUME IInv, NEW p \in Processes, Begin(p) \/ Finish(p)
  PROVE  RemovesItsOwn'
<1> USE DEF IInv
<1>1. SUFFICES ASSUME NEW r \in Processes, pc'[r] \in Removing PROVE Removes(r)'
  BY DEF RemovesItsOwn
<1>2. CASE r # p
  <2>1. pc'[r] = pc[r] /\ todo'[r] = todo[r]
    BY <1>2, Others
  <2>2. Removes(r)
    BY <1>1, <2>1 DEF RemovesItsOwn
  <2>3. \A i \in DOMAIN todo[r] :
          \/ todo[r][i].name \in Targets
          \/ i = 1 /\ dir'[todo[r][i].name] = Node("socket", todo[r][i].inode, r)
    <3> SUFFICES ASSUME NEW i \in DOMAIN todo[r], todo[r][i].name \notin Targets
                 PROVE i = 1 /\ dir'[todo[r][i].name] = Node("socket", todo[r][i].inode, r)
      OBVIOUS
    <3>1. i = 1 /\ dir[todo[r][i].name] = Node("socket", todo[r][i].inode, r)
      BY <2>2 DEF Removes
    <3>2. MadeBy(todo[r][i].name, r)
      BY <3>1, NodeFields DEF MadeBy
    <3> QED BY <1>2, <3>1, <3>2, TodoNames, OthersNames
  <2> QED BY <2>1, <2>2, <2>3 DEF Removes
<1>3. CASE r = p
  <2>1. CASE Start(p)
    BY <2>1, StartStep, <1>1, <1>3 DEF Removing
  <2>2. CASE Preflight(p)
    BY <2>2, PreflightStep, <1>1, <1>3, GivenUpRemoves DEF GivenUp, Moved, Passed,
       Kept, Removing
  <2>3. CASE PreflightTemporary(p)
    BY <2>3, PreflightTemporaryStep, <1>1, <1>3, GivenUpRemoves DEF GivenUp, Moved,
       Passed, Kept, Removing
  <2>4. CASE InspectStale(p)
    BY <2>4, InspectStaleStep, <1>1, <1>3, GivenUpRemoves DEF GivenUp, Moved, Passed,
       Kept, Removing
  <2>5. CASE UnlinkStale(p)
    BY <2>5, UnlinkStaleStep, <1>1, <1>3, GivenUpRemoves DEF GivenUp, Moved, Passed,
       Kept, Removing
  <2>6. CASE Bind(p)
    BY <2>6, BindStep, <1>1, <1>3, GivenUpRemoves DEF GivenUp, Moved, Kept, Removing
  <2>7. CASE Identify(p)
    BY <2>7, IdentifyStep, <1>1, <1>3, GivenUpRemoves DEF GivenUp, Moved, Kept,
       Removing
  <2>8. CASE Chmod(p)
    BY <2>8, ChmodStep, <1>1, <1>3, GivenUpRemoves DEF GivenUp, Moved, Kept, Removing
  <2>9. CASE IdentifyAgain(p)
    BY <2>9, IdentifyAgainStep, <1>1, <1>3, GivenUpRemoves DEF GivenUp, Moved, Kept,
       Removing
  <2>10. CASE Publish(p)
    BY <2>10, PublishStep, <1>1, <1>3, GivenUpRemoves DEF GivenUp, Moved, Kept,
       Removing
  <2>11. CASE Verify(p)
    BY <2>11, VerifyStep, <1>1, <1>3, GivenUpRemoves DEF GivenUp, Moved, Passed, Kept,
       Removing
  <2>12. CASE Complete(p)
    BY <2>12, CompleteStep, <1>1, <1>3 DEF Moved, Kept, Removing
  <2>13. CASE CallFails(p)
    BY <2>13, CallFailsStep, <1>1, <1>3, GivenUpRemoves DEF GivenUp, Removing
  <2>14. CASE Close(p)
    <3>1. todo'[p] = Owned(p, 2) /\ pc'[p] = "removing"
      BY <2>14, CloseStep DEF Moved
    <3>2. DOMAIN Owned(p, 2) = 1..2 /\
          \A l \in 1..2 : Owned(p, 2)[l] = Entry(Target(l), identity[p][l])
      BY OwnedIs
    <3>3. \A l \in 1..2 : Owned(p, 2)[l].name \in Targets
      BY <3>2, EntryFields, NamesDiffer DEF Lanes
    <3> QED BY <1>3, <3>1, <3>2, <3>3 DEF Removes
  <2>15. CASE DropRuntime(p)
    <3>1. todo'[p] = Owned(p, 2) /\ pc'[p] = "removing"
      BY <2>15, CloseStep DEF Moved
    <3>2. DOMAIN Owned(p, 2) = 1..2 /\
          \A l \in 1..2 : Owned(p, 2)[l] = Entry(Target(l), identity[p][l])
      BY OwnedIs
    <3>3. \A l \in 1..2 : Owned(p, 2)[l].name \in Targets
      BY <3>2, EntryFields, NamesDiffer DEF Lanes
    <3> QED BY <1>3, <3>1, <3>2, <3>3 DEF Removes
  <2>16. CASE LookForOwned(p)
    <3>1. pc[p] \in Removing /\ todo[p] # << >>
      BY <2>16, LookForOwnedStep DEF Removing, RemovesItsOwn, Removes
    <3>2. Removes(p)
      BY <3>1 DEF RemovesItsOwn
    <3>3. \A i \in DOMAIN Tail(todo[p]) : Tail(todo[p])[i].name \in Targets
      BY <3>1, <3>2, TodoTail DEF Removes
    <3>4. CASE pc'[p] = "unlinking"
      BY <2>16, <1>3, <3>1, <3>2, <3>4, LookForOwnedStep DEF Removes
    <3>5. CASE pc'[p] # "unlinking"
      BY <2>16, <1>3, <3>3, <3>5, LookForOwnedStep DEF Removes
    <3> QED BY <3>4, <3>5
  <2>17. CASE UnlinkOwned(p)
    <3>1. pc[p] \in Removing /\ todo[p] # << >>
      BY <2>17, UnlinkOwnedStep DEF Removing, RemovesItsOwn, Removes
    <3>2. Removes(p)
      BY <3>1 DEF RemovesItsOwn
    <3>3. \A i \in DOMAIN Tail(todo[p]) : Tail(todo[p])[i].name \in Targets
      BY <3>1, <3>2, TodoTail DEF Removes
    <3>4. pc'[p] = "removing" /\ todo'[p] = Tail(todo[p])
      BY <2>17, UnlinkOwnedStep DEF Moved
    <3> QED BY <1>3, <3>3, <3>4 DEF Removes
  <2>18. CASE End(p)
    BY <2>18, LeaveStep, <1>1, <1>3 DEF Removing
  <2>19. CASE Kill(p)
    BY <2>19, LeaveStep, <1>1, <1>3 DEF Removing
  <2>20. CASE RemovalFails(p)
    <3>1. pc[p] \in Removing /\ todo[p] # << >>
      BY <2>20, RemovalFailsStep DEF Removing, RemovesItsOwn, Removes
    <3>2. Removes(p)
      BY <3>1 DEF RemovesItsOwn
    <3>3. \A i \in DOMAIN Tail(todo[p]) : Tail(todo[p])[i].name \in Targets
      BY <3>1, <3>2, TodoTail DEF Removes
    <3>4. pc'[p] = "removing" /\ todo'[p] = Tail(todo[p])
      BY <2>20, RemovalFailsStep DEF Moved
    <3> QED BY <1>3, <3>3, <3>4 DEF Removes
  <2> QED
    BY <2>1, <2>2, <2>3, <2>4, <2>5, <2>6, <2>7, <2>8, <2>9, <2>10, <2>11, <2>12,
       <2>13, <2>14, <2>15, <2>16, <2>17, <2>18, <2>19, <2>20 DEF Begin, Finish
<1> QED BY <1>2, <1>3

(* The start is not given up where the process would lose sight of a name. *)
Certain(p) == /\ pc[p] \notin {"identify", "again"}
              /\ pc[p] = "verify" => ~IsOwn(p, Target(lane[p]))

(* A socket at a temporary name stays there until it is published. *)
LEMMA NamedStep ==
  ASSUME Types, NEW p \in Processes, Begin(p) \/ Finish(p), pc[p] \in Named,
         pc'[p] \in Starts \union {"running"}, Temporary(p) \in Names
  PROVE  \/ pc'[p] \in Named /\ Temporary(p)' = Temporary(p)
         \/ dir'[Temporary(p)] = Absent
<1>1. CASE Start(p)
  BY <1>1, StartStep DEF Types, Temporary, Starts, Looking, Making, Named, Removing,
     Over
<1>2. CASE Preflight(p)
  BY <1>2, PreflightStep DEF GivenUp, Moved, Passed, Kept, Types, Temporary, Starts,
     Looking, Making, Named, Removing, Over
<1>3. CASE PreflightTemporary(p)
  BY <1>3, PreflightTemporaryStep DEF GivenUp, Moved, Passed, Kept, Types, Temporary,
     Starts, Looking, Making, Named, Removing, Over
<1>4. CASE InspectStale(p)
  BY <1>4, InspectStaleStep DEF GivenUp, Moved, Passed, Kept, Types, Temporary,
     Starts, Looking, Making, Named, Removing, Over
<1>5. CASE UnlinkStale(p)
  BY <1>5, UnlinkStaleStep DEF GivenUp, Moved, Passed, Kept, Types, Temporary, Starts,
     Looking, Making, Named, Removing, Over
<1>6. CASE Bind(p)
  BY <1>6, BindStep DEF GivenUp, Moved, Kept, Types, Temporary, Starts, Looking,
     Making, Named, Removing, Over
<1>7. CASE Identify(p)
  BY <1>7, IdentifyStep DEF GivenUp, Moved, Kept, Types, Temporary, Starts, Looking,
     Making, Named, Removing, Over
<1>8. CASE Chmod(p)
  BY <1>8, ChmodStep DEF GivenUp, Moved, Kept, Types, Temporary, Starts, Looking,
     Making, Named, Removing, Over
<1>9. CASE IdentifyAgain(p)
  BY <1>9, IdentifyAgainStep DEF GivenUp, Moved, Kept, Types, Temporary, Starts,
     Looking, Making, Named, Removing, Over
<1>10. CASE Publish(p)
  BY <1>10, PublishStep DEF GivenUp, Moved, Kept, Types, Temporary, Starts, Looking,
     Making, Named, Removing, Over
<1>11. CASE Verify(p)
  BY <1>11, VerifyStep DEF GivenUp, Moved, Passed, Kept, Types, Temporary, Starts,
     Looking, Making, Named, Removing, Over
<1>12. CASE Complete(p)
  BY <1>12, CompleteStep DEF Moved, Kept, Types, Temporary, Starts, Looking, Making,
     Named, Removing, Over
<1>13. CASE CallFails(p)
  BY <1>13, CallFailsStep DEF GivenUp, Types, Temporary, Starts, Looking, Making,
     Named, Removing, Over
<1>14. CASE Close(p)
  BY <1>14, CloseStep DEF Moved, Types, Temporary, Starts, Looking, Making, Named,
     Removing, Over
<1>15. CASE DropRuntime(p)
  BY <1>15, CloseStep DEF Moved, Types, Temporary, Starts, Looking, Making, Named,
     Removing, Over
<1>16. CASE LookForOwned(p)
  BY <1>16, LookForOwnedStep DEF Types, Temporary, Starts, Looking, Making, Named,
     Removing, Over
<1>17. CASE UnlinkOwned(p)
  BY <1>17, UnlinkOwnedStep DEF Moved, Types, Temporary, Starts, Looking, Making,
     Named, Removing, Over
<1>18. CASE End(p)
  BY <1>18, LeaveStep DEF Types, Temporary, Starts, Looking, Making, Named, Removing,
     Over
<1>19. CASE Kill(p)
  BY <1>19, LeaveStep DEF Types, Temporary, Starts, Looking, Making, Named, Removing,
     Over
<1>20. CASE RemovalFails(p)
  BY <1>20, RemovalFailsStep DEF Moved, Types, Temporary, Starts, Looking, Making,
     Named, Removing, Over
<1> QED
  BY <1>1, <1>2, <1>3, <1>4, <1>5, <1>6, <1>7, <1>8, <1>9, <1>10, <1>11, <1>12, <1>13,
     <1>14, <1>15, <1>16, <1>17, <1>18, <1>19, <1>20 DEF Begin, Finish

LEMMA StartAccounts ==
  ASSUME IInv, NEW p \in Processes, Begin(p) \/ Finish(p),
         pc'[p] \in Starts \union {"running"}, NEW n \in Names, MadeBy(n, p)'
  PROVE  Accounted(p, n)'
<1> USE DEF IInv
<1>1. /\ pc'[p] # "idle" /\ pc'[p] \notin Removing /\ pc'[p] # "ended"
  BY DEF Starts, Looking, Making, Named, Removing
<1>2. CASE dir'[n] = dir[n]
  <2>1. Accounted(p, n)
    BY <1>2 DEF MadeBy, NamesAccounted
  <2>2. pc[p] \in Starts
    <3>1. ~Start(p)
      BY <2>1, StartStep DEF Accounted
    <3> QED BY <3>1, PcStep
  <2>3. CASE pc[p] \in Named /\ n = Temporary(p)
    <3>1. dir'[n] # Absent
      BY NodeFields DEF MadeBy
    <3> QED BY <1>1, <1>2, <2>1, <2>3, <3>1, NamedStep DEF Accounted
  <2>4. CASE \E l \in Published(p) : n = Target(l) /\ dir[n].inode = identity[p][l]
    <3>1. PICK l \in Published(p) : n = Target(l) /\ dir[n].inode = identity[p][l]
      BY <2>4
    <3>2. l \in Published(p)' /\ identity'[p][l] = identity[p][l]
      BY PublishedStep
    <3> QED BY <1>1, <1>2, <2>1, <3>1, <3>2 DEF Accounted
  <2> QED BY <2>1, <2>2, <2>3, <2>4 DEF Accounted
<1>3. CASE Vanishes(p, n)
  BY <1>3, NodeFields DEF Vanishes, MadeBy
<1>4. CASE Appears(p, n)
  <2>1. CASE pc[p] = "bind"
    <3>1. dir'[n].kind = "socket" /\ pc'[p] = "identify" /\ n = Temporary(p)'
      BY <1>4, <2>1, NodeFields DEF Appears
    <3> QED BY <1>1, <3>1 DEF Accounted, Named
  <2>2. CASE pc[p] = "publish"
    <3>1. /\ dir'[n] = Node("socket", identity[p][lane[p]], p)
          /\ pc'[p] = "verify" /\ lane'[p] = lane[p] /\ n = Target(lane[p])
      BY <1>4, <2>2 DEF Appears, KnowsItsOwn, Knows, Named
    <3>2. lane[p] \in Published(p)'
      BY <3>1 DEF Published, Types
    <3>3. identity'[p][lane[p]] = identity[p][lane[p]]
      BY <3>2, PublishedStep
    <3> QED BY <1>1, <3>1, <3>2, <3>3, NodeFields DEF Accounted
  <2> QED BY <1>4, <2>1, <2>2 DEF Appears
<1> QED BY <1>2, <1>3, <1>4, DirStep

LEMMA GivenUpAccounts ==
  ASSUME IInv, NEW p \in Processes, 
         NEW reason \in {"foreign", "name", "contest", "fault"}, GivenUp(p, reason),
         NEW n \in Names, MadeBy(n, p),
         Certain(p) \/ Unidentified(p) \subseteq missed'[p]
  PROVE  Accounted(p, n)'
<1> USE DEF IInv
<1>1. Accounted(p, n)
  BY DEF NamesAccounted
<1>2. /\ pc[p] \in Starts /\ todo'[p] = Removals(p) /\ dir' = dir /\ pc'[p] = "removing"
      /\ why'[p] = reason /\ ids[p] \in Ids
  BY DEF GivenUp, KnowsItsOwn, Knows
<1>3. SUFFICES ASSUME n \notin missed'[p]
      PROVE  \E i \in DOMAIN Removals(p) :
               Removals(p)[i].name = n /\ Removals(p)[i].inode = dir[n].inode
  BY <1>1, <1>2 DEF Accounted, Starts, Looking, Making, Named
<1>4. CASE pc[p] \in Named /\ n = Temporary(p)
  <2>1. pc[p] \in {"chmod", "publish"}
    BY <1>3, <1>4 DEF Certain, Named, Unidentified
  <2>2. dir[n].inode = identity[p][lane[p]]
    BY <1>4, <2>1, NodeFields DEF KnowsItsOwn, Knows, Named
  <2> QED BY <1>2, <1>4, <2>1, <2>2, RemovalsAre, EntryFields
<1>5. CASE \E l \in Published(p) : n = Target(l) /\ dir[n].inode = identity[p][l]
  <2>1. PICK l \in Published(p) : n = Target(l) /\ dir[n].inode = identity[p][l]
    BY <1>5
  <2>2. pc[p] # "verify" \/ l # lane[p]
    BY <1>1, <1>3, <2>1 DEF Certain, Accounted, IsOwn, Unidentified
  <2> QED BY <1>2, <2>1, <2>2, RemovalsAre, EntryFields
<1> QED BY <1>1, <1>2, <1>4, <1>5 DEF Accounted

LEMMA NamesAccountedKept ==
  ASSUME IInv, NEW p \in Processes, Begin(p) \/ Finish(p)
  PROVE  NamesAccounted'
<1> USE DEF IInv
<1>1. SUFFICES ASSUME NEW q \in Processes, NEW n \in Names, MadeBy(n, q)'
               PROVE  Accounted(q, n)'
  BY DEF NamesAccounted
<1>2. CASE q # p
  <2>1. dir'[n] = dir[n]
    BY <1>1, <1>2, OthersNames
  <2>2. Accounted(q, n)
    BY <1>1, <2>1 DEF NamesAccounted, MadeBy
  <2>3. Published(q)' = Published(q) /\ Temporary(q)' = Temporary(q)
    BY <1>2, OthersPublished
  <2>4. /\ pc'[q] = pc[q] /\ identity'[q] = identity[q] /\ todo'[q] = todo[q]
        /\ missed'[q] = missed[q]
    BY <1>2, Others, HistoryStep
  <2> QED BY <2>1, <2>2, <2>3, <2>4 DEF Accounted
<1>3. CASE q = p /\ pc'[p] \in Starts \union {"running"}
  BY <1>1, <1>3, StartAccounts
<1>4. CASE q = p /\ pc'[p] \notin Starts \union {"running"}
  <2>k. pc[p] \in Named => dir[Temporary(p)].kind = "socket"
    BY NodeFields DEF KnowsItsOwn, Knows
  <2>m. dir' = dir => MadeBy(n, p) /\ Accounted(p, n)
    BY <1>1, <1>4 DEF MadeBy, NamesAccounted
  <2>h. missed[p] \subseteq missed'[p]
    BY HistoryStep
  <2>1. CASE Start(p)
    BY <2>1, StartStep, <1>4 DEF Starts, Looking
  <2>2. CASE Preflight(p)
    <3>1. GivenUp(p, "foreign")
      BY <2>2, <1>4, PreflightStep DEF Moved, Passed, Kept, Starts, Looking, Making, Named
    <3>2. Certain(p)
      BY <2>2, PreflightStep DEF Certain, GivenUp, Moved, Passed, Kept
    <3>3. PICK reason \in {"foreign", "name", "contest", "fault"} :
            GivenUp(p, reason) /\ Certain(p)
      BY <3>1, <3>2
    <3> QED BY <1>1, <1>4, <2>m, <3>3, GivenUpAccounts DEF GivenUp
  <2>3. CASE PreflightTemporary(p)
    <3>1. GivenUp(p, "name")
      BY <2>3, <1>4, PreflightTemporaryStep
         DEF Moved, Passed, Kept, Starts, Looking, Making, Named
    <3>2. Certain(p)
      BY <2>3, PreflightTemporaryStep DEF Certain, GivenUp, Moved, Passed, Kept
    <3>3. PICK reason \in {"foreign", "name", "contest", "fault"} :
            GivenUp(p, reason) /\ Certain(p)
      BY <3>1, <3>2
    <3> QED BY <1>1, <1>4, <2>m, <3>3, GivenUpAccounts DEF GivenUp
  <2>4. CASE InspectStale(p)
    <3>1. GivenUp(p, "foreign")
      BY <2>4, <1>4, InspectStaleStep DEF Moved, Passed, Kept, Starts, Looking, Making, Named
    <3>2. Certain(p)
      BY <2>4, InspectStaleStep DEF Certain, GivenUp, Moved, Passed, Kept
    <3>3. PICK reason \in {"foreign", "name", "contest", "fault"} :
            GivenUp(p, reason) /\ Certain(p)
      BY <3>1, <3>2
    <3> QED BY <1>1, <1>4, <2>m, <3>3, GivenUpAccounts DEF GivenUp
  <2>5. CASE UnlinkStale(p)
    <3>1. GivenUp(p, "contest")
      BY <2>5, <1>4, UnlinkStaleStep DEF Moved, Passed, Kept, Starts, Looking, Making, Named
    <3>2. Certain(p)
      BY <2>5, UnlinkStaleStep DEF Certain, GivenUp, Moved, Passed, Kept
    <3>3. PICK reason \in {"foreign", "name", "contest", "fault"} :
            GivenUp(p, reason) /\ Certain(p)
      BY <3>1, <3>2
    <3> QED BY <1>1, <1>4, <2>m, <3>3, GivenUpAccounts DEF GivenUp
  <2>6. CASE Bind(p)
    <3>1. GivenUp(p, "name")
      BY <2>6, <1>4, BindStep DEF Moved, Kept, Starts, Looking, Making, Named
    <3>2. Certain(p)
      BY <2>6, BindStep DEF Certain, GivenUp, Moved, Kept
    <3>3. PICK reason \in {"foreign", "name", "contest", "fault"} :
            GivenUp(p, reason) /\ Certain(p)
      BY <3>1, <3>2
    <3> QED BY <1>1, <1>4, <2>m, <3>3, GivenUpAccounts DEF GivenUp
  <2>7. CASE Identify(p)
    <3>1. GivenUp(p, "contest")
      BY <2>7, <1>4, IdentifyStep DEF Moved, Kept, Starts, Looking, Making, Named
    <3>2. Certain(p)
      BY <2>7, <1>4, <2>k, IdentifyStep DEF Certain, Moved, Named, Starts, Making
    <3>3. PICK reason \in {"foreign", "name", "contest", "fault"} :
            GivenUp(p, reason) /\ Certain(p)
      BY <3>1, <3>2
    <3> QED BY <1>1, <1>4, <2>m, <3>3, GivenUpAccounts DEF GivenUp
  <2>8. CASE Chmod(p)
    <3>1. GivenUp(p, "contest")
      BY <2>8, <1>4, ChmodStep DEF Moved, Kept, Starts, Looking, Making, Named
    <3>2. Certain(p)
      BY <2>8, ChmodStep DEF Certain, GivenUp, Moved, Kept
    <3>3. PICK reason \in {"foreign", "name", "contest", "fault"} :
            GivenUp(p, reason) /\ Certain(p)
      BY <3>1, <3>2
    <3> QED BY <1>1, <1>4, <2>m, <3>3, GivenUpAccounts DEF GivenUp
  <2>9. CASE IdentifyAgain(p)
    <3>1. GivenUp(p, "contest")
      BY <2>9, <1>4, IdentifyAgainStep DEF Moved, Kept, Starts, Looking, Making, Named
    <3>2. Certain(p)
      BY <2>9, <1>4, IdentifyAgainStep, NodeFields
         DEF Certain, Moved, IsOwn, KnowsItsOwn, Knows, Named, Starts, Making
    <3>3. PICK reason \in {"foreign", "name", "contest", "fault"} :
            GivenUp(p, reason) /\ Certain(p)
      BY <3>1, <3>2
    <3> QED BY <1>1, <1>4, <2>m, <3>3, GivenUpAccounts DEF GivenUp
  <2>10. CASE Publish(p)
    <3>1. GivenUp(p, "contest")
      BY <2>10, <1>4, PublishStep DEF Moved, Kept, Starts, Looking, Making, Named
    <3>2. Certain(p)
      BY <2>10, PublishStep DEF Certain, GivenUp, Moved, Kept
    <3>3. PICK reason \in {"foreign", "name", "contest", "fault"} :
            GivenUp(p, reason) /\ Certain(p)
      BY <3>1, <3>2
    <3> QED BY <1>1, <1>4, <2>m, <3>3, GivenUpAccounts DEF GivenUp
  <2>11. CASE Verify(p)
    <3>1. GivenUp(p, "contest")
      BY <2>11, <1>4, VerifyStep DEF Moved, Passed, Kept, Starts, Looking, Making, Named
    <3>2. Certain(p)
      BY <2>11, <1>4, VerifyStep DEF Certain, Passed, Starts, Making
    <3>3. PICK reason \in {"foreign", "name", "contest", "fault"} :
            GivenUp(p, reason) /\ Certain(p)
      BY <3>1, <3>2
    <3> QED BY <1>1, <1>4, <2>m, <3>3, GivenUpAccounts DEF GivenUp
  <2>12. CASE Complete(p)
    BY <2>12, CompleteStep, <1>4 DEF Moved, Kept
  <2>13. CASE CallFails(p)
    <3>1. PICK reason \in {"foreign", "name", "contest", "fault"} :
            GivenUp(p, reason) /\ Unidentified(p) \subseteq missed'[p]
      BY <2>13, CallFailsStep
    <3> QED BY <1>1, <1>4, <2>m, <3>1, GivenUpAccounts DEF GivenUp
  <2>14. CASE Close(p)
    <3>1. /\ todo'[p] = Owned(p, 2) /\ pc'[p] = "removing" /\ dir' = dir /\ pc[p] = "running"
      BY <2>14, CloseStep DEF Moved
    <3>2. PICK l \in Published(p) : n = Target(l) /\ dir[n].inode = identity[p][l]
      BY <2>m, <3>1 DEF Accounted, Named
    <3>3. l \in DOMAIN Owned(p, 2) /\ Owned(p, 2)[l] = Entry(Target(l), identity[p][l])
      BY OwnedIs DEF Published, Lanes
    <3> QED BY <1>4, <2>m, <3>1, <3>2, <3>3, EntryFields DEF Accounted, Starts, Looking,
        Making, Named
  <2>15. CASE DropRuntime(p)
    <3>1. /\ todo'[p] = Owned(p, 2) /\ pc'[p] = "removing" /\ dir' = dir /\ pc[p] = "running"
      BY <2>15, CloseStep DEF Moved
    <3>2. PICK l \in Published(p) : n = Target(l) /\ dir[n].inode = identity[p][l]
      BY <2>m, <3>1 DEF Accounted, Named
    <3>3. l \in DOMAIN Owned(p, 2) /\ Owned(p, 2)[l] = Entry(Target(l), identity[p][l])
      BY OwnedIs DEF Published, Lanes
    <3> QED BY <1>4, <2>m, <3>1, <3>2, <3>3, EntryFields DEF Accounted, Starts, Looking,
        Making, Named
  <2>16. CASE LookForOwned(p)
    <3>1. /\ pc[p] \in Removing /\ todo[p] # << >> /\ pc'[p] \in Removing
      BY <2>16, LookForOwnedStep DEF Removing, RemovesItsOwn, Removes, Moved
    <3>2. dir' = dir /\ dir'[n] = dir[n] /\ Accounted(p, n)
      BY <2>16, <2>m, LookForOwnedStep
    <3>3. pc'[p] # "idle" /\ pc'[p] # "ended" /\ pc'[p] \notin Starts \union {"running"}
      BY <1>4, <3>1 DEF Removing
    <3>4. SUFFICES ASSUME n \notin missed'[p]
          PROVE  \E i \in DOMAIN todo'[p] :
                    todo'[p][i].name = n /\ todo'[p][i].inode = dir'[n].inode
      BY <1>4, <3>1, <3>2, <3>3 DEF Accounted
    <3>5. PICK i \in DOMAIN todo[p] : todo[p][i].name = n /\ todo[p][i].inode = dir[n].inode
      BY <2>h, <3>1, <3>2, <3>4 DEF Accounted
    <3>6. CASE todo'[p] = todo[p]
      BY <3>2, <3>5, <3>6
    <3>7. CASE todo'[p] # todo[p]
      <4>1. /\ todo'[p] = Tail(todo[p])
            /\ ~ /\ dir[Head(todo[p]).name].kind = "socket"
                 /\ dir[Head(todo[p]).name].inode = Head(todo[p]).inode
        BY <2>16, <3>7, LookForOwnedStep
      <4>2. i # 1
        BY <3>1, <3>2, <3>5, <4>1, TodoTail DEF Accounted
      <4>3. /\ i - 1 \in DOMAIN Tail(todo[p])
            /\ Tail(todo[p])[i - 1] = todo[p][i]
        BY <3>1, <3>5, <4>2, TodoTail
      <4> QED BY <3>2, <3>5, <4>1, <4>3
    <3> QED BY <3>6, <3>7
  <2>17. CASE UnlinkOwned(p)
    <3>1. /\ pc[p] \in Removing /\ todo[p] # << >> /\ pc'[p] \in Removing
      BY <2>17, UnlinkOwnedStep DEF Removing, RemovesItsOwn, Removes, Moved
    <3>2. n # Head(todo[p]).name /\ dir'[n] = dir[n] /\ Accounted(p, n)
      <4>1. dir' = [dir EXCEPT ![Head(todo[p]).name] = Absent]
        BY <2>17, UnlinkOwnedStep
      <4>2. n # Head(todo[p]).name
        <5> SUFFICES ASSUME n = Head(todo[p]).name PROVE FALSE
          OBVIOUS
        <5>1. dir'[n] = Absent
          BY <4>1 DEF Types
        <5> QED BY <1>1, <5>1, NodeFields DEF MadeBy
      <4>3. dir'[n] = dir[n]
        BY <4>1, <4>2 DEF Types
      <4> QED BY <1>1, <1>4, <4>2, <4>3 DEF MadeBy, NamesAccounted
    <3>3. pc'[p] # "idle" /\ pc'[p] # "ended" /\ pc'[p] \notin Starts \union {"running"}
      BY <1>4, <3>1 DEF Removing
    <3>4. SUFFICES ASSUME n \notin missed'[p]
          PROVE  \E i \in DOMAIN todo'[p] :
                    todo'[p][i].name = n /\ todo'[p][i].inode = dir'[n].inode
      BY <1>4, <3>1, <3>2, <3>3 DEF Accounted
    <3>5. PICK i \in DOMAIN todo[p] : todo[p][i].name = n /\ todo[p][i].inode = dir[n].inode
      BY <2>h, <3>1, <3>2, <3>4 DEF Accounted
    <3>6. todo'[p] = Tail(todo[p]) /\ i # 1
      BY <2>17, <3>1, <3>2, <3>5, UnlinkOwnedStep, TodoTail
    <3> QED BY <3>1, <3>2, <3>5, <3>6, TodoTail
  <2>18. CASE End(p)
    <3>1. Accounted(p, n) /\ dir' = dir
      BY <2>18, <2>m, LeaveStep
    <3>2. \/ pc[p] = "removing" /\ todo[p] = << >> /\ pc'[p] = "ended"
          \/ pc'[p] = "killed"
      BY <2>18, LeaveStep
    <3>3. pc'[p] = "ended" => n \in missed'[p]
      BY <1>4, <2>h, <3>1, <3>2 DEF Accounted, Removing
    <3>4. pc'[p] # "idle" /\ pc'[p] \notin Removing
      BY <3>2 DEF Removing
    <3> QED BY <1>4, <3>1, <3>3, <3>4 DEF Accounted
  <2>19. CASE Kill(p)
    <3>1. Accounted(p, n) /\ dir' = dir
      BY <2>19, <2>m, LeaveStep
    <3>2. \/ pc[p] = "removing" /\ todo[p] = << >> /\ pc'[p] = "ended"
          \/ pc'[p] = "killed"
      BY <2>19, LeaveStep
    <3>3. pc'[p] = "ended" => n \in missed'[p]
      BY <1>4, <2>h, <3>1, <3>2 DEF Accounted, Removing
    <3>4. pc'[p] # "idle" /\ pc'[p] \notin Removing
      BY <3>2 DEF Removing
    <3> QED BY <1>4, <3>1, <3>3, <3>4 DEF Accounted
  <2>20. CASE RemovalFails(p)
    <3>1. /\ pc[p] \in Removing /\ todo[p] # << >> /\ pc'[p] \in Removing
          /\ todo'[p] = Tail(todo[p]) /\ Head(todo[p]).name \in missed'[p]
      BY <2>20, RemovalFailsStep DEF Removing, Moved
    <3>2. dir'[n] = dir[n] /\ Accounted(p, n)
      BY <2>20, <2>m, RemovalFailsStep
    <3>3. pc'[p] # "idle" /\ pc'[p] # "ended" /\ pc'[p] \notin Starts \union {"running"}
      BY <1>4, <3>1 DEF Removing
    <3>4. SUFFICES ASSUME n \notin missed'[p]
          PROVE  \E i \in DOMAIN todo'[p] :
                    todo'[p][i].name = n /\ todo'[p][i].inode = dir'[n].inode
      BY <1>4, <3>1, <3>2, <3>3 DEF Accounted
    <3>5. PICK i \in DOMAIN todo[p] : todo[p][i].name = n /\ todo[p][i].inode = dir[n].inode
      BY <2>h, <3>1, <3>2, <3>4 DEF Accounted
    <3>6. i # 1
      BY <3>1, <3>4, <3>5, TodoTail
    <3> QED BY <3>1, <3>2, <3>5, <3>6, TodoTail
  <2> QED
    BY <2>1, <2>2, <2>3, <2>4, <2>5, <2>6, <2>7, <2>8, <2>9, <2>10, <2>11, <2>12,
       <2>13, <2>14, <2>15, <2>16, <2>17, <2>18, <2>19, <2>20 DEF Begin, Finish
<1> QED BY <1>2, <1>3, <1>4

MadeThen(n, who) == dir'[n].kind # "none" /\ dir'[n].by = who

(* Nothing that the operator made is among what it will remove. *)
LEMMA GivenUpDiffers ==
  ASSUME IInv, NEW p \in Processes, NEW reason, GivenUp(p, reason),
         NEW i \in DOMAIN todo'[p], Mistakes(p, i)'
  PROVE  FALSE
<1> USE DEF IInv
<1>1. /\ pc[p] \in Starts /\ todo'[p] = Removals(p) /\ dir' = dir /\ ids[p] \in Ids
  BY DEF GivenUp, KnowsItsOwn, Knows
<1>2. /\ MadeBy(Removals(p)[i].name, "operator")
      /\ dir[Removals(p)[i].name].inode = Removals(p)[i].inode
  BY <1>1 DEF Mistakes, MadeBy
<1>3. CASE \E l \in Published(p) : Removals(p)[i] = Entry(Target(l), identity[p][l])
  <2>1. PICK l \in Published(p) : Removals(p)[i] = Entry(Target(l), identity[p][l])
    BY <1>3
  <2>2. MadeBy(Target(l), "operator") /\ dir[Target(l)].inode = bound[p][l]
    BY <1>2, <2>1, EntryFields DEF KnowsItsOwn, Knows
  <2> QED BY <2>2 DEF OperatorsDiffer, OperatorDiffers
<1>4. CASE /\ pc[p] \in {"chmod", "publish"}
           /\ Removals(p)[i] = Entry(Temporary(p), identity[p][lane[p]])
  <2>1. dir[Temporary(p)].by = p
    BY <1>4, NodeFields DEF KnowsItsOwn, Knows, Named
  <2> QED BY <1>2, <1>4, <2>1, EntryFields DEF MadeBy
<1> QED BY <1>1, <1>3, <1>4, RemovalsAre

LEMMA ListenersDifferKept ==
  ASSUME IInv, NEW p \in Processes, Begin(p) \/ Finish(p)
  PROVE  ListenersDiffer'
<1> USE DEF IInv
<1>1. SUFFICES ASSUME NEW q \in Processes, NEW r \in Processes,
                      NEW l \in Lanes, NEW m \in Lanes,
                      bound'[q][l] = bound'[r][m], bound'[q][l] # Unknown
               PROVE  q = r /\ l = m
  BY DEF ListenersDiffer
<1>2. \A s \in Processes, k \in Lanes :
        \/ bound'[s][k] = bound[s][k]
        \/ bound'[s][k] = Unknown
        \/ s = p /\ k = lane[p] /\ FreeInodes # {} /\ bound'[s][k] = NextInode
  <2> SUFFICES ASSUME NEW s \in Processes, NEW k \in Lanes
               PROVE  \/ bound'[s][k] = bound[s][k]
                      \/ bound'[s][k] = Unknown
                      \/ s = p /\ k = lane[p] /\ FreeInodes # {} /\ bound'[s][k] = NextInode
    OBVIOUS
  <2>1. CASE s = p
    BY <2>1, BoundStep
  <2>2. CASE s # p
    BY <2>2, Others
  <2> QED BY <2>1, <2>2
<1>3. CASE bound'[q][l] = bound[q][l] /\ bound'[r][m] = bound[r][m]
  <2>1. bound[q][l] = bound[r][m] /\ bound[q][l] # Unknown
    BY <1>1, <1>3
  <2> QED BY <2>1 DEF ListenersDiffer
<1>4. CASE bound'[q][l] = NextInode /\ FreeInodes # {} /\ q = p /\ l = lane[p]
  <2>1. bound'[r][m] # bound[r][m]
    BY <1>1, <1>4, NextInodeIsFree
  <2> QED BY <1>1, <1>2, <1>4, <2>1
<1>5. CASE bound'[r][m] = NextInode /\ FreeInodes # {} /\ r = p /\ m = lane[p]
  <2>1. bound'[q][l] # bound[q][l]
    BY <1>1, <1>5, NextInodeIsFree
  <2> QED BY <1>1, <1>2, <1>5, <2>1
<1> QED BY <1>1, <1>2, <1>3, <1>4, <1>5

LEMMA AloneKept ==
  ASSUME IInv, NEW s \in Processes, Begin(s) \/ Finish(s)
  PROVE  Alone'
<1> USE DEF IInv
<1>1. SUFFICES ASSUME NEW p \in Processes, NEW q \in Processes, p # q,
                      pc'[p] \notin Over, ~contested'[p]
               PROVE  /\ pc'[q] \notin Starts
                      /\ pc'[p] \in Starts => pc'[q] \notin Removing
  BY DEF Alone
<1>0. /\ Starts \cap Over = {} /\ Removing \cap Starts = {} /\ "running" \notin Starts
      /\ Removing \cap Over = {} /\ "running" \notin Removing \union Over
      /\ "preflight" \in Starts
  BY DEF Starts, Looking, Making, Named, Over, Removing
<1>2. CASE s # p /\ s # q
  <2>1. pc'[p] = pc[p] /\ pc'[q] = pc[q] /\ ~contested[p]
    BY <1>1, <1>2, Others
  <2> QED BY <1>1, <2>1 DEF Alone
<1>3. CASE s = p
  <2>1. pc'[q] = pc[q]
    BY <1>1, <1>3, Others
  <2>2. CASE Start(p)
    <3>1. pc[q] \in Over \union {"running"}
      BY <1>1, <2>2, StartStep
    <3> QED BY <1>0, <2>1, <3>1
  <2>3. CASE ~Start(p)
    <3>1. /\ pc[p] \notin Over /\ ~contested[p]
          /\ pc'[p] \in Starts => pc[p] \in Starts
      BY <1>1, <1>3, <2>3, PcStep
    <3> QED BY <1>1, <2>1, <3>1 DEF Alone
  <2> QED BY <2>2, <2>3
<1>4. CASE s = q
  <2>1. pc'[p] = pc[p] /\ ~contested[p]
    BY <1>1, <1>4, Others
  <2>2. /\ pc[q] \notin Starts
        /\ pc[p] \in Starts => pc[q] \notin Removing
    BY <1>1, <2>1 DEF Alone
  <2>3. ~Start(q)
    <3>1. Start(q) => contested'[p]
      BY <1>1, <2>1, StartStep
    <3> QED BY <1>1, <3>1
  <2>4. pc[p] \in Starts => ~(Close(q) \/ DropRuntime(q))
    BY <1>1, CloseStep
  <2> QED BY <1>4, <2>1, <2>2, <2>3, <2>4, PcStep
<1> QED BY <1>2, <1>3, <1>4

(* What the operator has put at a target is not what a process looks for. *)
LEMMA OperatorsDifferKept ==
  ASSUME IInv, NEW p \in Processes, Begin(p) \/ Finish(p)
  PROVE  OperatorsDiffer'
<1> USE DEF IInv
<1>1. SUFFICES ASSUME NEW r \in Processes PROVE OperatorDiffers(r)'
  BY DEF OperatorsDiffer
<1>k. OperatorDiffers(r)
  BY DEF OperatorsDiffer
<1>o. \A n \in Names :
        MadeThen(n, "operator") => dir'[n] = dir[n] /\ MadeBy(n, "operator")
  BY OthersNames DEF MadeBy, MadeThen
<1>c. (\E q \in Processes : pc[q] \in Removing) /\ AllContested => AllContested'
  <2> SUFFICES ASSUME NEW q \in Processes, pc[q] \in Removing, AllContested,
                      NEW s \in Processes
               PROVE  contested'[s]
    BY DEF AllContested
  <2>1. CASE s # p
    BY <2>1, Others DEF AllContested
  <2>2. CASE s = p /\ Start(p)
    BY <2>2, StartStep DEF Removing, Over
  <2>3. CASE s = p /\ ~Start(p)
    BY <2>3, PcStep DEF AllContested
  <2> QED BY <2>1, <2>2, <2>3
<1>2. CASE r # p
  <2>1. Published(r)' = Published(r) /\ Published(r) \subseteq Lanes
    BY <1>2, OthersPublished DEF Published
  <2>2. pc'[r] = pc[r] /\ lane'[r] = lane[r] /\ todo'[r] = todo[r] /\ bound'[r] = bound[r]
    BY <1>2, Others
  <2>h. slipped'[r] = slipped[r]
    BY <1>2, HistoryStep
  <2>3. pc[r] = "unlink" => dir'[Target(lane[r])].kind # "file" \/ slipped'[r]
    BY <1>k, <2>h, NamesDiffer, NoFileAppears DEF OperatorDiffers, Types
  <2>4. \A l \in Published(r) :
          MadeThen(Target(l), "operator") => dir'[Target(l)].inode # bound[r][l]
    BY <1>k, <1>o, <2>1, NamesDiffer DEF OperatorDiffers
  <2>5. ASSUME pc[r] \in Removing, NEW i \in DOMAIN todo[r], Mistakes(r, i)'
        PROVE  AllContested'
    <3>1. todo[r][i].name \in Names
      BY TodoNames
    <3>2. /\ MadeThen(todo[r][i].name, "operator")
          /\ dir'[todo[r][i].name].inode = todo[r][i].inode
      BY <2>2, <2>5 DEF Mistakes, MadeBy, MadeThen
    <3>3. Mistakes(r, i)
      BY <1>o, <3>1, <3>2 DEF Mistakes
    <3> QED BY <1>k, <1>c, <2>5, <3>3 DEF OperatorDiffers
  <2>6. ASSUME pc[r] = "unlinking", MadeThen(Head(todo[r]).name, "operator")
        PROVE  slipped'[r] \/ (dir'[Head(todo[r]).name].kind = "socket" /\ AllContested')
    <3>1. Head(todo[r]).name \in Names /\ pc[r] \in Removing
      BY <2>6, TodoTail DEF RemovesItsOwn, Removes, Removing
    <3>2. /\ dir'[Head(todo[r]).name] = dir[Head(todo[r]).name]
          /\ MadeBy(Head(todo[r]).name, "operator")
      BY <1>o, <2>6, <3>1
    <3> QED BY <1>k, <1>c, <2>6, <2>h, <3>1, <3>2 DEF OperatorDiffers
  <2>7. pc[r] \in Removing => \A i \in DOMAIN todo[r] : Mistakes(r, i)' => AllContested'
    BY <2>5
  <2> QED BY <2>1, <2>2, <2>3, <2>4, <2>6, <2>7 DEF OperatorDiffers, MadeBy, MadeThen
<1>3. CASE r = p
  <2>1. \A l \in Published(p)' :
          MadeThen(Target(l), "operator") => dir'[Target(l)].inode # bound'[p][l]
    <3> SUFFICES ASSUME NEW l \in Published(p)', MadeThen(Target(l), "operator")
                 PROVE  dir'[Target(l)].inode # bound'[p][l]
      OBVIOUS
    <3>1. /\ MadeBy(Target(l), "operator") /\ dir'[Target(l)] = dir[Target(l)]
      <4>1. Target(l) \in Names
        BY NamesDiffer DEF Published
      <4> QED BY <1>o, <4>1 
    <3>2. bound'[p][l] = bound[p][l]
      BY PublishedStep
    <3>3. l \in Published(p)
      BY <3>1, PublishedStep DEF MadeBy
    <3> QED BY <1>3, <1>k, <3>1, <3>2, <3>3 DEF OperatorDiffers
  <2>2. pc'[p] = "unlink" => dir'[Target(lane'[p])].kind # "file"
    <3>1. CASE Start(p)
      BY <3>1, StartStep
    <3>2. CASE Preflight(p)
      BY <3>2, PreflightStep DEF GivenUp, Moved, Passed, Kept
    <3>3. CASE PreflightTemporary(p)
      BY <3>3, PreflightTemporaryStep DEF GivenUp, Moved, Passed, Kept
    <3>4. CASE InspectStale(p)
      BY <3>4, InspectStaleStep DEF GivenUp, Moved, Passed, Kept
    <3>5. CASE UnlinkStale(p)
      BY <3>5, UnlinkStaleStep DEF GivenUp, Moved, Passed, Kept
    <3>6. CASE Bind(p)
      BY <3>6, BindStep DEF GivenUp, Moved, Kept
    <3>7. CASE Identify(p)
      BY <3>7, IdentifyStep DEF GivenUp, Moved, Kept
    <3>8. CASE Chmod(p)
      BY <3>8, ChmodStep DEF GivenUp, Moved, Kept
    <3>9. CASE IdentifyAgain(p)
      BY <3>9, IdentifyAgainStep DEF GivenUp, Moved, Kept
    <3>10. CASE Publish(p)
      BY <3>10, PublishStep DEF GivenUp, Moved, Kept
    <3>11. CASE Verify(p)
      BY <3>11, VerifyStep DEF GivenUp, Moved, Passed, Kept
    <3>12. CASE Complete(p)
      BY <3>12, CompleteStep DEF Moved, Kept
    <3>13. CASE CallFails(p)
      BY <3>13, CallFailsStep DEF GivenUp
    <3>14. CASE Close(p)
      BY <3>14, CloseStep DEF Moved
    <3>15. CASE DropRuntime(p)
      BY <3>15, CloseStep DEF Moved
    <3>16. CASE LookForOwned(p)
      BY <3>16, LookForOwnedStep
    <3>17. CASE UnlinkOwned(p)
      BY <3>17, UnlinkOwnedStep DEF Moved
    <3>18. CASE End(p)
      BY <3>18, LeaveStep
    <3>19. CASE Kill(p)
      BY <3>19, LeaveStep
    <3>20. CASE RemovalFails(p)
      BY <3>20, RemovalFailsStep DEF Moved, Removing
    <3> QED
      BY <3>1, <3>2, <3>3, <3>4, <3>5, <3>6, <3>7, <3>8, <3>9, <3>10, <3>11, <3>12,
         <3>13, <3>14, <3>15, <3>16, <3>17, <3>18, <3>19, <3>20 DEF Begin, Finish
  <2>3. ASSUME NEW i \in DOMAIN todo'[p], Mistakes(p, i)', pc'[p] \in Removing
        PROVE  AllContested'
    <3>m. /\ MadeThen(todo'[p][i].name, "operator")
          /\ dir'[todo'[p][i].name].inode = todo'[p][i].inode
      BY <2>3 DEF Mistakes, MadeBy, MadeThen
    <3>1. CASE Start(p)
      BY <3>1, StartStep, <2>3 DEF Removing
    <3>2. CASE Preflight(p)
      <4>1. GivenUp(p, "foreign")
        BY <3>2, <2>3, PreflightStep DEF Moved, Passed, Kept, Removing
      <4> QED BY <2>3, <4>1, GivenUpDiffers
    <3>3. CASE PreflightTemporary(p)
      <4>1. GivenUp(p, "name")
        BY <3>3, <2>3, PreflightTemporaryStep DEF Moved, Passed, Kept, Removing
      <4> QED BY <2>3, <4>1, GivenUpDiffers
    <3>4. CASE InspectStale(p)
      <4>1. GivenUp(p, "foreign")
        BY <3>4, <2>3, InspectStaleStep DEF Moved, Passed, Kept, Removing
      <4> QED BY <2>3, <4>1, GivenUpDiffers
    <3>5. CASE UnlinkStale(p)
      <4>1. GivenUp(p, "contest")
        BY <3>5, <2>3, UnlinkStaleStep DEF Moved, Passed, Kept, Removing
      <4> QED BY <2>3, <4>1, GivenUpDiffers
    <3>6. CASE Bind(p)
      <4>1. GivenUp(p, "name")
        BY <3>6, <2>3, BindStep DEF Moved, Kept, Removing
      <4> QED BY <2>3, <4>1, GivenUpDiffers
    <3>7. CASE Identify(p)
      <4>1. GivenUp(p, "contest")
        BY <3>7, <2>3, IdentifyStep DEF Moved, Kept, Removing
      <4> QED BY <2>3, <4>1, GivenUpDiffers
    <3>8. CASE Chmod(p)
      <4>1. GivenUp(p, "contest")
        BY <3>8, <2>3, ChmodStep DEF Moved, Kept, Removing
      <4> QED BY <2>3, <4>1, GivenUpDiffers
    <3>9. CASE IdentifyAgain(p)
      <4>1. GivenUp(p, "contest")
        BY <3>9, <2>3, IdentifyAgainStep DEF Moved, Kept, Removing
      <4> QED BY <2>3, <4>1, GivenUpDiffers
    <3>10. CASE Publish(p)
      <4>1. GivenUp(p, "contest")
        BY <3>10, <2>3, PublishStep DEF Moved, Kept, Removing
      <4> QED BY <2>3, <4>1, GivenUpDiffers
    <3>11. CASE Verify(p)
      <4>1. GivenUp(p, "contest")
        BY <3>11, <2>3, VerifyStep DEF Moved, Passed, Kept, Removing
      <4> QED BY <2>3, <4>1, GivenUpDiffers
    <3>12. CASE Complete(p)
      BY <3>12, CompleteStep, <2>3 DEF Moved, Kept, Removing
    <3>13. CASE CallFails(p)
      <4>1. PICK reason : GivenUp(p, reason)
        BY <3>13, CallFailsStep
      <4> QED BY <2>3, <4>1, GivenUpDiffers
    <3>14. CASE Close(p)
      <4>1. /\ todo'[p] = Owned(p, 2) /\ dir' = dir /\ pc[p] = "running"
        BY <3>14, CloseStep
      <4>2. DOMAIN Owned(p, 2) = 1..2
            /\ \A l \in 1..2 : Owned(p, 2)[l] = Entry(Target(l), identity[p][l])
        BY OwnedIs
      <4>3. /\ i \in Published(p)
            /\ todo'[p][i].name = Target(i) /\ todo'[p][i].inode = identity[p][i]
        BY <2>3, <4>1, <4>2, EntryFields DEF Published, Lanes
      <4>4. MadeBy(Target(i), "operator") /\ dir[Target(i)].inode = bound[p][i]
        BY <3>m, <4>1, <4>3 DEF MadeBy, MadeThen, KnowsItsOwn, Knows
      <4> QED BY <1>3, <1>k, <4>3, <4>4 DEF OperatorDiffers
    <3>15. CASE DropRuntime(p)
      <4>1. /\ todo'[p] = Owned(p, 2) /\ dir' = dir /\ pc[p] = "running"
        BY <3>15, CloseStep
      <4>2. DOMAIN Owned(p, 2) = 1..2
            /\ \A l \in 1..2 : Owned(p, 2)[l] = Entry(Target(l), identity[p][l])
        BY OwnedIs
      <4>3. /\ i \in Published(p)
            /\ todo'[p][i].name = Target(i) /\ todo'[p][i].inode = identity[p][i]
        BY <2>3, <4>1, <4>2, EntryFields DEF Published, Lanes
      <4>4. MadeBy(Target(i), "operator") /\ dir[Target(i)].inode = bound[p][i]
        BY <3>m, <4>1, <4>3 DEF MadeBy, MadeThen, KnowsItsOwn, Knows
      <4> QED BY <1>3, <1>k, <4>3, <4>4 DEF OperatorDiffers
    <3>16. CASE LookForOwned(p)
      <4>1. pc[p] \in Removing /\ todo[p] # << >>
        BY <3>16, LookForOwnedStep DEF Removing, RemovesItsOwn, Removes
      <4>2. PICK j \in DOMAIN todo[p] : todo'[p][i] = todo[p][j]
        <5>1. CASE todo'[p] = todo[p]
          BY <2>3, <5>1
        <5>2. CASE todo'[p] = Tail(todo[p])
          BY <2>3, <4>1, <5>2, TodoTail
        <5> QED BY <3>16, <5>1, <5>2, LookForOwnedStep
      <4>3. Mistakes(p, j)
        <5>1. /\ MadeThen(todo[p][j].name, "operator")
              /\ dir'[todo[p][j].name].inode = todo[p][j].inode
          BY <3>m, <4>2
        <5>2. todo[p][j].name \in Names
          BY TodoNames
        <5> QED BY <1>o, <5>1, <5>2 DEF Mistakes
      <4>4. AllContested
        BY <1>3, <1>k, <4>1, <4>3 DEF OperatorDiffers
      <4> QED BY <1>c, <4>1, <4>4
    <3>17. CASE UnlinkOwned(p)
      <4>1. pc[p] \in Removing /\ todo[p] # << >>
        BY <3>17, UnlinkOwnedStep DEF Removing, RemovesItsOwn, Removes
      <4>2. PICK j \in DOMAIN todo[p] : todo'[p][i] = todo[p][j]
        <5>1. CASE todo'[p] = todo[p]
          BY <2>3, <5>1
        <5>2. CASE todo'[p] = Tail(todo[p])
          BY <2>3, <4>1, <5>2, TodoTail
        <5> QED BY <3>17, <5>1, <5>2, UnlinkOwnedStep
      <4>3. Mistakes(p, j)
        <5>1. /\ MadeThen(todo[p][j].name, "operator")
              /\ dir'[todo[p][j].name].inode = todo[p][j].inode
          BY <3>m, <4>2
        <5>2. todo[p][j].name \in Names
          BY TodoNames
        <5> QED BY <1>o, <5>1, <5>2 DEF Mistakes
      <4>4. AllContested
        BY <1>3, <1>k, <4>1, <4>3 DEF OperatorDiffers
      <4> QED BY <1>c, <4>1, <4>4
    <3>18. CASE End(p)
      BY <3>18, LeaveStep, <2>3 DEF Removing
    <3>19. CASE Kill(p)
      BY <3>19, LeaveStep, <2>3 DEF Removing
    <3>20. CASE RemovalFails(p)
      <4>1. pc[p] \in Removing /\ todo[p] # << >>
        BY <3>20, RemovalFailsStep DEF Removing, RemovesItsOwn, Removes
      <4>2. PICK j \in DOMAIN todo[p] : todo'[p][i] = todo[p][j]
        <5>1. CASE todo'[p] = todo[p]
          BY <2>3, <5>1
        <5>2. CASE todo'[p] = Tail(todo[p])
          BY <2>3, <4>1, <5>2, TodoTail
        <5> QED BY <3>20, <5>1, <5>2, RemovalFailsStep
      <4>3. Mistakes(p, j)
        <5>1. /\ MadeThen(todo[p][j].name, "operator")
              /\ dir'[todo[p][j].name].inode = todo[p][j].inode
          BY <3>m, <4>2
        <5>2. todo[p][j].name \in Names
          BY TodoNames
        <5> QED BY <1>o, <5>1, <5>2 DEF Mistakes
      <4>4. AllContested
        BY <1>3, <1>k, <4>1, <4>3 DEF OperatorDiffers
      <4> QED BY <1>c, <4>1, <4>4
    <3> QED
      BY <3>1, <3>2, <3>3, <3>4, <3>5, <3>6, <3>7, <3>8, <3>9, <3>10, <3>11, <3>12,
         <3>13, <3>14, <3>15, <3>16, <3>17, <3>18, <3>19, <3>20 DEF Begin, Finish
  <2>4. ASSUME pc'[p] = "unlinking", MadeThen(Head(todo'[p]).name, "operator")
        PROVE  dir'[Head(todo'[p]).name].kind = "socket" /\ AllContested'
    <3>1. CASE Start(p)
      BY <3>1, StartStep, <2>4
    <3>2. CASE Preflight(p)
      BY <3>2, PreflightStep, <2>4 DEF GivenUp, Moved, Passed, Kept
    <3>3. CASE PreflightTemporary(p)
      BY <3>3, PreflightTemporaryStep, <2>4 DEF GivenUp, Moved, Passed, Kept
    <3>4. CASE InspectStale(p)
      BY <3>4, InspectStaleStep, <2>4 DEF GivenUp, Moved, Passed, Kept
    <3>5. CASE UnlinkStale(p)
      BY <3>5, UnlinkStaleStep, <2>4 DEF GivenUp, Moved, Passed, Kept
    <3>6. CASE Bind(p)
      BY <3>6, BindStep, <2>4 DEF GivenUp, Moved, Kept
    <3>7. CASE Identify(p)
      BY <3>7, IdentifyStep, <2>4 DEF GivenUp, Moved, Kept
    <3>8. CASE Chmod(p)
      BY <3>8, ChmodStep, <2>4 DEF GivenUp, Moved, Kept
    <3>9. CASE IdentifyAgain(p)
      BY <3>9, IdentifyAgainStep, <2>4 DEF GivenUp, Moved, Kept
    <3>10. CASE Publish(p)
      BY <3>10, PublishStep, <2>4 DEF GivenUp, Moved, Kept
    <3>11. CASE Verify(p)
      BY <3>11, VerifyStep, <2>4 DEF GivenUp, Moved, Passed, Kept
    <3>12. CASE Complete(p)
      BY <3>12, CompleteStep, <2>4 DEF Moved, Kept
    <3>13. CASE CallFails(p)
      BY <3>13, CallFailsStep, <2>4 DEF GivenUp
    <3>14. CASE Close(p)
      BY <3>14, CloseStep, <2>4 DEF Moved
    <3>15. CASE DropRuntime(p)
      BY <3>15, CloseStep, <2>4 DEF Moved
    <3>16. CASE LookForOwned(p)
      <4>1. /\ todo'[p] = todo[p] /\ dir' = dir /\ todo[p] # << >> /\ pc[p] = "removing"
            /\ dir[Head(todo[p]).name].kind = "socket"
            /\ dir[Head(todo[p]).name].inode = Head(todo[p]).inode
        BY <3>16, <2>4, LookForOwnedStep
      <4>2. 1 \in DOMAIN todo[p] /\ todo[p][1] = Head(todo[p])
        BY <4>1, TodoTail
      <4>3. Mistakes(p, 1)
        BY <2>4, <4>1, <4>2 DEF Mistakes, MadeBy, MadeThen
      <4>4. AllContested
        BY <1>3, <1>k, <4>1, <4>2, <4>3 DEF OperatorDiffers, Removing
      <4> QED BY <1>c, <4>1, <4>4 DEF Removing
    <3>17. CASE UnlinkOwned(p)
      BY <3>17, UnlinkOwnedStep, <2>4 DEF Moved
    <3>18. CASE End(p)
      BY <3>18, LeaveStep, <2>4
    <3>19. CASE Kill(p)
      BY <3>19, LeaveStep, <2>4
    <3>20. CASE RemovalFails(p)
      BY <3>20, RemovalFailsStep, <2>4 DEF Moved, Removing
    <3> QED
      BY <3>1, <3>2, <3>3, <3>4, <3>5, <3>6, <3>7, <3>8, <3>9, <3>10, <3>11, <3>12,
         <3>13, <3>14, <3>15, <3>16, <3>17, <3>18, <3>19, <3>20 DEF Begin, Finish
  <2> QED BY <1>3, <2>1, <2>2, <2>3, <2>4 DEF OperatorDiffers, MadeBy, MadeThen
<1> QED BY <1>2, <1>3

(* While a process that is not contested starts, the others change no name. *)
LEMMA AloneStarts ==
  ASSUME IInv, NEW p \in Processes, Begin(p) \/ Finish(p), NEW r \in Processes, r # p,
         pc[r] \in Starts, ~contested'[r], NEW n \in Names
  PROVE  dir'[n] = dir[n]
<1> USE DEF IInv
<1>1. ~contested[r]
  BY Others
<1>2. pc[p] \notin Starts \union Removing
  BY <1>1 DEF Alone, Starts, Looking, Making, Named, Over
<1>3. ~Vanishes(p, n) /\ ~Appears(p, n)
  BY <1>2 DEF Vanishes, Appears, Starts, Looking, Making, Named, Removing
<1> QED BY <1>3, DirStep

LEMMA UndisturbedKept ==
  ASSUME IInv, NEW p \in Processes, Begin(p) \/ Finish(p)
  PROVE  Undisturbed'
<1> USE DEF IInv
<1>1. SUFFICES ASSUME NEW r \in Processes, pc'[r] \in Starts, ~contested'[r]
               PROVE  Untouched(r)'
  BY DEF Undisturbed
<1>2. CASE r # p
  <2>1. pc'[r] = pc[r] /\ lane'[r] = lane[r] /\ ~contested[r]
    BY <1>1, <1>2, Others
  <2>2. \A l \in Lanes : dir'[Target(l)] = dir[Target(l)]
    BY <1>1, <1>2, <2>1, AloneStarts, NamesDiffer
  <2>3. Untouched(r)
    BY <1>1, <2>1 DEF Undisturbed
  <2>4. lane[r] \in Lanes
    BY DEF Types
  <2> QED BY <2>1, <2>2, <2>3, <2>4 DEF Untouched, Clear
<1>3. CASE r = p /\ Start(p)
  BY <1>3, StartStep DEF Untouched, Making, Named
<1>4. CASE r = p /\ ~Start(p)
  <2>0. pc[p] \in Starts /\ ~contested[p]
    BY <1>1, <1>4, PcStep
  <2>k. Untouched(p)
    BY <2>0 DEF Undisturbed
  <2>l. lane[p] \in {1, 2} /\ Lanes = {1, 2}
    BY DEF Types, Lanes
  <2>t. Target(1) # Target(2)
    BY DEF Target
  <2>n. Temporary(p) \notin Targets /\ Temporary(p) # Target(1) /\ Temporary(p) # Target(2)
    BY <2>0, <2>l, TemporaryName, NamesDiffer DEF KnowsItsOwn, Knows
  <2>1. CASE Start(p)
    BY <2>1, StartStep, <1>1, <1>4, <2>0, <2>k, <2>l DEF Untouched, Clear, Starts,
       Looking, Making, Named, Removing
  <2>2. CASE Preflight(p)
    BY <2>2, PreflightStep, <1>1, <1>4, <2>0, <2>k, <2>l DEF GivenUp, Moved, Passed,
       Kept, Untouched, Clear, Starts, Looking, Making, Named, Removing
  <2>3. CASE PreflightTemporary(p)
    BY <2>3, PreflightTemporaryStep, <1>1, <1>4, <2>0, <2>k, <2>l DEF GivenUp, Moved,
       Passed, Kept, Untouched, Clear, Starts, Looking, Making, Named, Removing
  <2>4. CASE InspectStale(p)
    BY <2>4, InspectStaleStep, <1>1, <1>4, <2>0, <2>k, <2>l DEF GivenUp, Moved,
       Passed, Kept, Untouched, Clear, Starts, Looking, Making, Named, Removing
  <2>5. CASE UnlinkStale(p)
    <3>1. CASE GivenUp(p, "contest")
      BY <1>1, <1>4, <3>1 DEF GivenUp, Starts, Looking, Making, Named
    <3>2. CASE ~GivenUp(p, "contest")
      <4>1. /\ pc[p] = "unlink" /\ Passed(p, "inspect", "bind")
            /\ dir' = [dir EXCEPT ![Target(lane[p])] = Absent]
        BY <2>5, <3>2, UnlinkStaleStep
      <4>2. \A l \in Lanes : dir'[Target(l)] = IF l = lane[p] THEN Absent ELSE dir[Target(l)]
        BY <4>1, NamesDiffer DEF Types
      <4>3. \A l \in Lanes : l <= lane[p] => dir'[Target(l)].kind = "none"
        BY <2>k, <2>l, <4>1, <4>2, NodeFields DEF Untouched, Clear
      <4>4. CASE lane[p] = 1
        BY <1>4, <2>l, <4>1, <4>3, <4>4 DEF Passed, Untouched, Clear, Named
      <4>5. CASE lane[p] = 2
        BY <1>4, <2>l, <4>1, <4>3, <4>5 DEF Passed, Untouched, Clear, Named
      <4> QED BY <2>l, <4>4, <4>5
    <3> QED BY <3>1, <3>2
  <2>6. CASE Bind(p)
    <3>1. CASE GivenUp(p, "name")
      BY <1>1, <1>4, <3>1 DEF GivenUp, Starts, Looking, Making, Named
    <3>2. CASE ~GivenUp(p, "name")
      <4>1. /\ pc[p] = "bind" /\ Moved(p, "identify")
            /\ dir' = [dir EXCEPT ![Temporary(p)] = Node("socket", NextInode, p)]
        BY <2>6, <3>2, BindStep
      <4>2. \A l \in Lanes : dir'[Target(l)] = dir[Target(l)]
        BY <2>l, <2>n, <4>1 DEF Types
      <4> QED BY <1>4, <2>k, <4>1, <4>2 DEF Moved, Untouched, Clear, Named
    <3> QED BY <3>1, <3>2
  <2>7. CASE Identify(p)
    <3>1. CASE GivenUp(p, "contest")
      BY <1>1, <1>4, <3>1 DEF GivenUp, Starts, Looking, Making, Named
    <3>2. CASE ~GivenUp(p, "contest")
      <4>1. pc[p] = "identify" /\ Moved(p, "chmod") /\ dir' = dir
        BY <2>7, <3>2, IdentifyStep
      <4> QED BY <1>4, <2>k, <4>1 DEF Moved, Untouched, Clear, Named
    <3> QED BY <3>1, <3>2
  <2>8. CASE Chmod(p)
    BY <2>8, ChmodStep, <1>1, <1>4, <2>0, <2>k, <2>l DEF GivenUp, Moved, Kept,
       Untouched, Clear, Starts, Looking, Making, Named, Removing
  <2>9. CASE IdentifyAgain(p)
    BY <2>9, IdentifyAgainStep, <1>1, <1>4, <2>0, <2>k, <2>l DEF GivenUp, Moved, Kept,
       Untouched, Clear, Starts, Looking, Making, Named, Removing
  <2>10. CASE Publish(p)
    <3>1. CASE GivenUp(p, "contest")
      BY <1>1, <1>4, <3>1 DEF GivenUp, Starts, Looking, Making, Named
    <3>2. CASE ~GivenUp(p, "contest")
      <4>1. /\ pc[p] = "publish" /\ Moved(p, "verify")
            /\ dir' = [dir EXCEPT ![Target(lane[p])] = dir[Temporary(p)],
                                  ![Temporary(p)] = Absent]
        BY <2>10, <3>2, PublishStep
      <4>2. ASSUME NEW l \in Lanes, l # lane[p] PROVE dir'[Target(l)] = dir[Target(l)]
        <5>1. /\ Target(l) \in Names /\ Target(l) # Temporary(p)
              /\ Target(l) # Target(lane[p])
          BY <2>l, <2>n, <4>2, NamesDiffer
        <5> QED BY <4>1, <5>1 DEF Types
      <4>3. \A l \in Lanes : l > lane[p] => l # lane[p] /\ l >= lane[p]
        BY <2>l
      <4>4. \A l \in Lanes : l > lane[p] => dir'[Target(l)].kind = "none"
        BY <2>k, <4>1, <4>2, <4>3 DEF Untouched, Clear, Named
      <4> QED BY <1>4, <4>1, <4>4 DEF Moved, Untouched, Clear, Named
    <3> QED BY <3>1, <3>2
  <2>11. CASE Verify(p)
    BY <2>11, VerifyStep, <1>1, <1>4, <2>0, <2>k, <2>l DEF GivenUp, Moved, Passed,
       Kept, Untouched, Clear, Starts, Looking, Making, Named, Removing
  <2>12. CASE Complete(p)
    BY <2>12, CompleteStep, <1>1, <1>4, <2>0, <2>k, <2>l DEF Moved, Kept, Untouched,
       Clear, Starts, Looking, Making, Named, Removing
  <2>13. CASE CallFails(p)
    BY <2>13, CallFailsStep, <1>1, <1>4, <2>0, <2>k, <2>l DEF GivenUp, Untouched,
       Clear, Starts, Looking, Making, Named, Removing
  <2>14. CASE Close(p)
    BY <2>14, CloseStep, <1>1, <1>4, <2>0, <2>k, <2>l DEF Moved, Untouched, Clear,
       Starts, Looking, Making, Named, Removing
  <2>15. CASE DropRuntime(p)
    BY <2>15, CloseStep, <1>1, <1>4, <2>0, <2>k, <2>l DEF Moved, Untouched, Clear,
       Starts, Looking, Making, Named, Removing
  <2>16. CASE LookForOwned(p)
    BY <2>16, LookForOwnedStep, <1>1, <1>4, <2>0, <2>k, <2>l DEF Untouched, Clear,
       Starts, Looking, Making, Named, Removing
  <2>17. CASE UnlinkOwned(p)
    BY <2>17, UnlinkOwnedStep, <1>1, <1>4, <2>0, <2>k, <2>l DEF Moved, Untouched,
       Clear, Starts, Looking, Making, Named, Removing
  <2>18. CASE End(p)
    BY <2>18, LeaveStep, <1>1, <1>4, <2>0, <2>k, <2>l DEF Untouched, Clear, Starts,
       Looking, Making, Named, Removing
  <2>19. CASE Kill(p)
    BY <2>19, LeaveStep, <1>1, <1>4, <2>0, <2>k, <2>l DEF Untouched, Clear, Starts,
       Looking, Making, Named, Removing
  <2>20. CASE RemovalFails(p)
    BY <2>20, RemovalFailsStep, <1>1, <1>4, <2>0, <2>k, <2>l DEF Moved, Untouched,
       Clear, Starts, Looking, Making, Named, Removing
  <2> QED
    BY <2>1, <2>2, <2>3, <2>4, <2>5, <2>6, <2>7, <2>8, <2>9, <2>10, <2>11, <2>12,
       <2>13, <2>14, <2>15, <2>16, <2>17, <2>18, <2>19, <2>20 DEF Begin, Finish
<1> QED BY <1>2, <1>3, <1>4

LEMMA ReachedKept ==
  ASSUME IInv, NEW p \in Processes, Begin(p) \/ Finish(p)
  PROVE  Reached'
<1> USE DEF IInv
<1>1. SUFFICES ASSUME NEW r \in Processes, ~contested'[r], NEW l \in Published(r)'
               PROVE  \/ dir'[Target(l)] = Node("socket", bound'[r][l], r)
                      \/ pc'[r] = "running" /\ MadeThen(Target(l), "operator")
  BY DEF Reached, MadeBy, MadeThen
<1>t. l \in Lanes /\ Target(l) \in Names /\ Target(l) \in Targets
  BY NamesDiffer DEF Published
<1>2. CASE r # p
  <2>1. /\ pc'[r] = pc[r] /\ ~contested[r] /\ l \in Published(r) /\ bound'[r] = bound[r]
    BY <1>1, <1>2, Others, OthersPublished
  <2>2. pc[r] \in Starts \union {"running"}
    BY <2>1 DEF Published, Starts, Making
  <2>3. dir'[Target(l)] = dir[Target(l)]
    <3>1. CASE pc[r] \in Starts
      BY <1>1, <1>2, <1>t, <3>1, AloneStarts
    <3>2. CASE pc[r] = "running"
      <4>1. pc[p] \notin Starts
        BY <1>2, <2>1, <3>2 DEF Alone, Over
      <4>2. pc[p] = "unlinking" => Head(todo[p]).name \notin Targets
        BY <1>2, <2>1, <3>2 DEF Spared, Spares, Removing
      <4>3. ~Vanishes(p, Target(l)) /\ ~Appears(p, Target(l))
        BY <1>t, <4>1, <4>2 DEF Vanishes, Appears, Starts, Looking, Making, Named
      <4> QED BY <1>t, <4>3, DirStep
    <3> QED BY <2>2, <3>1, <3>2
  <2> QED BY <2>1, <2>3 DEF Reached, MadeBy, MadeThen
<1>3. CASE r = p
  <2>1. pc'[p] \in Starts \union {"running"} /\ ~Start(p)
    BY <1>1, <1>3, StartStep DEF Published, Starts, Making, Named
  <2>2. pc[p] \in Starts /\ ~contested[p] /\ bound'[p][l] = bound[p][l]
    BY <1>1, <1>3, <2>1, PcStep, PublishedStep
  <2>n. Temporary(p) \notin Targets
    BY <2>2, TemporaryName DEF KnowsItsOwn, Knows
  <2>3. CASE l \in Published(p)
    <3>1. dir[Target(l)] = Node("socket", bound[p][l], p)
      BY <2>2, <2>3 DEF Reached, Starts, Looking, Making, Named
    <3>2. ~Vanishes(p, Target(l))
      BY <1>t, <2>3, <2>n DEF Vanishes, Published, Making, Named
    <3>3. ~Appears(p, Target(l))
      BY <3>1, NodeFields DEF Appears
    <3> QED BY <1>3, <1>t, <2>2, <3>1, <3>2, <3>3, DirStep
  <2>4. CASE l \notin Published(p)
    <3>1. pc[p] = "publish" /\ l = lane[p] /\ dir'[Target(l)] = dir[Temporary(p)]
      BY <1>1, <1>3, <1>t, <2>4, <2>n, PublishedStep
    <3> QED BY <1>3, <2>2, <3>1 DEF KnowsItsOwn, Knows, Named
  <2> QED BY <2>3, <2>4
<1> QED BY <1>2, <1>3

LEMMA RemovingStep ==
  ASSUME Types, NEW p \in Processes, Begin(p) \/ Finish(p),
         pc[p] \in Removing, pc'[p] \in Removing
  PROVE  LookForOwned(p) \/ UnlinkOwned(p) \/ RemovalFails(p)
<1>1. CASE Start(p)
  BY <1>1, StartStep DEF Removing, Starts, Looking, Making, Named, Over
<1>2. CASE Preflight(p)
  BY <1>2, PreflightStep DEF GivenUp, Moved, Passed, Kept, Removing, Starts, Looking,
     Making, Named, Over
<1>3. CASE PreflightTemporary(p)
  BY <1>3, PreflightTemporaryStep DEF GivenUp, Moved, Passed, Kept, Removing, Starts,
     Looking, Making, Named, Over
<1>4. CASE InspectStale(p)
  BY <1>4, InspectStaleStep DEF GivenUp, Moved, Passed, Kept, Removing, Starts,
     Looking, Making, Named, Over
<1>5. CASE UnlinkStale(p)
  BY <1>5, UnlinkStaleStep DEF GivenUp, Moved, Passed, Kept, Removing, Starts,
     Looking, Making, Named, Over
<1>6. CASE Bind(p)
  BY <1>6, BindStep DEF GivenUp, Moved, Kept, Removing, Starts, Looking, Making,
     Named, Over
<1>7. CASE Identify(p)
  BY <1>7, IdentifyStep DEF GivenUp, Moved, Kept, Removing, Starts, Looking, Making,
     Named, Over
<1>8. CASE Chmod(p)
  BY <1>8, ChmodStep DEF GivenUp, Moved, Kept, Removing, Starts, Looking, Making,
     Named, Over
<1>9. CASE IdentifyAgain(p)
  BY <1>9, IdentifyAgainStep DEF GivenUp, Moved, Kept, Removing, Starts, Looking,
     Making, Named, Over
<1>10. CASE Publish(p)
  BY <1>10, PublishStep DEF GivenUp, Moved, Kept, Removing, Starts, Looking, Making,
     Named, Over
<1>11. CASE Verify(p)
  BY <1>11, VerifyStep DEF GivenUp, Moved, Passed, Kept, Removing, Starts, Looking,
     Making, Named, Over
<1>12. CASE Complete(p)
  BY <1>12, CompleteStep DEF Moved, Kept, Removing, Starts, Looking, Making, Named,
     Over
<1>13. CASE CallFails(p)
  BY <1>13, CallFailsStep DEF GivenUp, Removing, Starts, Looking, Making, Named, Over
<1>14. CASE Close(p)
  BY <1>14, CloseStep DEF Moved, Removing, Starts, Looking, Making, Named, Over
<1>15. CASE DropRuntime(p)
  BY <1>15, CloseStep DEF Moved, Removing, Starts, Looking, Making, Named, Over
<1>16. CASE LookForOwned(p)
  BY <1>16, LookForOwnedStep DEF Removing, Starts, Looking, Making, Named, Over
<1>17. CASE UnlinkOwned(p)
  BY <1>17, UnlinkOwnedStep DEF Moved, Removing, Starts, Looking, Making, Named, Over
<1>18. CASE End(p)
  BY <1>18, LeaveStep DEF Removing, Starts, Looking, Making, Named, Over
<1>19. CASE Kill(p)
  BY <1>19, LeaveStep DEF Removing, Starts, Looking, Making, Named, Over
<1>20. CASE RemovalFails(p)
  BY <1>20, RemovalFailsStep DEF Moved, Removing, Starts, Looking, Making, Named, Over
<1> QED
  BY <1>1, <1>2, <1>3, <1>4, <1>5, <1>6, <1>7, <1>8, <1>9, <1>10, <1>11, <1>12, <1>13,
     <1>14, <1>15, <1>16, <1>17, <1>18, <1>19, <1>20 DEF Begin, Finish

LEMMA SparedKept ==
  ASSUME IInv, NEW s \in Processes, Begin(s) \/ Finish(s)
  PROVE  Spared'
<1> USE DEF IInv
<1>1. SUFFICES ASSUME NEW p \in Processes, NEW q \in Processes, p # q,
                      pc'[p] \in Starts \union {"running"}, ~contested'[p],
                      pc'[q] \in Removing
               PROVE  Spares(q, p)'
  BY DEF Spared
<1>0. \A x : x \in Starts \union {"running"} => x \notin Over \union Removing
  BY DEF Starts, Looking, Making, Named, Over, Removing
<1>2. CASE s # p /\ s # q
  <2>1. /\ pc'[p] = pc[p] /\ pc'[q] = pc[q] /\ ~contested[p]
        /\ todo'[q] = todo[q] /\ bound'[p] = bound[p]
    BY <1>1, <1>2, Others
  <2>2. Spares(q, p)
    BY <1>1, <2>1 DEF Spared
  <2> QED BY <2>1, <2>2 DEF Spares
<1>3. CASE s = p
  <2>1. pc[q] \in Removing
    BY <1>1, <1>3, Others
  <2>2. ~Start(p)
    BY <1>0, <1>1, <2>1, StartStep DEF Removing, Over
  <2>3. pc[p] \in Starts /\ ~contested[p]
    BY <1>1, <1>3, <2>2, PcStep
  <2> QED BY <1>0, <1>1, <2>1, <2>3 DEF Alone
<1>4. CASE s = q
  <2>1. pc'[p] = pc[p] /\ ~contested[p] /\ bound'[p] = bound[p]
    BY <1>1, <1>4, Others
  <2>2. pc[q] \notin Starts
    BY <1>0, <1>1, <2>1 DEF Alone
  <2>3. ~Start(q)
    BY <1>1, StartStep DEF Removing
  <2>4. CASE Close(q) \/ DropRuntime(q)
    <3>1. /\ pc[q] = "running" /\ todo'[q] = Owned(q, 2) /\ pc'[q] = "removing"
      BY <2>4, CloseStep DEF Moved
    <3>2. DOMAIN Owned(q, 2) = 1..2
          /\ \A l \in 1..2 : Owned(q, 2)[l] = Entry(Target(l), identity[q][l])
      BY OwnedIs
    <3>3. \A i \in 1..2 : /\ i \in Lanes /\ Owned(q, 2)[i].inode = bound[q][i]
                          /\ bound[q][i] \in Inodes
      BY <3>1, <3>2, EntryFields DEF Lanes, Published, KnowsItsOwn, Knows
    <3>4. \A i \in DOMAIN Owned(q, 2), l \in Lanes :
            bound[p][l] # Unknown => Owned(q, 2)[i].inode # bound[p][l]
      BY <1>1, <3>2, <3>3 DEF ListenersDiffer
    <3> QED BY <2>1, <3>1, <3>4 DEF Spares
  <2>5. CASE pc[q] \in Removing
    <3>1. /\ Spares(q, p) /\ pc[p] = "running"
          /\ todo[q] # << >> \/ ~(LookForOwned(q) \/ UnlinkOwned(q) \/ RemovalFails(q))
      BY <1>0, <1>1, <2>1, <2>5, LookForOwnedStep, UnlinkOwnedStep, RemovalFailsStep
         DEF Spared, Alone, RemovesItsOwn, Removes
    <3>2. CASE \/ UnlinkOwned(q) \/ RemovalFails(q)
               \/ LookForOwned(q) /\ pc'[q] = "removing"
      <4>1. todo'[q] = Tail(todo[q]) /\ pc'[q] = "removing" /\ todo[q] # << >>
        BY <3>1, <3>2, UnlinkOwnedStep, LookForOwnedStep, RemovalFailsStep DEF Moved
      <4>2. \A i \in DOMAIN Tail(todo[q]), l \in Lanes :
              bound[p][l] # Unknown => Tail(todo[q])[i].inode # bound[p][l]
        BY <3>1, <4>1, TodoTail DEF Spares
      <4> QED BY <2>1, <4>1, <4>2 DEF Spares
    <3>3. CASE LookForOwned(q) /\ pc'[q] # "removing"
      <4>1. /\ todo'[q] = todo[q] /\ pc[q] = "removing" /\ todo[q] # << >>
            /\ dir[Head(todo[q]).name].kind = "socket"
            /\ dir[Head(todo[q]).name].inode = Head(todo[q]).inode
        BY <3>3, LookForOwnedStep
      <4>2. 1 \in DOMAIN todo[q] /\ todo[q][1] = Head(todo[q])
        BY <4>1, TodoTail
      <4>3. SUFFICES ASSUME Head(todo[q]).name \in Targets PROVE FALSE
        BY <2>1, <3>1, <4>1 DEF Spares
      <4>4. PICK l \in Lanes : Head(todo[q]).name = Target(l)
        BY <4>3 DEF Targets
      <4>5. l \in Published(p) /\ bound[p][l] \in Inodes
        BY <3>1 DEF Published, KnowsItsOwn, Knows
      <4>6. CASE dir[Target(l)] = Node("socket", bound[p][l], p)
        <5>1. todo[q][1].inode = bound[p][l] /\ bound[p][l] # Unknown
          BY <4>1, <4>2, <4>4, <4>5, <4>6, NodeFields DEF Inodes
        <5> QED BY <3>1, <4>2, <5>1 DEF Spares
      <4>7. CASE MadeBy(Target(l), "operator")
        <5>1. Mistakes(q, 1)
          BY <4>1, <4>2, <4>4, <4>7 DEF Mistakes
        <5>2. AllContested
          BY <2>5, <4>2, <5>1 DEF OperatorsDiffer, OperatorDiffers
        <5> QED BY <2>1, <5>2 DEF AllContested
      <4> QED BY <2>1, <4>5, <4>6, <4>7 DEF Reached
    <3> QED BY <1>1, <1>4, <2>5, <3>2, <3>3, RemovingStep
  <2> QED BY <1>1, <1>4, <2>2, <2>3, <2>4, <2>5, PcStep
<1> QED BY <1>2, <1>3, <1>4

LEMMA ContestKept ==
  ASSUME IInv, NEW p \in Processes, Begin(p) \/ Finish(p)
  PROVE  LeftoversDoNotBlock'
<1> USE DEF IInv
<1>1. SUFFICES ASSUME NEW r \in Processes, why'[r] = "contest", ~contested'[r]
               PROVE  FALSE
  BY DEF LeftoversDoNotBlock
<1>2. CASE r # p
  BY <1>1, <1>2, Others DEF LeftoversDoNotBlock, Types
<1>3. CASE r = p /\ Start(p)
  BY <1>1, <1>3, StartStep DEF KnowsItsOwn, Knows
<1>4. CASE r = p /\ ~Start(p)
  <2>0. ~contested[p] /\ why[p] # "contest"
    BY <1>1, <1>4, PcStep DEF LeftoversDoNotBlock
  <2>k. /\ pc[p] \in Named => dir[Temporary(p)] = Node("socket", bound[p][lane[p]], p)
        /\ pc[p] \in Named \ {"identify"} => identity[p][lane[p]] = bound[p][lane[p]]
    BY DEF KnowsItsOwn, Knows
  <2>u. pc[p] \in Starts => Untouched(p)
    BY <2>0 DEF Undisturbed
  <2>v. pc[p] = "verify" => IsOwn(p, Target(lane[p]))
    <3> SUFFICES ASSUME pc[p] = "verify" PROVE IsOwn(p, Target(lane[p]))
      OBVIOUS
    <3>1. lane[p] \in Published(p)
      BY DEF Published, Types
    <3>2. dir[Target(lane[p])] = Node("socket", identity[p][lane[p]], p)
      BY <2>0, <3>1 DEF Reached, KnowsItsOwn, Knows
    <3> QED BY <3>2, NodeFields DEF IsOwn
  <2>1. CASE Start(p)
    BY <2>1, StartStep, <1>1, <1>4, <2>0
  <2>2. CASE Preflight(p)
    BY <2>2, PreflightStep, <1>1, <1>4, <2>0 DEF GivenUp, Moved, Passed, Kept
  <2>3. CASE PreflightTemporary(p)
    BY <2>3, PreflightTemporaryStep, <1>1, <1>4, <2>0 DEF GivenUp, Moved, Passed, Kept
  <2>4. CASE InspectStale(p)
    BY <2>4, InspectStaleStep, <1>1, <1>4, <2>0 DEF GivenUp, Moved, Passed, Kept
  <2>5. CASE UnlinkStale(p)
    BY <2>5, UnlinkStaleStep, <1>1, <1>4, <2>0, <2>u DEF GivenUp, Moved, Passed, Kept,
       Untouched, Starts, Looking
  <2>6. CASE Bind(p)
    BY <2>6, BindStep, <1>1, <1>4, <2>0 DEF GivenUp, Moved, Kept
  <2>7. CASE Identify(p)
    <3>1. pc[p] = "identify" /\ dir[Temporary(p)].kind # "socket"
      <4>1. GivenUp(p, "contest") \/ why'[p] = why[p]
        BY <2>7, IdentifyStep
      <4> QED BY <2>7, <1>1, <1>4, <2>0, IdentifyStep
    <3> QED BY <2>k, <3>1, NodeFields DEF Named
  <2>8. CASE Chmod(p)
    BY <2>8, ChmodStep, <1>1, <1>4, <2>0, <2>k, NodeFields DEF GivenUp, Moved, Kept,
       Named
  <2>9. CASE IdentifyAgain(p)
    BY <2>9, IdentifyAgainStep, <1>1, <1>4, <2>0, <2>k, NodeFields DEF GivenUp, Moved,
       Kept, Named, IsOwn
  <2>10. CASE Publish(p)
    <3>1. /\ pc[p] = "publish"
          /\ dir[Target(lane[p])].kind # "none" \/ dir[Temporary(p)].kind = "none"
      BY <2>10, <1>1, <1>4, <2>0, PublishStep DEF Kept
    <3>2. dir[Temporary(p)].kind = "socket"
      BY <2>k, <3>1, NodeFields DEF Named
    <3>3. lane[p] \in {l \in Lanes : l >= lane[p]}
      BY DEF Types, Lanes
    <3>4. dir[Target(lane[p])].kind = "none"
      BY <2>u, <3>1, <3>3 DEF Untouched, Clear, Starts, Making, Named
    <3> QED BY <3>1, <3>2, <3>4
  <2>11. CASE Verify(p)
    BY <2>11, VerifyStep, <1>1, <1>4, <2>0, <2>v DEF GivenUp, Moved, Passed, Kept
  <2>12. CASE Complete(p)
    BY <2>12, CompleteStep, <1>1, <1>4, <2>0 DEF Moved, Kept
  <2>13. CASE CallFails(p)
    BY <2>13, CallFailsStep, <1>1, <1>4, <2>0 DEF GivenUp
  <2>14. CASE Close(p)
    BY <2>14, CloseStep, <1>1, <1>4, <2>0 DEF Moved
  <2>15. CASE DropRuntime(p)
    BY <2>15, CloseStep, <1>1, <1>4, <2>0 DEF Moved
  <2>16. CASE LookForOwned(p)
    BY <2>16, LookForOwnedStep, <1>1, <1>4, <2>0
  <2>17. CASE UnlinkOwned(p)
    BY <2>17, UnlinkOwnedStep, <1>1, <1>4, <2>0 DEF Moved
  <2>18. CASE End(p)
    BY <2>18, LeaveStep, <1>1, <1>4, <2>0
  <2>19. CASE Kill(p)
    BY <2>19, LeaveStep, <1>1, <1>4, <2>0
  <2>20. CASE RemovalFails(p)
    BY <2>20, RemovalFailsStep, <1>1, <1>4, <2>0 DEF Moved, Removing
  <2> QED
    BY <2>1, <2>2, <2>3, <2>4, <2>5, <2>6, <2>7, <2>8, <2>9, <2>10, <2>11, <2>12,
       <2>13, <2>14, <2>15, <2>16, <2>17, <2>18, <2>19, <2>20 DEF Begin, Finish
<1> QED BY <1>2, <1>3, <1>4

-----------------------------------------------------------------------------
(* The operator keeps it too.                                              *)

LEMMA OperatorKeeps ==
  ASSUME IInv, NEW l \in Lanes, NEW kind \in {"file", "socket"}, OperatorReplaces(l, kind)
  PROVE  IInv'
<1> USE DEF IInv
<1>1. /\ pc' = pc /\ lane' = lane /\ ids' = ids /\ bound' = bound /\ identity' = identity
      /\ todo' = todo /\ why' = why
      /\ FreeInodes # {} /\ ~MadeBy(Target(l), "operator")
      /\ missed' = missed
      /\ slipped' = [q \in Processes |-> slipped[q] \/ Unlinks(q, Target(l))]
  BY OperatorStep
<1>2. \A p \in Processes :
        /\ contested[p] => contested'[p]
        /\ pc[p] \in Starts => contested'[p]
        /\ (\E q \in Processes : pc[q] \in Removing) => contested'[p]
  BY OperatorStep
<1>3. /\ dir'[Target(l)] = Node(kind, NextInode, "operator")
      /\ \A n \in Names : n # Target(l) => dir'[n] = dir[n]
  <2>1. dir' = [dir EXCEPT ![Target(l)] = Node(kind, NextInode, "operator")]
    BY OperatorStep
  <2> QED BY <2>1, NamesDiffer DEF Types
<1>4. Target(l) \in Names /\ Target(l) \in Targets
  BY NamesDiffer
<1>5. NextInode \in Inodes /\ \A p \in Processes, m \in Lanes : bound[p][m] # NextInode
  BY <1>1, NextInodeIsFree
<1>6. \A p \in Processes : Published(p)' = Published(p) /\ Temporary(p)' = Temporary(p)
  BY <1>1 DEF Published, Temporary
<1>7. \A n \in Names : MadeThen(n, "operator") => n = Target(l) \/ MadeBy(n, "operator")
  BY <1>3 DEF MadeBy, MadeThen
<1>8. Types' /\ HistoryTypes'
  <2>1. HistoryTypes'
    BY <1>1 DEF HistoryTypes, Unlinks
  <2> QED BY <2>1, OperatorTypes
<1>9. KnowsItsOwn'
  <2>1. SUFFICES ASSUME NEW p \in Processes PROVE Knows(p)'
    BY DEF KnowsItsOwn
  <2>2. Knows(p)
    BY DEF KnowsItsOwn
  <2>3. pc[p] \in Named => dir'[Temporary(p)] = dir[Temporary(p)]
    BY <1>3, <1>4, <2>2, TemporaryName DEF Knows, Starts, Making
  <2> QED BY <1>1, <1>6, <2>2, <2>3 DEF Knows
<1>10. RemovesItsOwn'
  <2>1. SUFFICES ASSUME NEW p \in Processes, pc[p] \in Removing PROVE Removes(p)'
    BY <1>1 DEF RemovesItsOwn
  <2>2. Removes(p)
    BY <2>1 DEF RemovesItsOwn
  <2>3. \A i \in DOMAIN todo[p] : todo[p][i].name \notin Targets =>
          dir'[todo[p][i].name] = dir[todo[p][i].name]
    BY <1>3, <1>4, TodoNames
  <2> QED BY <1>1, <2>2, <2>3 DEF Removes
<1>11. NamesAccounted'
  <2>1. SUFFICES ASSUME NEW p \in Processes, NEW n \in Names, MadeBy(n, p)'
                 PROVE  Accounted(p, n)'
    BY DEF NamesAccounted
  <2>2. dir'[n] = dir[n]
    BY <1>3, <2>1, NodeFields DEF MadeBy
  <2>3. Accounted(p, n)
    BY <2>1, <2>2 DEF MadeBy, NamesAccounted
  <2> QED BY <1>1, <1>6, <2>2, <2>3 DEF Accounted
<1>12. ListenersDiffer'
  BY <1>1 DEF ListenersDiffer
<1>13. OperatorsDiffer'
  <2>1. SUFFICES ASSUME NEW p \in Processes PROVE OperatorDiffers(p)'
    BY DEF OperatorsDiffer
  <2>2. OperatorDiffers(p)
    BY DEF OperatorsDiffer
  <2>3. ASSUME NEW m \in Published(p), MadeThen(Target(m), "operator")
        PROVE  dir'[Target(m)].inode # bound[p][m]
    <3>1. m \in Lanes /\ Target(m) \in Names
      BY NamesDiffer DEF Published
    <3>2. CASE Target(m) = Target(l)
      BY <1>3, <1>5, <3>1, <3>2, NodeFields
    <3>3. CASE Target(m) # Target(l)
      BY <1>3, <2>2, <2>3, <3>1, <3>3 DEF OperatorDiffers, MadeBy, MadeThen
    <3> QED BY <3>2, <3>3
  <2>4. pc[p] \in Removing => AllContested'
    BY <1>2 DEF AllContested
  <2>5. pc[p] = "unlink" => dir'[Target(lane[p])].kind # "file" \/ slipped'[p]
    <3>1. CASE Target(lane[p]) = Target(l)
      BY <1>1, <3>1 DEF Unlinks
    <3>2. CASE Target(lane[p]) # Target(l)
      BY <1>1, <1>3, <2>2, <3>2, NamesDiffer DEF OperatorDiffers, Types
    <3> QED BY <3>1, <3>2
  <2>6. ASSUME pc[p] = "unlinking", MadeThen(Head(todo[p]).name, "operator")
        PROVE  slipped'[p] \/ (dir'[Head(todo[p]).name].kind = "socket" /\ AllContested')
    <3>1. CASE Head(todo[p]).name = Target(l)
      BY <1>1, <2>6, <3>1 DEF Unlinks
    <3>2. CASE Head(todo[p]).name # Target(l)
      <4>1. Head(todo[p]).name \in Names
        BY <2>6, TodoTail DEF RemovesItsOwn, Removes, Removing
      <4>2. slipped[p] \/ dir[Head(todo[p]).name].kind = "socket"
        BY <1>3, <2>2, <2>6, <3>2, <4>1 DEF OperatorDiffers, MadeBy, MadeThen
      <4> QED BY <1>1, <1>3, <2>4, <2>6, <3>2, <4>1, <4>2 DEF Removing
    <3> QED BY <3>1, <3>2
  <2> QED BY <1>1, <1>6, <2>3, <2>4, <2>5, <2>6 DEF OperatorDiffers, MadeBy, MadeThen
<1>14. Alone'
  BY <1>1, <1>2 DEF Alone
<1>15. Undisturbed'
  BY <1>1, <1>2 DEF Undisturbed
<1>16. Reached'
  <2>1. SUFFICES ASSUME NEW p \in Processes, ~contested'[p], NEW m \in Published(p)
                 PROVE  \/ dir'[Target(m)] = Node("socket", bound[p][m], p)
                        \/ pc[p] = "running" /\ MadeThen(Target(m), "operator")
    BY <1>1, <1>6 DEF Reached, MadeBy, MadeThen
  <2>2. pc[p] = "running" /\ ~contested[p] /\ m \in Lanes /\ Target(m) \in Names
    BY <1>2, <2>1, NamesDiffer DEF Published, Starts, Making
  <2>3. CASE Target(m) = Target(l)
    BY <1>3, <2>2, <2>3, NodeFields DEF MadeThen
  <2>4. CASE Target(m) # Target(l)
    BY <1>3, <2>1, <2>2, <2>4 DEF Reached, MadeBy, MadeThen
  <2> QED BY <2>3, <2>4
<1>17. Spared'
  BY <1>1, <1>2 DEF Spared
<1>18. LeftoversDoNotBlock'
  BY <1>1, <1>2 DEF LeftoversDoNotBlock
<1> QED BY <1>8, <1>9, <1>10, <1>11, <1>12, <1>13, <1>14, <1>15, <1>16, <1>17, <1>18

-----------------------------------------------------------------------------
(* The theorems.                                                           *)

LEMMA Initially == Init => IInv
<1> SUFFICES ASSUME Init PROVE IInv
  OBVIOUS
<1>1. /\ \A p \in Processes : pc[p] = "idle" /\ why[p] = "none" /\ bound[p] = NoInodes
      /\ \A n \in Names : dir[n].kind = "none"
  BY NodeFields DEF Init
<1>2. "idle" \notin Starts \union Removing \union Making \union Named \union {"complete"}
  BY DEF Starts, Looking, Making, Named, Removing
<1>3. Types /\ HistoryTypes
  BY DEF Init, Types, HistoryTypes, States, Over, Numbers, NoInodes, Lanes
<1>4. \A p \in Processes : Published(p) = {}
  BY <1>1, <1>2 DEF Published
<1>5. KnowsItsOwn /\ RemovesItsOwn /\ NamesAccounted
  BY <1>1, <1>2, <1>4 DEF KnowsItsOwn, Knows, RemovesItsOwn, NamesAccounted, MadeBy
<1>6. ListenersDiffer
  BY <1>1 DEF ListenersDiffer, NoInodes
<1>7. OperatorsDiffer
  BY <1>1, <1>2, <1>4 DEF OperatorsDiffer, OperatorDiffers
<1>8. Alone /\ Undisturbed /\ Reached /\ Spared /\ LeftoversDoNotBlock
  BY <1>1, <1>2, <1>4 DEF Alone, Undisturbed, Reached, Spared, LeftoversDoNotBlock, Over
<1> QED BY <1>3, <1>5, <1>6, <1>7, <1>8 DEF IInv

LEMMA Stutters == ASSUME IInv, UNCHANGED vars PROVE IInv'
<1> USE DEF vars
<1>1. Types' /\ HistoryTypes' /\ RemovesItsOwn' /\ ListenersDiffer' /\ Alone'
      /\ Spared' /\ LeftoversDoNotBlock'
  BY DEF IInv, Types, HistoryTypes, RemovesItsOwn, Removes, ListenersDiffer, Alone, Spared, Spares,
     LeftoversDoNotBlock
<1>2. KnowsItsOwn'
  BY DEF IInv, KnowsItsOwn, Knows, Published, Temporary
<1>3. NamesAccounted'
  BY DEF IInv, NamesAccounted, Accounted, Published, Temporary, MadeBy
<1>4. OperatorsDiffer'
  BY DEF IInv, OperatorsDiffer, OperatorDiffers, Mistakes, AllContested, Published, MadeBy
<1>5. Undisturbed'
  BY DEF IInv, Undisturbed, Untouched, Clear
<1>6. Reached'
  BY DEF IInv, Reached, Published, MadeBy
<1> QED BY <1>1, <1>2, <1>3, <1>4, <1>5, <1>6 DEF IInv

(* The inductive invariant holds whatever the number of processes, ids and *)
(* inodes, and however often calls fail or the operator intervenes.        *)
THEOREM Invariant == Spec => []IInv
<1>1. IInv /\ [Next]_vars => IInv'
  <2> SUFFICES ASSUME IInv, [Next]_vars PROVE IInv'
    OBVIOUS
  <2>1. CASE \E p \in Processes : Begin(p) \/ Finish(p)
    <3>1. PICK p \in Processes : Begin(p) \/ Finish(p)
      BY <2>1
    <3>2. Types' /\ HistoryTypes'
      BY <3>1, TypesKept, HistoryStep DEF IInv
    <3> QED
      BY <3>1, <3>2, KnowsItsOwnKept, RemovesItsOwnKept, NamesAccountedKept,
         ListenersDifferKept, OperatorsDifferKept, AloneKept, UndisturbedKept,
         ReachedKept, SparedKept, ContestKept DEF IInv
  <2>2. CASE \E l \in Lanes, kind \in {"file", "socket"} : OperatorReplaces(l, kind)
    BY <2>2, OperatorKeeps
  <2>3. CASE UNCHANGED vars
    BY <2>3, Stutters
  <2> QED BY <2>1, <2>2, <2>3 DEF Next
<1> QED BY <1>1, Initially, PTL DEF Spec

(* A process that runs and is not contested is reached at its two names,   *)
(* unless the operator has put something there: no other process has taken *)
(* its socket away, not even one that ends and meets an inode of its own   *)
(* number (remove_owned_socket).                                           *)
THEOREM RunningIsReached == Spec => []RunningIsReachable
<1>1. IInv => RunningIsReachable
  <2> SUFFICES ASSUME IInv, NEW p \in Processes, pc[p] = "running", ~contested[p],
                      NEW l \in Lanes
               PROVE  \/ MadeBy(Target(l), "operator")
                      \/ MadeBy(Target(l), p) /\ dir[Target(l)].inode = bound[p][l]
    BY DEF RunningIsReachable
  <2>1. l \in Published(p)
    BY DEF Published
  <2> QED BY <2>1, NodeFields DEF IInv, Reached, MadeBy
<1> QED BY <1>1, Invariant, PTL

(* A process that has ended of its own accord has left no name that it     *)
(* made, but those that a failed call has cost it: the one that was to     *)
(* tell it which socket is its own, or one of the two that remove a name   *)
(* (bind_owned_socket, cleanup_owned_sockets, remove_owned_socket).        *)
THEOREM NothingIsLeftBehind == Spec => []NothingLeftBehind
<1>1. IInv => NothingLeftBehind
  BY DEF IInv, NamesAccounted, Accounted, NothingLeftBehind
<1> QED BY <1>1, Invariant, PTL

(* Whatever killed processes left, a start that no other process and no    *)
(* operator interferes with is not given up over a name it did not expect  *)
(* (remove_stale_socket, verify_socket_identity).                          *)
THEOREM LeftoversAreNoObstacle == Spec => []LeftoversDoNotBlock
<1>1. IInv => LeftoversDoNotBlock
  BY DEF IInv
<1> QED BY <1>1, Invariant, PTL

(* No step replaces what the operator made, and only the unlink of a       *)
(* process removes it: of one that had looked at the name before it came,  *)
(* or that takes a socket for a stale one as it starts, or, contested,     *)
(* for its own, when an inode was given out again.  A file that a process  *)
(* has seen stays (remove_stale_socket, remove_owned_socket).              *)
THEOREM ForeignNamesStay == Spec => ForeignIsKept
<1> DEFINE Foreign == \A n \in Names : MadeBy(n, "operator") /\ dir'[n] # dir[n] =>
          /\ dir'[n] = Absent
          /\ \E p \in Processes :
               /\ Unlinks(p, n) /\ pc'[p] # pc[p]
               /\ \/ slipped[p]
                  \/ dir[n].kind = "socket" /\ (pc[p] = "unlink" \/ contested[p])
<1>1. IInv /\ [Next]_vars => Foreign
  <2> SUFFICES ASSUME IInv, [Next]_vars, NEW n \in Names, MadeBy(n, "operator"),
                      dir'[n] # dir[n]
               PROVE  /\ dir'[n] = Absent
                      /\ \E p \in Processes :
                           /\ Unlinks(p, n) /\ pc'[p] # pc[p]
                           /\ \/ slipped[p]
                              \/ dir[n].kind = "socket" /\ (pc[p] = "unlink" \/ contested[p])
    OBVIOUS
  <2> USE DEF IInv
  <2>1. ~UNCHANGED vars
    BY DEF vars
  <2>2. CASE \E l \in Lanes, kind \in {"file", "socket"} : OperatorReplaces(l, kind)
    <3>1. PICK l \in Lanes, kind \in {"file", "socket"} : OperatorReplaces(l, kind)
      BY <2>2
    <3>2. dir' = [dir EXCEPT ![Target(l)] = Node(kind, NextInode, "operator")]
          /\ n # Target(l)
      BY <3>1, OperatorStep
    <3> QED BY <3>2 DEF Types
  <2>3. CASE \E p \in Processes : Begin(p) \/ Finish(p)
    <3>1. PICK p \in Processes : Begin(p) \/ Finish(p)
      BY <2>3
    <3>2. Vanishes(p, n)
      BY <3>1, DirStep DEF Appears, MadeBy
    <3>3. pc[p] # "publish"
      <4>1. pc[p] = "publish" => n = Temporary(p) /\ dir[n].by = p
        BY <3>2, NodeFields DEF Vanishes, KnowsItsOwn, Knows, Named
      <4> QED BY <4>1 DEF MadeBy
    <3>4. dir'[n] = Absent /\ Unlinks(p, n) /\ pc[p] \in {"unlink", "unlinking"}
      BY <3>2, <3>3 DEF Vanishes, Unlinks
    <3>5. pc'[p] # pc[p]
      <4>1. ~Start(p)
        BY <3>4, StartStep
      <4> QED BY <3>1, <3>4, <4>1, PcStep
    <3>6. CASE pc[p] = "unlink"
      <4>1. n = Target(lane[p])
        BY <3>2, <3>6 DEF Vanishes
      <4>2. slipped[p] \/ dir[n].kind = "socket"
        BY <3>6, <4>1, NodeTypes DEF OperatorsDiffer, OperatorDiffers, MadeBy
      <4> QED BY <3>4, <3>5, <3>6, <4>2
    <3>7. CASE pc[p] = "unlinking"
      <4>1. slipped[p] \/ (dir[n].kind = "socket" /\ contested[p])
        BY <3>2, <3>7 DEF Vanishes, OperatorsDiffer, OperatorDiffers, AllContested
      <4> QED BY <3>4, <3>5, <4>1
    <3> QED BY <3>4, <3>6, <3>7
  <2> QED BY <2>1, <2>2, <2>3 DEF Next
<1>2. Foreign => [Foreign]_dir
  OBVIOUS
<1> QED BY <1>1, <1>2, Invariant, PTL DEF Spec, ForeignIsKept
=============================================================================
