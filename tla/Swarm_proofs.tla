----------------------------- MODULE Swarm_proofs -----------------------------
(***************************************************************************)
(* What holds of the files that the agents of a team share, however many   *)
(* they are and however many of them die: the task list (TaskList) and an  *)
(* inbox (Mailbox).                                                        *)
(***************************************************************************)
EXTENDS TaskList, Mailbox, OrderLemmas

-------------------------------------------------------------------------------
(***************************************************************************)
(* The task list. The inductive invariant IInv: a create that is under way *)
(* has an id to give yet (Numbers); the files and the history of the ids   *)
(* (Files); and for every agent (Mine) where it is in its call (Where),    *)
(* the locks that it has there (Locked), and that what it has looked at or *)
(* read of a task still holds, as long as the id was not given twice       *)
(* (HoldsGood).                                                            *)
(***************************************************************************)

Spots == {"idle", "list", "files", "reset", "clear", "mark", "raise", "unlink", "cascade",
           "lock", "look", "check", "read", "put", "dead"}
KindNames == {"none", "create", "reset", "claim", "claimBusy", "update", "block",
              "unassign", "delete"}

Owners == Agents \cup {None}
Changes == [owner : Owners] \cup [done : BOOLEAN] \cup [owner : Owners, done : BOOLEAN]
           \cup [blocks : SUBSET Ids] \cup [blockedBy : SUBSET Ids]
           \cup [blocks : SUBSET Ids, blockedBy : SUBSET Ids]
UpdateRecs == [id : Ids, changes : Changes]
Readings == [files : Ids \cup {0, None}, mark : Ids \cup {0, None}]

Types ==
  /\ listLock \in Owners /\ taskLock \in [Ids -> Owners]
  /\ op \in [Agents -> [kind : KindNames, id : Ids \cup {0}]]
  /\ pc \in [Agents -> Spots]
  /\ todo \in [Agents -> Seq(UpdateRecs)]
  /\ got \in [Agents -> {None} \cup TaskRecords \cup Readings]
  /\ ops \in 0..MaxOps /\ crashes \in 0..MaxCrashes

\* The ids that can have been given so far: every create that is under way has
\* one to give yet.
Creating == {a \in Agents : op[a].kind = "create"}
Given == N + ops - Cardinality(Creating)

Numbers ==
  /\ IsFiniteSet(Creating) /\ Cardinality(Creating) <= ops
  /\ used \subseteq 1..Given /\ mark \in 0..Given
  /\ reused \subseteq used /\ deleted \subseteq used

Files ==
  /\ DOMAIN files \subseteq used /\ \A t \in DOMAIN files : files[t] \in TaskRecords
  /\ used \ deleted \subseteq DOMAIN files

Bounded(x) == x \in (0..Given) \cup {None}

\* Where an agent is, and what it has read and is about to do.
Where(a) ==
  /\ op[a].id \in used \cup {0}
  /\ \A i \in 1..Len(todo[a]) : todo[a][i].id \in used
  /\ pc[a] = "idle" => op[a].kind = "none"
  /\ op[a].kind = "create" => pc[a] \in {"list", "files", "dead"}
  /\ op[a].kind = "claim" => pc[a] \in {"lock", "look", "read", "put", "dead"}
  /\ pc[a] = "list" => op[a].kind \in {"create", "reset", "claimBusy"}
  /\ pc[a] = "files" => op[a].kind = "create" /\ got[a] \in Readings
                        /\ Bounded(got[a].files) /\ Bounded(got[a].mark)
  /\ pc[a] = "reset" => op[a].kind = "reset"
  /\ pc[a] = "clear" => op[a].kind = "reset" /\ got[a] \in Readings
                        /\ got[a].files \in 0..Given /\ got[a].mark \in 0..Given
  /\ pc[a] \in {"mark", "raise", "unlink", "cascade"} =>
       op[a].kind = "delete" /\ op[a].id \in used
  /\ pc[a] \in {"lock", "look", "check", "read", "put"} => todo[a] # << >>
  /\ pc[a] = "look" => op[a].kind \in {"claim", "claimBusy"}
  /\ op[a].kind \in {"claim", "claimBusy"} =>
       op[a].id \in used /\ todo[a] = <<Update(op[a].id, [owner |-> a])>>
  /\ pc[a] = "put" => got[a] \in TaskRecords

\* The locks it has.
Locked(a) ==
  /\ listLock = a => \/ pc[a] = "dead"
                     \/ op[a].kind \in {"create", "reset", "claimBusy"} /\ pc[a] # "idle"
  /\ pc[a] \in {"files", "reset", "clear"} => listLock = a
  /\ \A t \in Ids : taskLock[t] = a =>
       \/ pc[a] = "dead"
       \/ /\ pc[a] \in {"read", "put"} \/ (pc[a] = "look" /\ op[a].kind = "claim")
          /\ t = Head(todo[a]).id
  /\ \/ pc[a] \in {"read", "put"}
     \/ pc[a] = "look" /\ op[a].kind = "claim"
     => taskLock[Head(todo[a]).id] = a

\* What it has read holds good until it writes.
HoldsGood(a) ==
  /\ pc[a] = "files" /\ got[a].files # None =>
       \A t \in DOMAIN files \ deleted : t <= got[a].files
  /\ pc[a] = "put" => LET t == Head(todo[a]).id
                      IN  t \in DOMAIN files \ reused => files[t] = got[a]
  /\ op[a].kind = "claim" /\ pc[a] \in {"read", "put"} /\ op[a].id \in DOMAIN files =>
       files[op[a].id].owner \in {None, a} /\ ~files[op[a].id].done

Mine(a) == Where(a) /\ Locked(a) /\ HoldsGood(a)

IInv == Types /\ Numbers /\ Files /\ \A a \in Agents : Mine(a)
-------------------------------------------------------------------------------
(* The operators.                                                              *)

LEMMA IdsAreNumbers ==
  /\ N \in Nat /\ MaxOps \in Nat /\ Ids \subseteq Nat /\ IsFiniteSet(Ids)
  /\ None \notin Agents /\ None \notin Ids \cup {0}
<1>1. N \in Nat /\ MaxOps \in Nat /\ None \notin Agents \cup Ids \cup {0}
  BY TaskListAssumption
<1> QED BY <1>1, FS_Interval DEF Ids

LEMMA MaxIsGreatest ==
  ASSUME NEW n \in Nat, NEW S \in SUBSET (0..n), S # {}
  PROVE  Max(S) \in S /\ \A x \in S : x <= Max(S)
<1> DEFINE T == {n - x : x \in S}
<1>1. T \in SUBSET (0..n) /\ T # {} /\ T \subseteq Int
  <2>1. \A x \in S : x \in 0..n /\ n - x \in 0..n /\ n - x \in Int
    OBVIOUS
  <2> QED BY <2>1
<1>2. IsFiniteSet(0..n)
  BY FS_Interval
<1>3. PICK m \in T : \A y \in T : m <= y
  <2> HIDE DEF T
  <2> QED BY <1>1, <1>2, LeastExists
<1>4. PICK x \in S : m = n - x
  BY <1>3
<1>5. \A y \in S : x >= y
  <2> SUFFICES ASSUME NEW y \in S PROVE x >= y
    OBVIOUS
  <2>1. n - y \in T
    OBVIOUS
  <2>2. n - x <= n - y
    BY <2>1, <1>3, <1>4
  <2> QED BY <2>2
<1>6. \E z \in S : \A y \in S : z >= y
  BY <1>5
<1>7. Max(S) \in S /\ \A y \in S : Max(S) >= y
  BY <1>6 DEF Max
<1> QED BY <1>7

LEMMA SeqOfSet ==
  ASSUME NEW S, IsFiniteSet(S)
  PROVE  SetToSeq(S) \in Seq(S) /\ (S # {} => SetToSeq(S) # << >>)
<1>1. Cardinality(S) \in Nat /\ ExistsBijection(1..Cardinality(S), S)
  BY FS_CardinalityType
<1>2. \E f \in [1..Cardinality(S) -> S] : IsInjective(f)
  BY <1>1, Zenon DEF ExistsBijection, Bijection, Injection, Surjection, IsInjective
<1>3. SetToSeq(S) \in [1..Cardinality(S) -> S]
  BY <1>2 DEF SetToSeq
<1>4. SetToSeq(S) \in Seq(S) /\ Len(SetToSeq(S)) = Cardinality(S)
  BY <1>1, <1>3
<1>5. S # {} => Cardinality(S) # 0
  BY FS_EmptySet
<1> QED BY <1>4, <1>5, EmptySeq

LEMMA ImageIsFinite ==
  ASSUME NEW S, IsFiniteSet(S), NEW f, DOMAIN f = S, NEW T, T = {f[x] : x \in S}
  PROVE  IsFiniteSet(T)
<1>1. [x \in S |-> f[x]] \in Surjection(S, T)
  BY DEF Surjection
<1> QED BY <1>1, FS_Surjection

LEMMA ChangedRecord ==
  ASSUME NEW c \in Changes, NEW r \in TaskRecords
  PROVE  Changed(r, c) \in TaskRecords
<1>1. DOMAIN r = {"owner", "done", "blocks", "blockedBy"}
  BY DEF TaskRecords
<1>2. Changed(r, c) = [owner |-> Changed(r, c).owner, done |-> Changed(r, c).done,
                       blocks |-> Changed(r, c).blocks,
                       blockedBy |-> Changed(r, c).blockedBy]
  BY <1>1 DEF Changed
<1>3. /\ Changed(r, c).owner \in Owners /\ Changed(r, c).done \in BOOLEAN
      /\ Changed(r, c).blocks \in SUBSET Ids /\ Changed(r, c).blockedBy \in SUBSET Ids
  <2>1. CASE c \in [owner : Owners]
    BY <2>1, <1>1 DEF TaskRecords, Owners, Changed
  <2>2. CASE c \in [done : BOOLEAN]
    BY <2>2, <1>1 DEF TaskRecords, Owners, Changed
  <2>3. CASE c \in [owner : Owners, done : BOOLEAN]
    BY <2>3, <1>1 DEF TaskRecords, Owners, Changed
  <2>4. CASE c \in [blocks : SUBSET Ids]
    BY <2>4, <1>1 DEF TaskRecords, Owners, Changed
  <2>5. CASE c \in [blockedBy : SUBSET Ids]
    BY <2>5, <1>1 DEF TaskRecords, Owners, Changed
  <2>6. CASE c \in [blocks : SUBSET Ids, blockedBy : SUBSET Ids]
    BY <2>6, <1>1 DEF TaskRecords, Owners, Changed
  <2> QED BY <2>1, <2>2, <2>3, <2>4, <2>5, <2>6 DEF Changes
<1> QED BY <1>2, <1>3 DEF TaskRecords, Owners

LEMMA GivenIsId ==
  ASSUME Types, Numbers
  PROVE  /\ Given \in 0..(N + MaxOps) /\ used \subseteq Ids /\ ops \in Nat
         /\ Cardinality(Creating) \in Nat
<1>1. Cardinality(Creating) \in Nat /\ ops \in 0..MaxOps
  BY FS_CardinalityType DEF Numbers, Types
<1>2. Given \in 0..(N + MaxOps)
  BY <1>1, IdsAreNumbers DEF Given, Numbers
<1> QED BY <1>1, <1>2, IdsAreNumbers DEF Ids, Numbers
-------------------------------------------------------------------------------
(* What a step of one agent leaves to the others.                              *)

Quiet(a) ==
  \A b \in Agents \ {a} :
    /\ pc'[b] = pc[b] /\ op'[b] = op[b] /\ todo'[b] = todo[b] /\ got'[b] = got[b]
    /\ listLock' = b <=> listLock = b
    /\ \A t \in Ids : taskLock'[t] = b <=> taskLock[t] = b

\* The files change for b only as HoldsGood(b) allows.
KeptFor(b) ==
  /\ pc[b] = "files" => DOMAIN files' \ deleted' \subseteq DOMAIN files \ deleted
  /\ \A t \in DOMAIN files' :
       pc[b] \in {"read", "put"} /\ t = Head(todo[b]).id /\ taskLock[t] = b =>
       \/ t \in DOMAIN files /\ files'[t] = files[t]
       \/ files'[t] = Fresh /\ t \in reused'

LEMMA OthersKeep ==
  ASSUME Types, Types', Numbers, Numbers', Files, Files', NEW a \in Agents, NEW b \in Agents \ {a},
         Mine(b), Quiet(a), KeptFor(b), used \subseteq used', reused \subseteq reused',
         Given <= Given'
  PROVE  Mine(b)'
<1>1. /\ pc'[b] = pc[b] /\ op'[b] = op[b] /\ todo'[b] = todo[b] /\ got'[b] = got[b]
      /\ listLock' = b <=> listLock = b
      /\ \A t \in Ids : taskLock'[t] = b <=> taskLock[t] = b
  BY DEF Quiet
<1>2. Given \in Nat /\ Given' \in Nat /\ used \subseteq Ids /\ used' \subseteq Ids
  <2>1. IsFiniteSet(Creating') /\ Cardinality(Creating') <= ops' /\ ops' \in 0..MaxOps
    BY DEF Numbers, Types
  <2>2. Cardinality(Creating') \in Nat
    BY <2>1, FS_CardinalityType
  <2>3. Given' \in 0..(N + MaxOps)
    BY <2>1, <2>2, IdsAreNumbers DEF Given
  <2> QED BY <2>3, GivenIsId, IdsAreNumbers DEF Ids, Numbers
<1>3. \A x : Bounded(x) => Bounded(x)'
  BY <1>2 DEF Bounded
<1>4. Where(b)'
  BY <1>1, <1>2, <1>3 DEF Mine, Where
<1>5. pc[b] \in {"look", "read", "put"} => todo[b] # << >> /\ Head(todo[b]).id \in Ids
  <2> SUFFICES ASSUME pc[b] \in {"look", "read", "put"} PROVE todo[b] # << >> /\ Head(todo[b]).id \in Ids
    OBVIOUS
  <2>1. todo[b] # << >> /\ todo[b] \in Seq(UpdateRecs)
    BY DEF Mine, Where, Types
  <2>2. Head(todo[b]) \in UpdateRecs
    BY <2>1
  <2> QED BY <2>1, <2>2 DEF UpdateRecs
<1>6. Locked(b)'
  BY <1>1, <1>5 DEF Mine, Locked
<1>7. HoldsGood(b)'
  <2>1. (pc[b] = "files" /\ got[b].files # None =>
           \A t \in DOMAIN files \ deleted : t <= got[b].files)'
    BY <1>1 DEF Mine, HoldsGood, KeptFor
  <2>2. (pc[b] = "put" => LET t == Head(todo[b]).id
                          IN  t \in DOMAIN files \ reused => files[t] = got[b])'
    <3> SUFFICES ASSUME pc[b] = "put", Head(todo[b]).id \in DOMAIN files',
                        Head(todo[b]).id \notin reused'
                 PROVE  files'[Head(todo[b]).id] = got[b]
      BY <1>1
    <3>1. taskLock[Head(todo[b]).id] = b /\ Head(todo[b]).id \in Ids
      BY <1>5 DEF Mine, Locked
    <3> QED BY <3>1 DEF KeptFor, Mine, HoldsGood
  <2>3. (op[b].kind = "claim" /\ pc[b] \in {"read", "put"} /\ op[b].id \in DOMAIN files =>
           files[op[b].id].owner \in {None, b} /\ ~files[op[b].id].done)'
    <3> SUFFICES ASSUME op[b].kind = "claim", pc[b] \in {"read", "put"}, op[b].id \in DOMAIN files'
                 PROVE  files'[op[b].id].owner \in {None, b} /\ ~files'[op[b].id].done
      BY <1>1
    <3>1. Head(todo[b]).id = op[b].id
      BY DEF Mine, Where, Update
    <3>2. taskLock[op[b].id] = b /\ op[b].id \in Ids
      BY <3>1, <1>5 DEF Mine, Locked
    <3> QED BY <3>1, <3>2 DEF KeptFor, Mine, HoldsGood, Fresh
  <2> QED BY <2>1, <2>2, <2>3 DEF HoldsGood
<1> QED BY <1>4, <1>6, <1>7 DEF Mine

\* The end of a call, whatever it did to the files before.
LEMMA EndsIs ==
  ASSUME Types, NEW a \in Agents, Locked(a), Ends(a)
  PROVE  /\ pc' = [pc EXCEPT ![a] = "idle"] /\ pc' \in [Agents -> Spots]
         /\ op' \in [Agents -> [kind : KindNames, id : Ids \cup {0}]]
         /\ todo' \in [Agents -> Seq(UpdateRecs)]
         /\ got' \in [Agents -> {None} \cup TaskRecords \cup Readings]
         /\ listLock' \in Owners /\ taskLock' \in [Ids -> Owners]
         /\ op'[a] = [kind |-> "none", id |-> 0] /\ todo'[a] = << >>
         /\ Quiet(a) /\ Where(a)' /\ Locked(a)' /\ HoldsGood(a)'
         /\ Creating' = Creating \ {a}
<1>1. /\ pc' = [pc EXCEPT ![a] = "idle"] /\ pc'[a] = "idle" /\ pc' \in [Agents -> Spots]
      /\ op' = [op EXCEPT ![a] = [kind |-> "none", id |-> 0]]
      /\ op' \in [Agents -> [kind : KindNames, id : Ids \cup {0}]]
      /\ todo' = [todo EXCEPT ![a] = << >>]
      /\ got' = [got EXCEPT ![a] = None]
      /\ op'[a] = [kind |-> "none", id |-> 0] /\ todo'[a] = << >>
  BY DEF Ends, Types, Spots, KindNames
<1>2. /\ todo' \in [Agents -> Seq(UpdateRecs)]
      /\ got' \in [Agents -> {None} \cup TaskRecords \cup Readings]
  BY <1>1 DEF Types
<1>3. /\ listLock' \in Owners /\ taskLock' \in [Ids -> Owners]
      /\ listLock' # a /\ \A t \in Ids : taskLock'[t] # a
  BY IdsAreNumbers DEF Ends, Types, Owners
<1>4. Quiet(a)
  BY <1>1, IdsAreNumbers DEF Quiet, Ends, Types
<1>5. Where(a)' /\ Locked(a)' /\ HoldsGood(a)'
  BY <1>1, <1>3 DEF Where, Locked, HoldsGood
<1>6. Creating' = Creating \ {a}
  BY <1>1 DEF Creating, Types
<1> QED BY <1>1, <1>2, <1>3, <1>4, <1>5, <1>6

\* A step from one place to the next, without a lock taken or released.
LEMMA GoesIs ==
  ASSUME Types, NEW a \in Agents, NEW place \in Spots, Goes(a, place),
         \A b \in Agents \ {a} : todo'[b] = todo[b] /\ got'[b] = got[b]
  PROVE  /\ pc'[a] = place /\ pc' \in [Agents -> Spots]
         /\ Quiet(a) /\ Creating' = Creating
         /\ UNCHANGED <<op, listLock, taskLock>>
BY DEF Goes, Types, Quiet, Creating, locks

\* The numbers when the creates under way stay, or one of them is over.
LEMMA GivenGrows ==
  ASSUME Types, Numbers, NEW a, ops' = ops, Creating' \in {Creating, Creating \ {a}}
  PROVE  /\ Given' \in Nat /\ Given <= Given' /\ IsFiniteSet(Creating')
         /\ Cardinality(Creating') <= ops
         /\ a \in Creating /\ Creating' = Creating \ {a} => Given' = Given + 1
<1>1. /\ Cardinality(Creating) \in Nat /\ IsFiniteSet(Creating) /\ ops \in Nat /\ N \in Nat
      /\ Cardinality(Creating) <= ops
  BY GivenIsId, IdsAreNumbers DEF Numbers
<1>2. CASE Creating' = Creating
  <2>1. a \in Creating => Creating # Creating \ {a}
    OBVIOUS
  <2> QED BY <1>1, <1>2, <2>1 DEF Given
<1>3. CASE Creating' = Creating \ {a}
  <2>1. /\ IsFiniteSet(Creating')
        /\ Cardinality(Creating') = IF a \in Creating THEN Cardinality(Creating) - 1
                                    ELSE Cardinality(Creating)
    BY <1>1, <1>3, FS_RemoveElement
  <2>2. Cardinality(Creating') \in Nat
    BY <2>1, FS_CardinalityType
  <2> QED BY <1>1, <2>1, <2>2 DEF Given
<1> QED BY <1>2, <1>3
-------------------------------------------------------------------------------
(* The steps.  Most leave the files alone.                                     *)

LEMMA Conclude ==
  ASSUME IInv, NEW a \in Agents, Types', Numbers', Files', Quiet(a), Mine(a)',
         used \subseteq used', reused \subseteq reused', Given <= Given',
         \A b \in Agents \ {a} : KeptFor(b)
  PROVE  IInv'
<1>1. ASSUME NEW b \in Agents \ {a} PROVE Mine(b)'
  BY OthersKeep DEF IInv
<1> QED BY <1>1 DEF IInv

LEMMA Private ==
  ASSUME IInv, NEW a \in Agents, Types', Quiet(a), Mine(a)',
         UNCHANGED <<files, used, reused, deleted>>, mark' \in 0..Given, ops' = ops,
         Creating' \in {Creating, Creating \ {a}}
  PROVE  IInv'
<1>1. Given' \in Nat /\ Given <= Given' /\ IsFiniteSet(Creating') /\ Cardinality(Creating') <= ops
  BY GivenGrows DEF IInv
<1>2. Given \in Nat
  BY GivenIsId, IdsAreNumbers DEF IInv
<1>3. Numbers'
  BY <1>1, <1>2 DEF IInv, Numbers
<1>4. Files'
  BY DEF IInv, Files
<1>5. \A b \in Agents \ {a} : KeptFor(b)
  BY DEF KeptFor
<1> QED BY <1>1, <1>3, <1>4, <1>5, Conclude

\* What an agent may rely on about where it is.
LEMMA Own ==
  ASSUME IInv, NEW a \in Agents
  PROVE  /\ Types /\ Numbers /\ Files /\ Mine(a) /\ Where(a) /\ Locked(a) /\ HoldsGood(a)
         /\ Given \in 0..(N + MaxOps) /\ used \subseteq Ids /\ mark \in 0..Given
         /\ pc[a] \in Spots /\ op[a] \in [kind : KindNames, id : Ids \cup {0}]
         /\ todo[a] \in Seq(UpdateRecs)
BY GivenIsId DEF IInv, Mine, Numbers, Types

LEMMA NextUpdate ==
  ASSUME IInv, NEW a \in Agents, todo[a] # << >>
  PROVE  /\ Head(todo[a]) \in UpdateRecs /\ Head(todo[a]).id \in used
         /\ Head(todo[a]).id \in Ids /\ Head(todo[a]).changes \in Changes
         /\ Tail(todo[a]) \in Seq(UpdateRecs)
         /\ \A i \in 1..Len(Tail(todo[a])) : Tail(todo[a])[i].id \in used
<1>1. todo[a] \in Seq(UpdateRecs) /\ \A i \in 1..Len(todo[a]) : todo[a][i].id \in used
  BY Own DEF Where
<1>2. Head(todo[a]) = todo[a][1] /\ 1 \in 1..Len(todo[a])
  BY <1>1
<1>3. Head(todo[a]) \in UpdateRecs /\ Tail(todo[a]) \in Seq(UpdateRecs)
  BY <1>1
<1>4. \A i \in 1..Len(Tail(todo[a])) : Tail(todo[a])[i] = todo[a][i + 1] /\ i + 1 \in 1..Len(todo[a])
  BY <1>1
<1> QED BY <1>1, <1>2, <1>3, <1>4 DEF UpdateRecs

\* A call that ends without having touched the files.
LEMMA EndsStep ==
  ASSUME IInv, NEW a \in Agents, Ends(a), UNCHANGED <<fileVars, ops, crashes>>
  PROVE  IInv'
<1>1. Types'
  BY Own, EndsIs DEF Types
<1>2. Quiet(a) /\ Mine(a)' /\ Creating' = Creating \ {a}
  BY Own, EndsIs DEF Mine
<1> QED BY <1>1, <1>2, Own, Private DEF fileVars, history

LEMMA UpdatesStep ==
  ASSUME IInv, NEW a \in Agents, NEW us \in Seq(UpdateRecs), Updates(a, us),
         \A i \in 1..Len(us) : us[i].id \in used,
         pc[a] \in {"cascade", "check"}, us # << >> => op[a].kind # "claimBusy",
         UNCHANGED <<fileVars, ops, crashes>>
  PROVE  IInv'
<1>1. CASE us = << >>
  BY <1>1, EndsStep DEF Updates
<1>2. CASE us # << >>
  <2>1. /\ todo' = [todo EXCEPT ![a] = us] /\ Goes(a, "check") /\ got' = got
        /\ todo'[a] = us /\ todo' \in [Agents -> Seq(UpdateRecs)]
        /\ \A b \in Agents \ {a} : todo'[b] = todo[b] /\ got'[b] = got[b]
    BY <1>2, Own DEF Updates, Types
  <2>2. /\ pc'[a] = "check" /\ pc' \in [Agents -> Spots] /\ Quiet(a) /\ Creating' = Creating
        /\ UNCHANGED <<op, listLock, taskLock>>
    BY <2>1, Own, GoesIs DEF Spots
  <2>3. Types'
    BY <2>1, <2>2, Own DEF Types
  <2>4. op[a].kind \notin {"create", "claim", "claimBusy"}
    BY <1>2, Own DEF Where
  <2>5. Where(a)'
    BY <1>2, <2>1, <2>2, <2>4, Own DEF Where, fileVars, history
  <2>6. Locked(a)' /\ HoldsGood(a)'
    BY <2>2, <2>4, Own DEF Locked, HoldsGood
  <2> QED BY <2>2, <2>3, <2>5, <2>6, Own, Private DEF Mine, fileVars, history
<1> QED BY <1>1, <1>2

-------------------------------------------------------------------------------
\* One update is over: the step that the task's lock, if any, is left with.
LEMMA ContinueIs ==
  ASSUME IInv, NEW a \in Agents, pc[a] \in {"read", "put"}, Continue(a),
         UNCHANGED <<history, ops, crashes>>
  PROVE  /\ Types' /\ Quiet(a) /\ Where(a)' /\ Locked(a)' /\ HoldsGood(a)'
         /\ Creating' \in {Creating, Creating \ {a}}
<1>0. Where(a) /\ Locked(a) /\ Types /\ todo[a] # << >> /\ todo[a] \in Seq(UpdateRecs)
  BY Own DEF Where
<1> DEFINE t == Head(todo[a]).id
<1>1. CASE Len(todo[a]) = 1
  <2>1. Ends(a)
    BY <1>1 DEF Continue
  <2> QED BY <2>1, <1>0, EndsIs DEF Types
<1>2. CASE Len(todo[a]) # 1
  <2>1. /\ taskLock' = [taskLock EXCEPT ![t] = None] /\ todo' = [todo EXCEPT ![a] = Tail(@)]
        /\ pc' = [pc EXCEPT ![a] = "check"] /\ UNCHANGED <<listLock, op, got>>
    BY <1>2 DEF Continue
  <2>2. t \in Ids /\ taskLock[t] = a /\ Tail(todo[a]) \in Seq(UpdateRecs)
    BY <1>0, NextUpdate DEF Locked
  <2>3. Tail(todo[a]) # << >>
    <3>1. Len(todo[a]) \in Nat \ {0}
      BY <1>0, EmptySeq
    <3>2. Len(Tail(todo[a])) = Len(todo[a]) - 1
      BY <1>0, <3>1
    <3>3. Len(Tail(todo[a])) # 0
      BY <3>1, <3>2, <1>2
    <3>4. Len(<<>>) = 0
      OBVIOUS
    <3> QED BY <3>3, <3>4, Zenon
  <2>4. /\ todo'[a] = Tail(todo[a]) /\ pc'[a] = "check" /\ op'[a] = op[a]
        /\ todo' \in [Agents -> Seq(UpdateRecs)] /\ pc' \in [Agents -> Spots]
        /\ taskLock' \in [Ids -> Owners]
        /\ \A u \in Ids : taskLock'[u] = IF u = t THEN None ELSE taskLock[u]
    BY <1>0, <2>1, <2>2 DEF Types, Spots, Owners
  <2>5. Types'
    BY <1>0, <2>1, <2>4 DEF Types
  <2>6. Quiet(a)
    BY <2>1, <2>2, <2>4, <1>0, IdsAreNumbers DEF Quiet, Types
  <2>7. op[a].kind \notin {"create", "claim", "claimBusy"}
    <3>1. \A u : Len(<<u>>) = 1
      OBVIOUS
    <3>2. op[a].kind \in {"claim", "claimBusy"} => Len(todo[a]) = 1
      BY <3>1, <1>0, Zenon DEF Where
    <3> QED BY <3>2, <1>0, <1>2 DEF Where
  <2>8. \A i \in 1..Len(todo'[a]) : todo'[a][i].id \in used
    BY <2>4, <1>0, NextUpdate
  <2>9. Where(a)'
    BY <2>1, <2>3, <2>4, <2>7, <2>8, <1>0 DEF Where, history
  <2>10. \A u \in Ids : taskLock'[u] # a
    BY <2>4, <1>0, IdsAreNumbers DEF Locked
  <2>11. Locked(a)' /\ HoldsGood(a)'
    BY <2>1, <2>4, <2>7, <2>10, <1>0 DEF Locked, HoldsGood
  <2> QED BY <2>1, <2>5, <2>6, <2>9, <2>11 DEF Creating
<1> QED BY <1>1, <1>2
-------------------------------------------------------------------------------
(* The calls.                                                                  *)

\* What each call does: it puts its agent at the start of its operation.
LEMMA CallStep ==
  ASSUME IInv, NEW a \in Agents, NEW kind \in KindNames \ {"none"}, NEW t \in used \cup {0},
         NEW place \in Spots, Calls(a, kind, t), pc' = [pc EXCEPT ![a] = place],
         todo' \in [Agents -> Seq(UpdateRecs)],
         \A b \in Agents \ {a} : todo'[b] = todo[b],
         \A i \in 1..Len(todo'[a]) : todo'[a][i].id \in used,
         \/ kind \in {"create", "reset"} /\ place = "list"
         \/ kind = "claim" /\ place = "lock" /\ t \in used /\ todo'[a] = <<Update(t, [owner |-> a])>>
         \/ kind = "claimBusy" /\ place = "list" /\ t \in used
            /\ todo'[a] = <<Update(t, [owner |-> a])>>
         \/ kind = "update" /\ place = "lock" /\ todo'[a] # << >>
         \/ kind \in {"block", "unassign"} /\ place = "check" /\ todo'[a] # << >>
         \/ kind = "delete" /\ place = "mark" /\ t \in used
  PROVE  IInv'
<1>0. Where(a) /\ Locked(a) /\ Types /\ Numbers /\ used \subseteq Ids
  BY Own
<1>1. /\ pc[a] = "idle" /\ op[a].kind = "none" /\ ops < MaxOps /\ ops' = ops + 1
      /\ op' = [op EXCEPT ![a] = [kind |-> kind, id |-> t]]
      /\ UNCHANGED <<files, mark, used, reused, deleted, listLock, taskLock, got, crashes>>
  BY <1>0 DEF Calls, Where, fileVars, history, locks
<1>2. /\ pc'[a] = place /\ pc' \in [Agents -> Spots]
      /\ op' \in [Agents -> [kind : KindNames, id : Ids \cup {0}]]
      /\ op'[a].kind = kind /\ op'[a].id = t
      /\ ops' \in 0..MaxOps
  BY <1>0, <1>1, IdsAreNumbers DEF Types
<1>3. Types'
  BY <1>0, <1>1, <1>2 DEF Types
<1>4. Quiet(a)
  BY <1>0, <1>1 DEF Quiet, Types
<1>5. /\ IsFiniteSet(Creating') /\ Cardinality(Creating') <= ops' /\ Given <= Given'
      /\ Given \in Nat /\ Given' \in Nat
  <2>1. a \notin Creating
    BY <1>1 DEF Creating
  <2>2. Creating' = IF kind = "create" THEN Creating \cup {a} ELSE Creating
    BY <1>0, <1>1, <2>1 DEF Creating, Types
  <2>3. /\ IsFiniteSet(Creating) /\ Cardinality(Creating) \in Nat /\ ops \in Nat /\ N \in Nat
        /\ Cardinality(Creating) <= ops
    BY <1>0, GivenIsId, IdsAreNumbers DEF Numbers
  <2>4. IsFiniteSet(Creating') /\ Cardinality(Creating') \in {Cardinality(Creating), Cardinality(Creating) + 1}
    BY <2>1, <2>2, <2>3, FS_AddElement
  <2> QED BY <2>3, <2>4, <1>1 DEF Given
<1>6. Numbers' /\ Files'
  <2>1. used \subseteq 1..Given /\ mark \in 0..Given /\ reused \subseteq used /\ deleted \subseteq used
    BY <1>0 DEF Numbers
  <2>2. used \subseteq 1..Given' /\ mark \in 0..Given'
    BY <2>1, <1>5
  <2>3. Numbers'
    BY <1>1, <1>5, <2>1, <2>2 DEF Numbers
  <2> QED BY <2>3, <1>1, Own DEF Files
<1>7. Where(a)'
  <2>1. /\ op[a].kind = "none" /\ pc'[a] = place /\ op'[a].kind = kind /\ op'[a].id = t
        /\ t \in used \cup {0} /\ used' = used /\ \A i \in 1..Len(todo'[a]) : todo'[a][i].id \in used
    BY <1>1, <1>2
  <2>2. \A u : <<u>> # << >>
    OBVIOUS
  <2>3. CASE kind \in {"create", "reset"} /\ place = "list"
    BY <2>1, <2>3 DEF Where
  <2>4. CASE kind = "claim" /\ place = "lock" /\ t \in used /\ todo'[a] = <<Update(t, [owner |-> a])>>
    BY <2>1, <2>2, <2>4 DEF Where
  <2>5. CASE kind = "claimBusy" /\ place = "list" /\ t \in used
             /\ todo'[a] = <<Update(t, [owner |-> a])>>
    BY <2>1, <2>2, <2>5 DEF Where
  <2>6. CASE kind = "update" /\ place = "lock" /\ todo'[a] # << >>
    BY <2>1, <2>6 DEF Where
  <2>7. CASE kind \in {"block", "unassign"} /\ place = "check" /\ todo'[a] # << >>
    BY <2>1, <2>7 DEF Where
  <2>8. CASE kind = "delete" /\ place = "mark" /\ t \in used
    BY <2>1, <2>8 DEF Where
  <2> QED BY <2>3, <2>4, <2>5, <2>6, <2>7, <2>8
<1>8. Locked(a)' /\ HoldsGood(a)'
  BY <1>0, <1>1, <1>2 DEF Locked, HoldsGood
<1>9. \A b \in Agents \ {a} : KeptFor(b)
  BY <1>1 DEF KeptFor
<1> QED BY <1>1, <1>3, <1>4, <1>5, <1>6, <1>7, <1>8, <1>9, Conclude DEF Mine

LEMMA OneUpdate ==
  ASSUME IInv, NEW a \in Agents, NEW t \in used, NEW c \in Changes,
         todo' = [todo EXCEPT ![a] = <<Update(t, c)>>]
  PROVE  /\ todo' \in [Agents -> Seq(UpdateRecs)] /\ \A b \in Agents \ {a} : todo'[b] = todo[b]
         /\ todo'[a] = <<Update(t, c)>> /\ todo'[a] # << >>
         /\ \A i \in 1..Len(todo'[a]) : todo'[a][i].id \in used
<1>1. todo \in [Agents -> Seq(UpdateRecs)] /\ t \in Ids
  BY Own DEF Types
<1>2. Update(t, c) \in UpdateRecs /\ Update(t, c).id = t
  BY <1>1 DEF Update, UpdateRecs
<1>3. <<Update(t, c)>> \in Seq(UpdateRecs)
  BY <1>2
<1>4. todo'[a] = <<Update(t, c)>> /\ todo' \in [Agents -> Seq(UpdateRecs)]
  BY <1>1, <1>3
<1>5. /\ <<Update(t, c)>> # << >>
      /\ \A i \in 1..Len(<<Update(t, c)>>) : <<Update(t, c)>>[i].id \in used
  BY <1>2
<1> QED BY <1>1, <1>4, <1>5

LEMMA CallsKeep ==
  ASSUME IInv, NEW a \in Agents, Call(a)
  PROVE  IInv'
<1>0. /\ todo \in [Agents -> Seq(UpdateRecs)] /\ DOMAIN files \subseteq used /\ used \subseteq Ids
      /\ \A i \in 1..Len(todo[a]) : todo[a][i].id \in used
      /\ \A t \in DOMAIN files : files[t] \in TaskRecords
  BY Own DEF Types, Where, Files
<1>1. CASE CallCreate(a)
  BY <1>0, <1>1, CallStep DEF CallCreate, KindNames, Spots
<1>2. CASE CallReset(a)
  BY <1>0, <1>2, CallStep DEF CallReset, KindNames, Spots
<1>3. ASSUME NEW t \in Ids, CallClaim(a, t) PROVE IInv'
  <2>1. t \in used /\ [owner |-> a] \in Changes
    BY <1>0, <1>3 DEF CallClaim, Changes, Owners
  <2>2. todo' = [todo EXCEPT ![a] = <<Update(t, [owner |-> a])>>]
    BY <1>3 DEF CallClaim
  <2>3. /\ todo' \in [Agents -> Seq(UpdateRecs)] /\ \A b \in Agents \ {a} : todo'[b] = todo[b]
        /\ todo'[a] = <<Update(t, [owner |-> a])>>
        /\ \A i \in 1..Len(todo'[a]) : todo'[a][i].id \in used
    BY <2>1, <2>2, OneUpdate
  <2>4. CASE Calls(a, "claim", t) /\ pc' = [pc EXCEPT ![a] = "lock"]
    BY <2>1, <2>3, <2>4, CallStep DEF KindNames, Spots
  <2>5. CASE Calls(a, "claimBusy", t) /\ pc' = [pc EXCEPT ![a] = "list"]
    BY <2>1, <2>3, <2>5, CallStep DEF KindNames, Spots
  <2> QED BY <1>3, <2>4, <2>5 DEF CallClaim
<1>4. ASSUME NEW t \in Ids, CallUpdate(a, t) PROVE IInv'
  <2>1. PICK c \in Changes : todo' = [todo EXCEPT ![a] = <<Update(t, c)>>]
    <3>1. [done |-> TRUE] \in Changes /\ \A b \in Agents : [owner |-> b] \in Changes
      BY DEF Changes, Owners
    <3> QED BY <1>4, <3>1 DEF CallUpdate
  <2>2. t \in used
    BY <1>0, <1>4 DEF CallUpdate
  <2>3. /\ todo' \in [Agents -> Seq(UpdateRecs)] /\ \A b \in Agents \ {a} : todo'[b] = todo[b]
        /\ todo'[a] # << >> /\ \A i \in 1..Len(todo'[a]) : todo'[a][i].id \in used
    BY <2>1, <2>2, OneUpdate
  <2> QED BY <2>2, <2>3, <1>4, CallStep DEF CallUpdate, KindNames, Spots
<1>5. ASSUME NEW t \in Ids, CallDelete(a, t) PROVE IInv'
  BY <1>0, <1>5, CallStep DEF CallDelete, KindNames, Spots
<1>6. ASSUME NEW t \in Ids, NEW u \in Ids, CallBlock(a, t, u) PROVE IInv'
  <2> DEFINE first == IF u \in files[t].blocks THEN << >>
                      ELSE <<Update(t, [blocks |-> files[t].blocks \cup {u}])>>
             second == IF t \in files[u].blockedBy THEN << >>
                       ELSE <<Update(u, [blockedBy |-> files[u].blockedBy \cup {t}])>>
  <2>1. {t, u} \subseteq DOMAIN files /\ {t, u} \subseteq used
    BY <1>0, <1>6 DEF CallBlock
  <2>2. /\ Update(t, [blocks |-> files[t].blocks \cup {u}]) \in UpdateRecs
        /\ Update(u, [blockedBy |-> files[u].blockedBy \cup {t}]) \in UpdateRecs
    BY <1>0, <2>1 DEF Update, UpdateRecs, Changes, TaskRecords
  <2>3. todo' = [todo EXCEPT ![a] = first \o second]
    BY <1>6 DEF CallBlock
  <2>4. /\ first \in Seq(UpdateRecs) /\ \A i \in 1..Len(first) : first[i].id = t
        /\ second \in Seq(UpdateRecs) /\ \A i \in 1..Len(second) : second[i].id = u
    BY <2>2 DEF Update
  <2>5. first # << >> \/ second # << >>
    BY <1>6 DEF CallBlock
  <2> HIDE DEF first, second
  <2>6. /\ first \o second \in Seq(UpdateRecs) /\ first \o second # << >>
        /\ \A i \in 1..Len(first \o second) : (first \o second)[i].id \in used
    BY <2>1, <2>4, <2>5
  <2>7. /\ todo' \in [Agents -> Seq(UpdateRecs)] /\ \A b \in Agents \ {a} : todo'[b] = todo[b]
        /\ todo'[a] # << >> /\ \A i \in 1..Len(todo'[a]) : todo'[a][i].id \in used
    BY <1>0, <2>3, <2>6
  <2> QED BY <2>1, <2>7, <1>6, CallStep DEF CallBlock, KindNames, Spots
<1>7. ASSUME NEW b \in Agents, CallUnassign(a, b) PROVE IInv'
  <2> DEFINE owned == {t \in DOMAIN files : files[t].owner = b /\ ~files[t].done}
             us == {Update(t, [owner |-> None, done |-> FALSE]) : t \in owned}
  <2>1. /\ owned # {} /\ Calls(a, "unassign", 0) /\ pc' = [pc EXCEPT ![a] = "check"]
        /\ todo' = [todo EXCEPT ![a] = SetToSeq(us)]
    BY <1>7 DEF CallUnassign
  <2>2. us # {} /\ \A u \in us : u \in UpdateRecs /\ u.id \in used
    <3>1. [owner |-> None, done |-> FALSE] \in Changes
      BY DEF Changes, Owners
    <3>2. \A t \in owned : /\ Update(t, [owner |-> None, done |-> FALSE]) \in UpdateRecs
                            /\ Update(t, [owner |-> None, done |-> FALSE]).id = t
      BY <1>0, <3>1 DEF Update, UpdateRecs
    <3> HIDE DEF owned
    <3>3. us # {}
      BY <2>1
    <3>4. owned \subseteq used
      BY <1>0 DEF owned
    <3> QED BY <3>2, <3>3, <3>4
  <2>3. IsFiniteSet(us)
    <3> DEFINE f == [t \in owned |-> Update(t, [owner |-> None, done |-> FALSE])]
    <3>1. owned \subseteq Ids
      BY <1>0
    <3>2. IsFiniteSet(owned)
      BY <3>1, IdsAreNumbers, FS_Subset
    <3>3. us = {f[t] : t \in owned} /\ DOMAIN f = owned
      OBVIOUS
    <3> HIDE DEF f, us, owned
    <3> QED BY <3>2, <3>3, ImageIsFinite
  <2> HIDE DEF us, owned
  <2>4. SetToSeq(us) \in Seq(us) /\ SetToSeq(us) # << >>
    BY <2>2, <2>3, SeqOfSet
  <2>5. /\ SetToSeq(us) \in Seq(UpdateRecs)
        /\ \A i \in 1..Len(SetToSeq(us)) : SetToSeq(us)[i].id \in used
    BY <2>2, <2>4
  <2>6. /\ todo' \in [Agents -> Seq(UpdateRecs)] /\ \A c \in Agents \ {a} : todo'[c] = todo[c]
        /\ todo'[a] # << >> /\ \A i \in 1..Len(todo'[a]) : todo'[a][i].id \in used
    BY <1>0, <2>1, <2>4, <2>5
  <2> QED BY <2>1, <2>6, CallStep DEF KindNames, Spots
<1> QED BY <1>1, <1>2, <1>3, <1>4, <1>5, <1>6, <1>7 DEF Call
-------------------------------------------------------------------------------
(* The locks.                                                                  *)

LEMMA LockListKeeps ==
  ASSUME IInv, NEW a \in Agents, LockList(a)
  PROVE  IInv'
<1>0. Where(a) /\ Locked(a) /\ Types /\ Numbers
  BY Own
<1>1. /\ pc[a] = "list" /\ listLock = None /\ listLock' = a
      /\ op[a].kind \in {"create", "reset", "claimBusy"}
      /\ UNCHANGED <<files, mark, used, reused, deleted, taskLock, op, todo, ops, crashes>>
  BY <1>0 DEF LockList, Where, fileVars, history
<1> DEFINE place == CASE op[a].kind = "create" -> "files"
                      [] op[a].kind = "reset"  -> "reset"
                      [] OTHER                 -> "look"
<1>2. /\ pc' = [pc EXCEPT ![a] = place] /\ got' = [got EXCEPT ![a] = [files |-> None, mark |-> None]]
      /\ \/ op[a].kind = "create" /\ place = "files"
         \/ op[a].kind = "reset" /\ place = "reset"
         \/ op[a].kind = "claimBusy" /\ place = "look"
  BY <1>1 DEF LockList
<1> HIDE DEF place
<1>3. /\ pc'[a] = place /\ pc' \in [Agents -> Spots]
      /\ [files |-> None, mark |-> None] \in Readings /\ got'[a] = [files |-> None, mark |-> None]
      /\ got' \in [Agents -> {None} \cup TaskRecords \cup Readings]
  BY <1>0, <1>2 DEF Types, Spots, Readings
<1>4. Types'
  BY <1>0, <1>1, <1>3 DEF Types, Owners
<1>5. Quiet(a)
  BY <1>0, <1>1, <1>2, IdsAreNumbers DEF Quiet, Types
<1>6. got'[a].files = None /\ got'[a].mark = None /\ Bounded(None)'
  BY <1>3 DEF Bounded
<1>7. Where(a)'
  BY <1>0, <1>1, <1>2, <1>3, <1>6 DEF Where
<1>8. Locked(a)'
  BY <1>0, <1>1, <1>2, <1>3 DEF Locked
<1>9. HoldsGood(a)'
  BY <1>0, <1>1, <1>2, <1>3, <1>6 DEF HoldsGood
<1>10. Creating' = Creating /\ mark \in 0..Given
  BY <1>0, <1>1 DEF Creating, Numbers
<1> QED BY <1>1, <1>4, <1>5, <1>7, <1>8, <1>9, <1>10, Private DEF Mine

LEMMA LockTaskKeeps ==
  ASSUME IInv, NEW a \in Agents, LockTask(a)
  PROVE  IInv'
<1> DEFINE t == Head(todo[a]).id
<1>0. Where(a) /\ Locked(a) /\ Types /\ Numbers /\ pc[a] = "lock" /\ todo[a] # << >> /\ t \in Ids
  BY Own, NextUpdate DEF LockTask, Where
<1>1. CASE t \notin DOMAIN files /\ Ends(a)
  BY <1>1, EndsStep DEF LockTask
<1>2. CASE /\ t \in DOMAIN files /\ taskLock[t] = None
           /\ taskLock' = [taskLock EXCEPT ![t] = a]
           /\ pc' = [pc EXCEPT ![a] = IF op[a].kind = "claim" THEN "look" ELSE "read"]
           /\ UNCHANGED <<listLock, op, todo, got>>
  <2>1. UNCHANGED <<files, mark, used, reused, deleted, listLock, op, todo, got, ops, crashes>>
    BY <1>2 DEF LockTask, fileVars, history
  <2>2. /\ pc'[a] = IF op[a].kind = "claim" THEN "look" ELSE "read"
        /\ pc' \in [Agents -> Spots] /\ taskLock' \in [Ids -> Owners]
        /\ taskLock'[t] = a /\ \A u \in Ids \ {t} : taskLock'[u] = taskLock[u]
    BY <1>0, <1>2 DEF Types, Spots, Owners
  <2>3. Types'
    BY <1>0, <2>1, <2>2 DEF Types
  <2>4. Quiet(a)
    BY <1>0, <1>2, <2>1, <2>2, IdsAreNumbers DEF Quiet, Types
  <2>5. op[a].kind # "create"
    BY <1>0 DEF Where
  <2>6. Where(a)'
    BY <1>0, <2>1, <2>2, <2>5 DEF Where
  <2>7. Locked(a)'
    BY <1>0, <2>1, <2>2 DEF Locked
  <2>8. HoldsGood(a)'
    BY <1>0, <2>1, <2>2 DEF HoldsGood
  <2>9. Creating' = Creating /\ mark \in 0..Given
    BY <1>0, <2>1 DEF Creating, Numbers
  <2> QED BY <2>1, <2>3, <2>4, <2>6, <2>7, <2>8, <2>9, Private DEF Mine
<1> QED BY <1>1, <1>2 DEF LockTask

LEMMA CrashKeeps ==
  ASSUME IInv, NEW a \in Agents, Crash(a)
  PROVE  IInv'
<1>0. Where(a) /\ Locked(a) /\ Types /\ Numbers
  BY Own
<1>1. /\ pc' = [pc EXCEPT ![a] = "dead"] /\ crashes' = crashes + 1 /\ crashes < MaxCrashes
      /\ UNCHANGED <<files, mark, used, reused, deleted, listLock, taskLock, op, todo, got, ops>>
  BY DEF Crash, fileVars, history, locks
<1>2. pc'[a] = "dead" /\ pc' \in [Agents -> Spots] /\ crashes' \in 0..MaxCrashes
  BY <1>0, <1>1, TaskListAssumption DEF Types, Spots
<1>3. Types'
  BY <1>0, <1>1, <1>2 DEF Types
<1>4. Quiet(a)
  BY <1>0, <1>1 DEF Quiet, Types
<1>5. Where(a)'
  BY <1>0, <1>1, <1>2 DEF Where
<1>6. Locked(a)' /\ HoldsGood(a)'
  BY <1>0, <1>1, <1>2 DEF Locked, HoldsGood
<1>7. Creating' = Creating /\ mark \in 0..Given
  BY <1>0, <1>1 DEF Creating, Numbers
<1> QED BY <1>1, <1>3, <1>4, <1>5, <1>6, <1>7, Private DEF Mine

LEMMA LockGoesStaleKeeps ==
  ASSUME IInv, NEW a \in Agents, LockGoesStale(a)
  PROVE  IInv'
<1>0. Where(a) /\ Locked(a) /\ Types /\ Numbers
  BY Own
<1>1. /\ pc[a] = "dead"
      /\ listLock' = IF listLock = a THEN None ELSE listLock
      /\ taskLock' = [t \in Ids |-> IF taskLock[t] = a THEN None ELSE taskLock[t]]
      /\ UNCHANGED <<files, mark, used, reused, deleted, op, pc, todo, got, ops, crashes>>
  BY DEF LockGoesStale, fileVars, history
<1>2. Types'
  BY <1>0, <1>1 DEF Types, Owners
<1>3. Quiet(a)
  BY <1>0, <1>1, IdsAreNumbers DEF Quiet, Types
<1>4. Where(a)' /\ Locked(a)' /\ HoldsGood(a)'
  BY <1>0, <1>1, IdsAreNumbers DEF Where, Locked, HoldsGood
<1>5. Creating' = Creating /\ mark \in 0..Given
  BY <1>0, <1>1 DEF Creating, Numbers
<1> QED BY <1>1, <1>2, <1>3, <1>4, <1>5, Private DEF Mine
-------------------------------------------------------------------------------
(* createTask(), resetTaskList().                                              *)

\* What a step that only reads leaves in place.
LEMMA ReadsKeep ==
  ASSUME IInv, NEW a \in Agents, NEW x \in {None} \cup TaskRecords \cup Readings,
         got' = [got EXCEPT ![a] = x], NEW place \in Spots, pc' = [pc EXCEPT ![a] = place],
         UNCHANGED <<files, used, reused, deleted, listLock, taskLock, op, todo, ops, crashes>>,
         mark' \in 0..Given, Mine(a)'
  PROVE  IInv'
<1>1. Types'
  BY Own DEF Types
<1>2. Quiet(a)
  BY Own DEF Types, Quiet
<1>3. Creating' = Creating
  BY DEF Creating
<1> QED BY <1>1, <1>2, <1>3, Private

LEMMA HighestIs ==
  ASSUME IInv
  PROVE  Highest \in 0..Given /\ \A t \in DOMAIN files : t <= Highest
<1>1. /\ DOMAIN files \subseteq used /\ used \subseteq 1..Given /\ Given \in Nat
  BY GivenIsId, IdsAreNumbers DEF IInv, Files, Numbers
<1>2. DOMAIN files \cup {0} \in SUBSET (0..Given) /\ DOMAIN files \cup {0} # {}
  <2>1. 1..Given \subseteq 0..Given /\ 0 \in 0..Given
    BY <1>1
  <2> QED BY <1>1, <2>1, Zenon
<1>3. Highest \in DOMAIN files \cup {0} /\ \A x \in DOMAIN files \cup {0} : x <= Highest
  BY <1>1, <1>2, MaxIsGreatest DEF Highest
<1> QED BY <1>2, <1>3

LEMMA CreateReads ==
  ASSUME IInv, NEW a \in Agents, pc[a] = "files", NEW m \in (0..Given) \cup {None},
         NEW h \in (0..Given) \cup {None}, h # None => \A t \in DOMAIN files \ deleted : t <= h,
         got' = [got EXCEPT ![a] = [files |-> h, mark |-> m]],
         UNCHANGED <<fileVars, locks, op, pc, todo, ops, crashes>>
  PROVE  IInv'
<1>0. Where(a) /\ Locked(a) /\ HoldsGood(a) /\ Types /\ Numbers /\ Given \in 0..(N + MaxOps)
  BY Own
<1>1. UNCHANGED <<files, mark, used, reused, deleted, listLock, taskLock, op, pc, todo, ops, crashes>>
  BY DEF fileVars, history, locks
<1>2. [files |-> h, mark |-> m] \in Readings
  BY <1>0, IdsAreNumbers DEF Readings, Ids
<1>3. got'[a] = [files |-> h, mark |-> m]
  BY <1>0, <1>2 DEF Types
<1>4. Creating' = Creating /\ Given' = Given
  BY <1>1 DEF Creating, Given
<1>5. Where(a)'
  BY <1>0, <1>1, <1>2, <1>3, <1>4 DEF Where, Bounded
<1>6. Locked(a)' /\ HoldsGood(a)'
  BY <1>0, <1>1, <1>3 DEF Locked, HoldsGood
<1>7. pc' = [pc EXCEPT ![a] = "files"] /\ mark' \in 0..Given
  BY <1>0, <1>1 DEF Types, Numbers
<1> QED BY <1>1, <1>2, <1>5, <1>6, <1>7, ReadsKeep DEF Mine, Spots

LEMMA CreateReadsFilesKeeps ==
  ASSUME IInv, NEW a \in Agents, CreateReadsFiles(a)
  PROVE  IInv'
<1>1. /\ pc[a] = "files" /\ got' = [got EXCEPT ![a].files = Highest]
      /\ UNCHANGED <<fileVars, locks, op, pc, todo, ops, crashes>>
  BY DEF CreateReadsFiles
<1>2. got[a] \in Readings /\ Bounded(got[a].mark)
  BY <1>1, Own DEF Where
<1>3. got' = [got EXCEPT ![a] = [files |-> Highest, mark |-> got[a].mark]]
  <2>1. /\ got' = [got EXCEPT ![a] = [got[a] EXCEPT !.files = Highest]]
        /\ [got[a] EXCEPT !.files = Highest] = [files |-> Highest, mark |-> got[a].mark]
    BY <1>1, <1>2 DEF Readings
  <2> QED BY <2>1
<1>4. Highest \in 0..Given /\ \A t \in DOMAIN files : t <= Highest
  BY HighestIs
<1> QED BY <1>1, <1>2, <1>3, <1>4, CreateReads DEF Bounded

LEMMA CreateReadsMarkKeeps ==
  ASSUME IInv, NEW a \in Agents, CreateReadsMark(a)
  PROVE  IInv'
<1>1. /\ pc[a] = "files" /\ got' = [got EXCEPT ![a].mark = mark]
      /\ UNCHANGED <<fileVars, locks, op, pc, todo, ops, crashes>>
  BY DEF CreateReadsMark
<1>2. /\ got[a] \in Readings /\ Bounded(got[a].files) /\ mark \in 0..Given
      /\ got[a].files # None => \A t \in DOMAIN files \ deleted : t <= got[a].files
  BY <1>1, Own DEF Where, HoldsGood
<1>3. got' = [got EXCEPT ![a] = [files |-> got[a].files, mark |-> mark]]
  <2>1. /\ got' = [got EXCEPT ![a] = [got[a] EXCEPT !.mark = mark]]
        /\ [got[a] EXCEPT !.mark = mark] = [files |-> got[a].files, mark |-> mark]
    BY <1>1, <1>2 DEF Readings
  <2> QED BY <2>1
<1> QED BY <1>1, <1>2, <1>3, CreateReads DEF Bounded

\* The id is one more than both readings.
LEMMA NewIdIs ==
  ASSUME IInv, NEW a \in Agents, HasRead(a)
  PROVE  /\ NewId(a) \in 1..(Given + 1) /\ got[a].files < NewId(a)
         /\ NewId(a) \notin DOMAIN files \ deleted
<1>0. /\ pc[a] = "files" /\ got[a].files # None /\ got[a].mark # None /\ Given \in Nat
      /\ DOMAIN files \subseteq used /\ used \subseteq Nat
  <2>1. Given \in 0..(N + MaxOps) /\ N \in Nat /\ MaxOps \in Nat /\ used \subseteq Ids /\ Ids \subseteq Nat
    BY Own, IdsAreNumbers
  <2> QED BY <2>1, Own DEF HasRead, Files
<1>1. got[a].files \in 0..Given /\ got[a].mark \in 0..Given
  BY <1>0, Own DEF Where, Bounded
<1>2. {got[a].files, got[a].mark} \in SUBSET (0..Given) /\ {got[a].files, got[a].mark} # {}
  BY <1>1
<1>3. /\ Max({got[a].files, got[a].mark}) \in 0..Given
      /\ got[a].files <= Max({got[a].files, got[a].mark})
  BY <1>0, <1>2, MaxIsGreatest
<1>4. NewId(a) \in 1..(Given + 1) /\ got[a].files < NewId(a)
  BY <1>0, <1>1, <1>3 DEF NewId
<1>5. \A t \in DOMAIN files \ deleted : t <= got[a].files
  BY <1>0, Own DEF HoldsGood
<1> QED BY <1>0, <1>1, <1>4, <1>5

LEMMA CreateWritesKeeps ==
  ASSUME IInv, NEW a \in Agents, CreateWrites(a)
  PROVE  IInv'
<1> DEFINE n == NewId(a)
<1>0. /\ Where(a) /\ Locked(a) /\ Types /\ Numbers /\ Files /\ HasRead(a) /\ Ends(a)
      /\ pc[a] = "files" /\ listLock = a /\ op[a].kind = "create" /\ Given \in Nat
  BY Own, IdsAreNumbers DEF CreateWrites, HasRead, Where, Locked
<1>1. /\ files' = WithFile(n, Fresh) /\ used' = used \cup {n}
      /\ reused' = reused \cup (used \cap {n}) /\ deleted' = deleted \ {n}
      /\ UNCHANGED <<mark, ops, crashes>>
  BY DEF CreateWrites
<1>2. n \in 1..(Given + 1)
  BY <1>0, NewIdIs
<1> HIDE DEF n
<1>3. /\ Quiet(a) /\ Where(a)' /\ Locked(a)' /\ HoldsGood(a)' /\ Creating' = Creating \ {a}
      /\ pc' \in [Agents -> Spots] /\ op' \in [Agents -> [kind : KindNames, id : Ids \cup {0}]]
      /\ todo' \in [Agents -> Seq(UpdateRecs)]
      /\ got' \in [Agents -> {None} \cup TaskRecords \cup Readings]
      /\ listLock' \in Owners /\ taskLock' \in [Ids -> Owners]
  BY <1>0, EndsIs
<1>4. Types'
  BY <1>0, <1>1, <1>3 DEF Types
<1>5. /\ Given' = Given + 1 /\ IsFiniteSet(Creating') /\ Cardinality(Creating') <= ops'
  BY <1>0, <1>1, <1>3, GivenGrows DEF Creating
<1>6. Numbers'
  <2>1. 1..Given \subseteq 1..Given' /\ 0..Given \subseteq 0..Given' /\ n \in 1..Given'
    BY <1>0, <1>2, <1>5
  <2> QED BY <1>0, <1>1, <1>5, <2>1 DEF Numbers
<1>7. /\ DOMAIN files' = DOMAIN files \cup {n} /\ files'[n] = Fresh
      /\ \A t \in DOMAIN files \ {n} : files'[t] = files[t]
  BY <1>1 DEF WithFile
<1>8. Fresh \in TaskRecords
  BY DEF Fresh, TaskRecords
<1>9. Files'
  BY <1>0, <1>1, <1>7, <1>8 DEF Files
<1>10. ASSUME NEW b \in Agents \ {a} PROVE KeptFor(b)
  <2>1. pc[b] # "files"
    BY <1>0, Own DEF Locked
  <2>2. pc[b] \in {"read", "put"} => Head(todo[b]).id \in used
    BY Own, NextUpdate DEF Where
  <2> QED BY <1>1, <1>7, <2>1, <2>2 DEF KeptFor
<1>11. Mine(a)' /\ Quiet(a)
  BY <1>3 DEF Mine
<1>12. used \subseteq used' /\ reused \subseteq reused' /\ Given <= Given'
  BY <1>0, <1>1, <1>5
<1> QED BY <1>4, <1>6, <1>9, <1>10, <1>11, <1>12, Conclude

LEMMA ResetReadsKeeps ==
  ASSUME IInv, NEW a \in Agents, ResetReads(a)
  PROVE  IInv'
<1> DEFINE x == [files |-> Highest, mark |-> mark]
<1>0. Where(a) /\ Locked(a) /\ HoldsGood(a) /\ Types /\ Numbers /\ Given \in 0..(N + MaxOps)
  BY Own
<1>1. /\ pc[a] = "reset" /\ got' = [got EXCEPT ![a] = x] /\ pc' = [pc EXCEPT ![a] = "clear"]
      /\ UNCHANGED <<files, mark, used, reused, deleted, listLock, taskLock, op, todo, ops, crashes>>
  BY DEF ResetReads, Goes, fileVars, history, locks
<1>2. Highest \in 0..Given /\ mark \in 0..Given
  BY <1>0, HighestIs DEF Numbers
<1>3. x \in Readings /\ got'[a] = x /\ pc'[a] = "clear"
  BY <1>0, <1>1, <1>2, IdsAreNumbers DEF Readings, Ids, Types
<1>4. Given' = Given
  BY <1>1 DEF Creating, Given
<1>5. Mine(a)'
  BY <1>0, <1>1, <1>2, <1>3, <1>4 DEF Mine, Where, Locked, HoldsGood
<1> QED BY <1>1, <1>2, <1>3, <1>5, ReadsKeep DEF Spots

LEMMA ResetClearsKeeps ==
  ASSUME IInv, NEW a \in Agents, ResetClears(a)
  PROVE  IInv'
<1>0. /\ Where(a) /\ Locked(a) /\ HoldsGood(a) /\ Types /\ Numbers /\ Files
      /\ Given \in 0..(N + MaxOps) /\ pc[a] = "clear" /\ got[a].files \in 0..Given
      /\ UNCHANGED <<used, reused, ops, crashes>>
  BY Own DEF ResetClears, Where
<1>1. CASE /\ mark' = got[a].files
           /\ got' = [got EXCEPT ![a] = [files |-> 0, mark |-> 0]]
           /\ UNCHANGED <<files, deleted, locks, op, pc, todo>>
  <2>1. /\ UNCHANGED <<files, deleted, listLock, taskLock, op, pc, todo>>
        /\ pc' = [pc EXCEPT ![a] = "clear"]
    BY <1>0, <1>1 DEF locks, Types
  <2>2. [files |-> 0, mark |-> 0] \in Readings /\ got'[a] = [files |-> 0, mark |-> 0]
    BY <1>0, <1>1 DEF Readings, Types
  <2>3. Given' = Given
    BY <1>0, <2>1 DEF Creating, Given
  <2>4. Mine(a)'
    BY <1>0, <2>1, <2>2, <2>3 DEF Mine, Where, Locked, HoldsGood
  <2> QED BY <1>0, <1>1, <2>1, <2>2, <2>4, ReadsKeep DEF Spots
<1>2. CASE /\ files' = << >> /\ deleted' = deleted \cup DOMAIN files
           /\ Ends(a) /\ UNCHANGED mark
  <2>1. DOMAIN files' = {}
    BY <1>2
  <2>2. /\ Quiet(a) /\ Where(a)' /\ Locked(a)' /\ HoldsGood(a)' /\ Creating' = Creating \ {a}
        /\ pc' \in [Agents -> Spots] /\ op' \in [Agents -> [kind : KindNames, id : Ids \cup {0}]]
        /\ todo' \in [Agents -> Seq(UpdateRecs)]
        /\ got' \in [Agents -> {None} \cup TaskRecords \cup Readings]
        /\ listLock' \in Owners /\ taskLock' \in [Ids -> Owners]
    BY <1>0, <1>2, EndsIs
  <2>3. Types'
    BY <1>0, <2>2 DEF Types
  <2>4. /\ Given' \in Nat /\ Given <= Given' /\ IsFiniteSet(Creating') /\ Cardinality(Creating') <= ops
    BY <1>0, <2>2, GivenGrows
  <2>5. Numbers' /\ Files'
    <3>1. 1..Given \subseteq 1..Given' /\ 0..Given \subseteq 0..Given'
      BY <1>0, <2>4, IdsAreNumbers
    <3>2. Numbers'
      BY <1>0, <1>2, <2>4, <3>1 DEF Numbers, Files
    <3> QED BY <1>0, <1>2, <2>1, <3>2 DEF Numbers, Files
  <2>6. \A b \in Agents \ {a} : KeptFor(b)
    BY <2>1 DEF KeptFor
  <2> QED BY <1>0, <2>2, <2>3, <2>4, <2>5, <2>6, Conclude DEF Mine
<1> QED BY <1>1, <1>2 DEF ResetClears
-------------------------------------------------------------------------------
(* deleteTask().                                                               *)

LEMMA DeleteReadsKeeps ==
  ASSUME IInv, NEW a \in Agents, DeleteReads(a)
  PROVE  IInv'
<1> DEFINE x == [files |-> 0, mark |-> mark]
           place == IF op[a].id > mark THEN "raise" ELSE "unlink"
<1>0. Where(a) /\ Locked(a) /\ HoldsGood(a) /\ Types /\ Numbers /\ Given \in 0..(N + MaxOps)
  BY Own
<1>1. /\ pc[a] = "mark" /\ got' = [got EXCEPT ![a] = x] /\ pc' = [pc EXCEPT ![a] = place]
      /\ UNCHANGED <<files, mark, used, reused, deleted, listLock, taskLock, op, todo, ops, crashes>>
  BY DEF DeleteReads, Goes, fileVars, history, locks
<1>2. mark \in 0..Given /\ place \in {"raise", "unlink"}
  BY <1>0 DEF Numbers
<1> HIDE DEF place
<1>3. x \in Readings /\ got'[a] = x /\ pc'[a] = place
  BY <1>0, <1>1, <1>2, IdsAreNumbers DEF Readings, Ids, Types
<1>4. Mine(a)'
  BY <1>0, <1>1, <1>2, <1>3 DEF Mine, Where, Locked, HoldsGood
<1> QED BY <1>1, <1>2, <1>3, <1>4, ReadsKeep DEF Spots

LEMMA DeleteMarksKeeps ==
  ASSUME IInv, NEW a \in Agents, DeleteMarks(a)
  PROVE  IInv'
<1>0. Where(a) /\ Locked(a) /\ HoldsGood(a) /\ Types /\ Numbers /\ Given \in 0..(N + MaxOps)
  BY Own
<1>1. /\ pc[a] = "raise" /\ mark' = op[a].id /\ pc' = [pc EXCEPT ![a] = "unlink"]
      /\ UNCHANGED <<files, used, reused, deleted, listLock, taskLock, op, todo, got, ops, crashes>>
  BY DEF DeleteMarks, Goes, history, locks
<1>2. got' = [got EXCEPT ![a] = got[a]] /\ got[a] \in {None} \cup TaskRecords \cup Readings
  BY <1>0, <1>1 DEF Types
<1>3. mark' \in 0..Given
  <2>1. op[a].id \in used /\ used \subseteq 1..Given
    BY <1>0, <1>1 DEF Where, Numbers
  <2>2. 1..Given \subseteq 0..Given
    BY <1>0, IdsAreNumbers
  <2> QED BY <2>1, <2>2, <1>1
<1>4. Mine(a)'
  BY <1>0, <1>1 DEF Mine, Where, Locked, HoldsGood, Types
<1> QED BY <1>1, <1>2, <1>3, <1>4, ReadsKeep DEF Spots

LEMMA DeleteUnlinksKeeps ==
  ASSUME IInv, NEW a \in Agents, DeleteUnlinks(a)
  PROVE  IInv'
<1>0. /\ Where(a) /\ Locked(a) /\ HoldsGood(a) /\ Types /\ Numbers /\ Files
      /\ Given \in 0..(N + MaxOps) /\ pc[a] = "unlink" /\ op[a].id \in used
      /\ op[a].kind = "delete"
      /\ UNCHANGED <<mark, used, reused, ops, crashes>>
  BY Own DEF DeleteUnlinks, Where
<1>1. CASE op[a].id \notin DOMAIN files
  BY <1>1, EndsStep DEF DeleteUnlinks, fileVars, history
<1>2. CASE op[a].id \in DOMAIN files
  <2>1. /\ files' = Restrict(files, DOMAIN files \ {op[a].id})
        /\ deleted' = deleted \cup {op[a].id} /\ pc' = [pc EXCEPT ![a] = "cascade"]
        /\ UNCHANGED <<listLock, taskLock, op, todo, got>>
    BY <1>2 DEF DeleteUnlinks, Goes, locks
  <2>2. /\ DOMAIN files' = DOMAIN files \ {op[a].id}
        /\ \A t \in DOMAIN files' : files'[t] = files[t]
    BY <2>1 DEF Restrict
  <2>3. pc'[a] = "cascade" /\ pc' \in [Agents -> Spots]
    BY <1>0, <2>1 DEF Types, Spots
  <2>4. Types'
    BY <1>0, <2>1, <2>3 DEF Types
  <2>5. Creating' = Creating /\ Given' = Given
    BY <1>0, <2>1 DEF Creating, Given
  <2>6. Numbers' /\ Files'
    BY <1>0, <2>1, <2>2, <2>5 DEF Numbers, Files
  <2>7. Quiet(a)
    BY <1>0, <2>1 DEF Quiet, Types
  <2>8. Where(a)' /\ Locked(a)' /\ HoldsGood(a)'
    BY <1>0, <2>1, <2>3 DEF Where, Locked, HoldsGood
  <2>9. \A b \in Agents \ {a} : KeptFor(b)
    BY <2>1, <2>2 DEF KeptFor
  <2>10. Given <= Given'
    BY <1>0, <2>5, IdsAreNumbers
  <2> QED BY <1>0, <2>4, <2>6, <2>7, <2>8, <2>9, <2>10, Conclude DEF Mine
<1> QED BY <1>1, <1>2

LEMMA DeleteListsKeeps ==
  ASSUME IInv, NEW a \in Agents, DeleteLists(a)
  PROVE  IInv'
<1> DEFINE d == op[a].id
           refs == {t \in DOMAIN files : d \in files[t].blocks \cup files[t].blockedBy}
           f == [t \in refs |-> Update(t, [blocks    |-> files[t].blocks \ {d},
                                           blockedBy |-> files[t].blockedBy \ {d}])]
           us == {Update(t, [blocks    |-> files[t].blocks \ {d},
                             blockedBy |-> files[t].blockedBy \ {d}]) : t \in refs}
<1>1. /\ pc[a] = "cascade" /\ Updates(a, SetToSeq(us)) /\ UNCHANGED <<fileVars, ops, crashes>>
  BY DEF DeleteLists
<1>2. op[a].kind = "delete"
  BY <1>1, Own DEF Where
<1>3. refs \subseteq used /\ used \subseteq Ids /\ \A t \in refs : files[t] \in TaskRecords
  BY Own DEF Files
<1>4. \A t \in refs : f[t] \in UpdateRecs /\ f[t].id \in used
  BY <1>3 DEF Update, UpdateRecs, Changes, TaskRecords
<1>5. us = {f[t] : t \in refs} /\ DOMAIN f = refs
  OBVIOUS
<1> HIDE DEF us, f, refs
<1>6. IsFiniteSet(us)
  <2>1. IsFiniteSet(refs)
    BY <1>3, IdsAreNumbers, FS_Subset
  <2> QED BY <2>1, <1>5, ImageIsFinite
<1>7. \A u \in us : u \in UpdateRecs /\ u.id \in used
  BY <1>4, <1>5
<1>8. SetToSeq(us) \in Seq(us)
  BY <1>6, SeqOfSet
<1>9. /\ SetToSeq(us) \in Seq(UpdateRecs)
      /\ \A i \in 1..Len(SetToSeq(us)) : SetToSeq(us)[i].id \in used
  BY <1>7, <1>8
<1> QED BY <1>1, <1>2, <1>9, UpdatesStep
-------------------------------------------------------------------------------
(* claimTask(), updateTask().                                                  *)

LEMMA ClaimLooksKeeps ==
  ASSUME IInv, NEW a \in Agents, ClaimLooks(a)
  PROVE  IInv'
<1> DEFINE place == IF op[a].kind = "claim" THEN "read" ELSE "check"
<1>0. Where(a) /\ Locked(a) /\ HoldsGood(a) /\ Types /\ Numbers /\ pc[a] = "look"
  BY Own DEF ClaimLooks
<1>1. CASE ~Claimable(a, op[a].id)
  BY <1>1, EndsStep DEF ClaimLooks
<1>2. CASE Claimable(a, op[a].id)
  <2>1. /\ pc' = [pc EXCEPT ![a] = place] /\ got' = [got EXCEPT ![a] = got[a]]
        /\ got' = got /\ got[a] \in {None} \cup TaskRecords \cup Readings
        /\ UNCHANGED <<files, mark, used, reused, deleted, listLock, taskLock, op, todo, ops, crashes>>
    BY <1>0, <1>2 DEF ClaimLooks, Goes, fileVars, history, locks, Types
  <2>2. pc'[a] = place /\ op[a].kind \in {"claim", "claimBusy"}
    BY <1>0, <2>1 DEF Types, Where
  <2>3. Where(a)'
    BY <1>0, <2>1, <2>2 DEF Where
  <2>4. Locked(a)'
    BY <1>0, <2>1, <2>2 DEF Locked
  <2>5. HoldsGood(a)'
    BY <1>0, <1>2, <2>1, <2>2 DEF HoldsGood, Claimable
  <2>6. mark' \in 0..Given
    BY <1>0, <2>1 DEF Numbers
  <2> QED BY <2>1, <2>3, <2>4, <2>5, <2>6, ReadsKeep DEF Mine, Spots
<1> QED BY <1>1, <1>2

LEMMA UpdateChecksKeeps ==
  ASSUME IInv, NEW a \in Agents, UpdateChecks(a)
  PROVE  IInv'
<1>0. /\ Where(a) /\ Locked(a) /\ HoldsGood(a) /\ Types /\ Numbers /\ pc[a] = "check"
      /\ todo[a] # << >>
  BY Own DEF UpdateChecks, Where
<1>1. CASE Head(todo[a]).id \in DOMAIN files
  <2>1. /\ pc' = [pc EXCEPT ![a] = "lock"] /\ got' = [got EXCEPT ![a] = got[a]]
        /\ got' = got /\ got[a] \in {None} \cup TaskRecords \cup Readings
        /\ UNCHANGED <<files, mark, used, reused, deleted, listLock, taskLock, op, todo, ops, crashes>>
    BY <1>0, <1>1 DEF UpdateChecks, Goes, fileVars, history, locks, Types
  <2>2. pc'[a] = "lock"
    BY <1>0, <2>1 DEF Types
  <2>3. Where(a)' /\ Locked(a)' /\ HoldsGood(a)'
    BY <1>0, <2>1, <2>2 DEF Where, Locked, HoldsGood
  <2>4. mark' \in 0..Given
    BY <1>0, <2>1 DEF Numbers
  <2> QED BY <2>1, <2>3, <2>4, ReadsKeep DEF Mine, Spots
<1>2. CASE Head(todo[a]).id \notin DOMAIN files
  <2>1. Updates(a, Tail(todo[a])) /\ UNCHANGED <<fileVars, ops, crashes>>
    BY <1>2 DEF UpdateChecks
  <2>2. /\ Tail(todo[a]) \in Seq(UpdateRecs)
        /\ \A i \in 1..Len(Tail(todo[a])) : Tail(todo[a])[i].id \in used
    BY <1>0, NextUpdate
  <2>3. op[a].kind = "claimBusy" => Tail(todo[a]) = << >>
    <3>1. \A u : Tail(<<u>>) = << >>
      OBVIOUS
    <3> QED BY <3>1, <1>0 DEF Where
  <2> QED BY <1>0, <2>1, <2>2, <2>3, UpdatesStep
<1> QED BY <1>1, <1>2

LEMMA UpdateReadsKeeps ==
  ASSUME IInv, NEW a \in Agents, UpdateReads(a)
  PROVE  IInv'
<1> DEFINE t == Head(todo[a]).id
<1>0. /\ Where(a) /\ Locked(a) /\ HoldsGood(a) /\ Types /\ Numbers /\ Files /\ pc[a] = "read"
      /\ UNCHANGED <<files, mark, used, reused, deleted, ops, crashes>>
  BY Own DEF UpdateReads, fileVars, history
<1>1. CASE t \in DOMAIN files
  <2>1. /\ pc' = [pc EXCEPT ![a] = "put"] /\ got' = [got EXCEPT ![a] = files[t]]
        /\ UNCHANGED <<listLock, taskLock, op, todo>>
    BY <1>1 DEF UpdateReads, Goes, locks
  <2>2. pc'[a] = "put" /\ got'[a] = files[t] /\ files[t] \in TaskRecords
    BY <1>0, <1>1, <2>1 DEF Types, Files
  <2>3. Where(a)' /\ Locked(a)' /\ HoldsGood(a)'
    BY <1>0, <2>1, <2>2 DEF Where, Locked, HoldsGood
  <2>4. mark' \in 0..Given
    BY <1>0 DEF Numbers
  <2> QED BY <1>0, <2>1, <2>2, <2>3, <2>4, ReadsKeep DEF Mine, Spots
<1>2. CASE t \notin DOMAIN files
  <2>1. Continue(a)
    BY <1>2 DEF UpdateReads
  <2>2. /\ Types' /\ Quiet(a) /\ Where(a)' /\ Locked(a)' /\ HoldsGood(a)'
        /\ Creating' \in {Creating, Creating \ {a}}
    BY <1>0, <2>1, ContinueIs DEF history
  <2>3. mark' \in 0..Given
    BY <1>0 DEF Numbers
  <2> QED BY <1>0, <2>2, <2>3, Private DEF Mine
<1> QED BY <1>1, <1>2

LEMMA UpdateWritesKeeps ==
  ASSUME IInv, NEW a \in Agents, UpdateWrites(a)
  PROVE  IInv'
<1> DEFINE t == Head(todo[a]).id
           r == Changed(got[a], Head(todo[a]).changes)
<1>0. /\ Where(a) /\ Locked(a) /\ Types /\ Numbers /\ Files /\ pc[a] = "put"
      /\ files' = WithFile(t, r) /\ Continue(a)
      /\ UNCHANGED <<mark, used, reused, deleted, ops, crashes>>
  BY Own DEF UpdateWrites, history
<1>1. /\ todo[a] # << >> /\ t \in used /\ t \in Ids /\ taskLock[t] = a
      /\ got[a] \in TaskRecords /\ Head(todo[a]).changes \in Changes
  BY <1>0, NextUpdate DEF Where, Locked
<1>2. r \in TaskRecords
  BY <1>1, ChangedRecord
<1> HIDE DEF r, t
<1>3. /\ Types' /\ Quiet(a) /\ Where(a)' /\ Locked(a)' /\ HoldsGood(a)'
      /\ Creating' \in {Creating, Creating \ {a}}
  BY <1>0, ContinueIs DEF history
<1>4. Given' \in Nat /\ Given <= Given' /\ IsFiniteSet(Creating') /\ Cardinality(Creating') <= ops
  BY <1>0, <1>3, GivenGrows
<1>5. DOMAIN files' = DOMAIN files \cup {t} /\ files'[t] = r
      /\ \A u \in DOMAIN files \ {t} : files'[u] = files[u]
  BY <1>0 DEF WithFile
<1>6. Numbers'
  <2>1. Given \in Nat
    BY GivenIsId, <1>0, IdsAreNumbers
  <2>2. 1..Given \subseteq 1..Given' /\ 0..Given \subseteq 0..Given'
    BY <1>4, <2>1
  <2> QED BY <1>0, <1>4, <2>2 DEF Numbers
<1>7. Files'
  BY <1>0, <1>1, <1>2, <1>5 DEF Files
<1>8. \A b \in Agents \ {a} : KeptFor(b)
  BY <1>0, <1>1, <1>5 DEF KeptFor, Files
<1> QED BY <1>0, <1>3, <1>4, <1>6, <1>7, <1>8, Conclude DEF Mine
-------------------------------------------------------------------------------
(* The invariant.                                                              *)

LEMMA StartsRight ==
  ASSUME Init
  PROVE  IInv
<1>1. /\ files = [t \in 1..N |-> Fresh] /\ mark = 0
      /\ used = 1..N /\ reused = {} /\ deleted = {}
      /\ listLock = None /\ taskLock = [t \in Ids |-> None]
      /\ op = [a \in Agents |-> [kind |-> "none", id |-> 0]]
      /\ pc = [a \in Agents |-> "idle"] /\ todo = [a \in Agents |-> << >>]
      /\ got = [a \in Agents |-> None] /\ ops = 0 /\ crashes = 0
  BY DEF Init
<1>2. Types
  BY <1>1, TaskListAssumption DEF Types, Owners, KindNames, Spots
<1>3. Creating = {} /\ Cardinality(Creating) = 0 /\ IsFiniteSet(Creating)
  BY <1>1, FS_EmptySet DEF Creating
<1>4. Given = N /\ N \in Nat
  BY <1>1, <1>3, IdsAreNumbers DEF Given
<1>5. Numbers
  BY <1>1, <1>3, <1>4 DEF Numbers
<1>6. Files
  BY <1>1 DEF Files, Fresh, TaskRecords
<1>7. \A a \in Agents : Mine(a)
  BY <1>1, IdsAreNumbers DEF Mine, Where, Locked, HoldsGood
<1> QED BY <1>2, <1>5, <1>6, <1>7 DEF IInv

LEMMA NextKeeps ==
  ASSUME IInv, [Next]_vars
  PROVE  IInv'
<1>1. CASE UNCHANGED vars
  <2>1. UNCHANGED <<files, mark, used, reused, deleted, listLock, taskLock, op, pc, todo, got, ops,
                    crashes>>
    BY <1>1 DEF vars, fileVars, history, locks
  <2>2. Given' = Given /\ Creating' = Creating
    BY <2>1 DEF Given, Creating
  <2>3. Types' /\ Numbers' /\ Files'
    BY <2>1, <2>2 DEF IInv, Types, Numbers, Files
  <2>4. ASSUME NEW a \in Agents PROVE Where(a)' /\ Locked(a)' /\ HoldsGood(a)'
    BY <2>1, <2>2, Own DEF Where, Bounded, Locked, HoldsGood
  <2> QED BY <2>3, <2>4 DEF IInv, Mine
<1>2. ASSUME NEW a \in Agents, Call(a) PROVE IInv'
  BY <1>2, CallsKeep
<1>3. ASSUME NEW a \in Agents, Step(a) PROVE IInv'
  BY <1>3, LockListKeeps, LockTaskKeeps, EndsStep, CreateReadsFilesKeeps, CreateReadsMarkKeeps,
     CreateWritesKeeps, ResetReadsKeeps, ResetClearsKeeps, DeleteReadsKeeps, DeleteMarksKeeps,
     DeleteUnlinksKeeps, DeleteListsKeeps, ClaimLooksKeeps, UpdateChecksKeeps, UpdateReadsKeeps,
     UpdateWritesKeeps, Zenon DEF Step, LockFails
<1>4. ASSUME NEW a \in Agents, Crash(a) \/ LockGoesStale(a) PROVE IInv'
  BY <1>4, CrashKeeps, LockGoesStaleKeeps
<1> QED BY <1>1, <1>2, <1>3, <1>4, Zenon DEF Next

LEMMA InvHolds == Spec => []IInv
BY StartsRight, NextKeeps, PTL DEF Spec

\* The types, and who holds the locks where: the list's lock is with an agent that is in
\* a call that takes it, or is dead; that of a task with one that is between its look or
\* read and its write, or is dead; and with its agent the whole way.
THEOREM TypesHold == Spec => []TypeOK
<1>1. ASSUME IInv PROVE TypeOK
  <2>1. Types /\ Numbers /\ Files /\ used \subseteq Ids /\ mark \in 0..Given
        /\ Given \in 0..(N + MaxOps)
    BY <1>1, GivenIsId DEF IInv, Numbers
  <2>2. DOMAIN files \subseteq Ids /\ Range(files) \subseteq TaskRecords
    BY <2>1 DEF Files, Range
  <2>3. mark \in Ids \cup {0}
    BY <2>1, IdsAreNumbers DEF Ids
  <2>4. {used, reused, deleted} \subseteq SUBSET Ids
    BY <2>1 DEF Numbers
  <2>5. ASSUME NEW a \in Agents
        PROVE  /\ listLock = a =>
                    \/ pc[a] = "dead"
                    \/ op[a].kind \in {"create", "reset", "claimBusy"} /\ pc[a] # "idle"
               /\ pc[a] \in {"files", "reset", "clear"} => listLock = a
               /\ \A t \in Ids : taskLock[t] = a => pc[a] \in {"look", "read", "put", "dead"}
               /\ pc[a] \in {"read", "put"} => taskLock[Head(todo[a]).id] = a
    BY <1>1, Own DEF Locked
  <2> QED BY <2>1, <2>2, <2>3, <2>4, <2>5 DEF TypeOK, Types
<1> QED BY <1>1, InvHolds, PTL

\* createTask() writes over no task that was not deleted, and updateTask() over none that is
\* not the one it read, unless the id went to a second task: whatever the other agents
\* do between its steps, wherever they die, and although updates write back deleted tasks.
THEOREM WritesReplaceNothing == Spec => NothingIsReplaced
<1>1. ASSUME IInv, NEW a \in Agents
      PROVE  /\ CreateWrites(a) => NewId(a) \notin DOMAIN files \ deleted
             /\ LET t == Head(todo[a]).id
                IN  UpdateWrites(a) /\ t \in DOMAIN files \ reused => files[t] = got[a]
  BY <1>1, NewIdIs, Own DEF CreateWrites, UpdateWrites, HoldsGood
<1>2. ASSUME IInv
      PROVE  [\A a \in Agents :
                /\ CreateWrites(a) => NewId(a) \notin DOMAIN files \ deleted
                /\ LET t == Head(todo[a]).id
                   IN  UpdateWrites(a) /\ t \in DOMAIN files \ reused => files[t] = got[a]]_vars
  BY <1>1, <1>2
<1> QED BY <1>2, InvHolds, PTL DEF NothingIsReplaced

\* A claim without checkAgentBusy takes the task from nobody, and does not reopen it, although
\* its conditions were checked some steps earlier: it has the lock of the task from before the
\* check until the write, and nobody but an agent with that lock writes the file of the task,
\* except a create that gives its id again, to a task without an owner.
THEOREM ClaimsTakeNothing == Spec => ClaimTakesNothing
<1>1. ASSUME IInv, NEW a \in Agents
      PROVE  LET t == op[a].id
             IN  UpdateWrites(a) /\ op[a].kind = "claim" /\ t \in DOMAIN files
                   => files[t].owner \in {None, a} /\ ~files[t].done
  BY <1>1, Own DEF UpdateWrites, HoldsGood
<1>2. ASSUME IInv
      PROVE  [\A a \in Agents :
                LET t == op[a].id
                IN  UpdateWrites(a) /\ op[a].kind = "claim" /\ t \in DOMAIN files
                      => files[t].owner \in {None, a} /\ ~files[t].done]_vars
  BY <1>1, <1>2
<1> QED BY <1>2, InvHolds, PTL DEF ClaimTakesNothing
-------------------------------------------------------------------------------
(***************************************************************************)
(* The inbox. Whoever writes the file has read what it holds, so nothing   *)
(* is overwritten, and what is marked was seen, unless it was delivered    *)
(* while a reader waited for the lock.                                     *)
(***************************************************************************)

Parties == Messages \cup Readers
Points == [Parties -> {"off", "creating", "reading", "locking", "holding", "writing",
                      "done", "dead"}]
Changing(r) == stage[r] \in {"locking", "holding", "writing"}

(***************************************************************************)
(* The inductive invariant.                                                *)
(*   Mutex: who changes the file has its lock.                             *)
(*   File: what the file held is in the file, and while somebody writes it *)
(*         has been read by who writes, unless it was torn meanwhile.      *)
(*   Session: only the attachments of a turn hold a batch back.            *)
(*   Dealt: what is marked was dealt with; and so was, once a reader is    *)
(*         about to mark, all that it will find, marked or not.            *)
(***************************************************************************)
Mutex == \A x \in Parties : stage[x] \in {"holding", "writing"} => lock = x

File ==
    /\ form # "text" => file = <<>>
    /\ \A x \in Parties : stage[x] = "writing" => file = <<>> /\ kept \in {base[x], <<>>}
    /\ (\A x \in Parties : stage[x] # "writing") => kept = file

Session ==
    /\ \A r \in Readers : stage[r] \in {"off", "reading"} \/ Changing(r)
    /\ stage[Poller] # "reading"
    /\ batch[Attacher] \subseteq Messages \ Structured
    /\ ~Changing(Attacher) => batch[Attacher] = {}

\* An entry of the file, or of what is about to be written over it.
Stored(e) == \/ e \in Range(kept)
             \/ \E x \in Parties : stage[x] = "writing" /\ e \in Range(base[x])

Covered(m) == Seen(m) \/ m \in late \/ m \in batch[Attacher]

Dealt ==
    \A e \in Entries : Stored(e) =>
       /\ e.read => Covered(e.msg)
       /\ Changing(Poller) => Covered(e.msg)
       /\ Changing(Attacher) => e.msg \in Structured \/ Covered(e.msg)

MailboxInv == MailboxTypeOK /\ Mutex /\ File /\ Session /\ Dealt

\* The inbox has not been created.
LEMMA InitInv == MailboxInit => MailboxInv
<1> SUFFICES ASSUME MailboxInit PROVE MailboxInv
  OBVIOUS
<1> USE DEF MailboxInit, Parties
<1>1. << >> \in Seq(Entries) /\ Range(<< >>) = {}
  BY EmptySeq DEF Range
<1>2. MailboxTypeOK
  <2>1. base \in [Messages \cup Readers -> Seq(Entries)] /\ file \in Seq(Entries)
        /\ kept \in Seq(Entries)
    BY <1>1
  <2>2. batch \in [Readers -> SUBSET Messages]
    OBVIOUS
  <2>3. deaths \in 0..MaxDeaths
    BY MailboxAssumption
  <2> QED BY <2>1, <2>2, <2>3 DEF MailboxTypeOK
<1>3. Mutex /\ File /\ Session
  BY <1>1 DEF Mutex, File, Session, Changing, Readers, Poller, Attacher
<1>4. Dealt
  BY <1>1 DEF Dealt, Stored
<1> QED BY <1>2, <1>3, <1>4 DEF MailboxInv

-----------------------------------------------------------------------------
(* The steps in common.                                                     *)

\* One agent goes from one point to another, the others stay where they are.
LEMMA GoesType ==
  ASSUME MailboxTypeOK, NEW x \in Parties, NEW from, NEW to, Moves(x, from, to),
         to \in {"off", "creating", "reading", "locking", "holding", "writing", "done", "dead"}
  PROVE  /\ stage' \in Points
         /\ stage[x] = from /\ stage'[x] = to
         /\ \A y \in Parties \ {x} : stage'[y] = stage[y]
BY DEF MailboxTypeOK, Moves, Parties, Points

\* What is stored stays dealt with as long as nothing is stored that was not, nothing
\* is uncovered and no reader comes to mark.
LEMMA DealtStays ==
  ASSUME Dealt,
         \A e \in Entries : Stored(e)' => Stored(e),
         \A m \in Messages : Covered(m) => Covered(m)',
         \A r \in Readers : Changing(r)' => Changing(r)
  PROVE  Dealt'
BY DEF Dealt, Entries, Readers

\* While one agent holds the lock, nobody else writes.
LEMMA OneWriter ==
  ASSUME Mutex, NEW x \in Parties, NEW y \in Parties, x # y,
         stage[x] \in {"holding", "writing"}
  PROVE  stage[y] \notin {"holding", "writing"}
BY DEF Mutex

\* As long as nobody writes, the file parses to what was kept.
LEMMA ContentIsKept ==
  ASSUME File, \A x \in Parties : stage[x] # "writing"
  PROVE  Content = kept /\ file = kept
BY DEF File, Content

\* While somebody writes, the file is empty.
LEMMA WritingIsEmpty ==
  ASSUME File, Content # << >>
  PROVE  \A x \in Parties : stage[x] # "writing"
BY DEF File, Content

\* What is so of every agent that ends a change of the file.
Settled(x) ==
    /\ stage' \in [Messages \cup Readers ->
             {"off", "creating", "reading", "locking", "holding", "writing",
              "done", "dead"}]
    /\ batch' \in [Readers -> SUBSET Messages]
    /\ busy' \in BOOLEAN
    /\ {queued, snapshot, shown}' \subseteq SUBSET (Messages \ Structured)
    /\ routed' \subseteq Structured
    /\ stage'[x] \in {"off", "done"} /\ \A y \in Parties \ {x} : stage'[y] = stage[y]
    /\ \A m \in Messages : Covered(m) => Covered(m)'
    /\ \A r \in Readers : Changing(r)' => Changing(r) /\ r # x
    /\ Session'

\* A reader that is done, or a sender, leaves nothing behind that it has taken.
LEMMA SettlesInv ==
  ASSUME MailboxTypeOK, Session, NEW x \in Parties, Settles(x), late \subseteq late'
  PROVE  Settled(x)
<1> USE DEF Parties, Points
<1>1. /\ stage' = [stage EXCEPT ![x] = After(x)]
      /\ batch' = IF x \in Readers THEN [batch EXCEPT ![x] = {}] ELSE batch
      /\ After(x) \in {"off", "done"} /\ (x \in Readers => After(x) = "off")
  BY MailboxAssumption DEF Settles, After
<1>2. /\ stage' \in Points
      /\ batch' \in [Readers -> SUBSET Messages]
      /\ stage'[x] \in {"off", "done"} /\ \A y \in Parties \ {x} : stage'[y] = stage[y]
      /\ x \in Readers => stage'[x] = "off"
  BY <1>1 DEF MailboxTypeOK
<1>3. /\ busy' \in BOOLEAN
      /\ {queued, snapshot, shown}' \subseteq SUBSET (Messages \ Structured)
      /\ routed' \subseteq Structured
  <2>1. CASE x = Attacher
    BY <2>1 DEF Settles, SnapshotProcessed, MailboxTypeOK, Session
  <2>2. CASE x # Attacher
    BY <2>2 DEF Settles, session, MailboxTypeOK
  <2> QED BY <2>1, <2>2
<1>4. \A m \in Messages : Covered(m) => Covered(m)'
  <2>1. CASE x = Attacher
    BY <2>1 DEF Settles, SnapshotProcessed, Covered, Seen
  <2>2. CASE x # Attacher
    <3>1. UNCHANGED session /\ batch'[Attacher] = batch[Attacher]
      BY <1>1, <2>2 DEF Settles, MailboxTypeOK, Readers
    <3> QED BY <3>1 DEF session, Covered, Seen
  <2> QED BY <2>1, <2>2
<1>5. \A r \in Readers : Changing(r)' => Changing(r) /\ r # x
  BY <1>2 DEF Changing
<1>6. Session'
  <2>1. \A r \in Readers : stage'[r] = stage[r] \/ stage'[r] = "off"
    BY <1>2
  <2>2. \/ batch'[Attacher] = {}
        \/ batch'[Attacher] = batch[Attacher] /\ stage'[Attacher] = stage[Attacher]
    BY <1>1, <1>2 DEF MailboxTypeOK, Readers
  <2> QED BY <2>1, <2>2 DEF Session, Changing, Readers
<1> QED BY <1>2, <1>3, <1>4, <1>5, <1>6 DEF Settled

-----------------------------------------------------------------------------
(* A change of the file.                                                    *)

\* The lock is taken: whoever had it does not hold it any more.
LEMMA LockInv ==
  ASSUME MailboxInv, NEW x \in Parties, Lock(x)
  PROVE  MailboxInv'
<1> USE DEF Parties, Points
<1>1. /\ Moves(x, "locking", "holding") /\ lock = Nobody /\ lock' = x
      /\ UNCHANGED <<form, file, base, batch, session, kept, late, deaths>>
  BY DEF Lock
<1>2. /\ stage' \in Points
      /\ stage[x] = "locking" /\ stage'[x] = "holding" /\ \A y \in Parties \ {x} : stage'[y] = stage[y]
  BY <1>1, GoesType DEF MailboxInv
<1>3. MailboxTypeOK'
  BY <1>1, <1>2 DEF MailboxInv, MailboxTypeOK, session, Entries
<1>4. \A y \in Parties : stage[y] \notin {"holding", "writing"}
  BY <1>1, MailboxAssumption DEF MailboxInv, Mutex
<1>5. Mutex'
  BY <1>1, <1>2, <1>4 DEF Mutex
<1>6. File'
  BY <1>1, <1>2, <1>4 DEF MailboxInv, File
<1>7. Session'
  BY <1>1, <1>2 DEF MailboxInv, Session, Changing, Readers
<1>8. Dealt'
  <2>1. \A e \in Entries : Stored(e)' => Stored(e)
    BY <1>1, <1>2 DEF Stored
  <2>2. \A m \in Messages : Covered(m) => Covered(m)'
    BY <1>1 DEF Covered, Seen, session
  <2>3. \A r \in Readers : Changing(r)' => Changing(r)
    BY <1>2 DEF Changing
  <2> QED BY <2>1, <2>2, <2>3, DealtStays DEF MailboxInv
<1> QED BY <1>3, <1>5, <1>6, <1>7, <1>8 DEF MailboxInv

\* After ten attempts at the lock: nothing is marked, nothing is written.
LEMMA LockFailsInv ==
  ASSUME MailboxInv, NEW x \in Parties, GivesUp(x)
  PROVE  MailboxInv'
<1> USE DEF Parties, Points
<1>1. /\ stage[x] = "locking" /\ Settles(x)
      /\ UNCHANGED <<form, file, lock, base, kept, late, deaths>>
  BY DEF GivesUp
<1>2. Settled(x)
  BY <1>1, SettlesInv DEF MailboxInv
<1> USE <1>2 DEF Settled
<1>3. MailboxTypeOK'
  BY <1>1 DEF MailboxInv, MailboxTypeOK, Entries
<1>4. Mutex'
  BY <1>1 DEF MailboxInv, Mutex
<1>5. File'
  BY <1>1 DEF MailboxInv, File
<1>6. Dealt'
  <2>1. \A e \in Entries : Stored(e)' => Stored(e)
    BY <1>1 DEF Stored
  <2> QED BY <2>1, DealtStays DEF MailboxInv
<1> QED BY <1>3, <1>4, <1>5, <1>6 DEF MailboxInv

\* What the holder of the lock reads is what was kept; from now on nothing else is
\* in the file.
LEMMA TruncateInv ==
  ASSUME MailboxInv, NEW x \in Parties, Truncate(x)
  PROVE  MailboxInv'
<1> USE DEF Parties, Points
<1>1. /\ Moves(x, "holding", "writing")
      /\ base' = [base EXCEPT ![x] = Content]
      /\ form' = "blank" /\ file' = << >>
      /\ UNCHANGED <<lock, batch, session, kept, late, deaths>>
  BY DEF Truncate
<1>2. /\ stage' \in Points
      /\ stage[x] = "holding" /\ stage'[x] = "writing" /\ \A y \in Parties \ {x} : stage'[y] = stage[y]
  BY <1>1, GoesType DEF MailboxInv
<1>3. \A y \in Parties : stage[y] # "writing"
  BY <1>2, OneWriter DEF MailboxInv
<1>4. Content = kept /\ kept \in Seq(Entries)
  BY <1>3, ContentIsKept DEF MailboxInv, MailboxTypeOK
<1>5. /\ base' \in [Messages \cup Readers -> Seq(Entries)] /\ file' \in Seq(Entries)
      /\ base'[x] = kept
  BY <1>1, <1>4, EmptySeq DEF MailboxInv, MailboxTypeOK
<1>6. MailboxTypeOK'
  BY <1>1, <1>2, <1>5 DEF MailboxInv, MailboxTypeOK, session, Entries
<1>7. Mutex'
  BY <1>1, <1>2 DEF MailboxInv, Mutex
<1>8. File'
  BY <1>1, <1>2, <1>3, <1>5 DEF File
<1>9. Session'
  BY <1>1, <1>2 DEF MailboxInv, Session, Changing, Readers
<1>10. Dealt'
  <2>1. \A e \in Entries : Stored(e)' => Stored(e)
    BY <1>1, <1>2, <1>3, <1>5 DEF Stored
  <2>2. \A m \in Messages : Covered(m) => Covered(m)'
    BY <1>1 DEF Covered, Seen, session
  <2>3. \A r \in Readers : Changing(r)' => Changing(r)
    BY <1>2 DEF Changing
  <2> QED BY <2>1, <2>2, <2>3, DealtStays DEF MailboxInv
<1> QED BY <1>6, <1>7, <1>8, <1>9, <1>10 DEF MailboxInv

\* A reader that finds the inbox empty.
LEMMA NothingToMarkInv ==
  ASSUME MailboxInv, NEW r \in Readers, NothingToMark(r)
  PROVE  MailboxInv'
<1> USE DEF Parties, Points
<1>1. /\ stage[r] = "holding" /\ lock' = Nobody /\ Settles(r)
      /\ UNCHANGED <<form, file, base, kept, late, deaths>>
  BY DEF NothingToMark
<1>2. Settled(r)
  BY <1>1, SettlesInv DEF MailboxInv
<1> USE <1>2 DEF Settled
<1>3. MailboxTypeOK'
  BY <1>1 DEF MailboxInv, MailboxTypeOK, Entries
<1>4. Mutex'
  <2>1. \A y \in Parties \ {r} : stage[y] \notin {"holding", "writing"}
    BY <1>1, OneWriter DEF MailboxInv
  <2> QED BY <2>1 DEF Mutex
<1>5. File'
  BY <1>1 DEF MailboxInv, File
<1>6. Dealt'
  <2>1. \A e \in Entries : Stored(e)' => Stored(e)
    BY <1>1 DEF Stored
  <2> QED BY <2>1, DealtStays DEF MailboxInv
<1> QED BY <1>3, <1>4, <1>5, <1>6 DEF MailboxInv

\* An entry with its mark set or left as it was.
LEMMA MarkedEntry ==
  ASSUME NEW e \in Entries, NEW x
  PROVE  [e EXCEPT !.read = @ \/ Marks(x, e)] = [msg |-> e.msg, read |-> e.read \/ Marks(x, e)]
<1> DEFINE marked == e.read \/ Marks(x, e)
<1>1. \A b \in BOOLEAN : [e EXCEPT !.read = b] = [msg |-> e.msg, read |-> b]
  BY DEF Entries
<1>2. marked \in BOOLEAN
  OBVIOUS
<1>3. [e EXCEPT !.read = marked] = [msg |-> e.msg, read |-> marked]
  <2> HIDE DEF marked
  <2> QED BY <1>1, <1>2
<1> QED BY <1>3

\* What a sender or a reader writes: it takes nothing away and moves nothing.
LEMMA RewrittenEntries ==
  ASSUME MailboxTypeOK, NEW x \in Parties
  PROVE  /\ Rewritten(x) \in Seq(Entries)
         /\ Extends(base[x], Rewritten(x))
         /\ \A e \in Range(Rewritten(x)) :
               \/ x \in Messages /\ e = [msg |-> x, read |-> FALSE]
               \/ \E d \in Range(base[x]) :
                     e.msg = d.msg /\ (e.read => d.read \/ (x \in Readers /\ Marks(x, d)))
<1> DEFINE s == base[x]
           n == [msg |-> x, read |-> FALSE]
<1>1. s \in Seq(Entries)
  BY DEF MailboxTypeOK, Parties
<1>2. /\ Len(s) \in Nat /\ DOMAIN s = 1..Len(s)
      /\ \A i \in DOMAIN s : /\ s[i] \in Entries /\ s[i].msg \in Messages
                             /\ s[i].read \in BOOLEAN
                             /\ s[i] = [msg |-> s[i].msg, read |-> s[i].read]
  <2>1. Len(s) \in Nat /\ DOMAIN s = 1..Len(s) /\ \A i \in DOMAIN s : s[i] \in Entries
    BY <1>1, LenProperties, ElementOfSeq
  <2> QED BY <2>1 DEF Entries
<1>3. CASE x \in Messages
  <2>1. n \in Entries /\ Rewritten(x) = Append(s, n)
    BY <1>3 DEF Entries, Rewritten
  <2>2. /\ Append(s, n) \in Seq(Entries) /\ Len(Append(s, n)) = Len(s) + 1
        /\ DOMAIN Append(s, n) = 1..(Len(s) + 1)
        /\ \A i \in DOMAIN s : Append(s, n)[i] = s[i]
        /\ Append(s, n)[Len(s) + 1] = n
    <3>1. /\ Append(s, n) \in Seq(Entries) /\ Len(Append(s, n)) = Len(s) + 1
          /\ \A i \in 1..Len(s) : Append(s, n)[i] = s[i]
          /\ Append(s, n)[Len(s) + 1] = n
      BY <1>1, <2>1, AppendProperties
    <3>2. DOMAIN Append(s, n) = 1..Len(Append(s, n))
      BY <3>1, LenProperties
    <3> QED BY <1>2, <3>1, <3>2
  <2>3. \A i \in DOMAIN Append(s, n) : i \in DOMAIN s \/ i = Len(s) + 1
    BY <1>2, <2>2
  <2>4. Extends(s, Rewritten(x))
    BY <1>2, <2>1, <2>2 DEF Extends
  <2>5. \A e \in Range(Append(s, n)) : e = n \/ e \in Range(s)
    BY <2>2, <2>3 DEF Range
  <2> QED BY <1>3, <2>1, <2>2, <2>4, <2>5
<1>4. CASE x \in Readers
  <2> DEFINE m(i) == [msg |-> s[i].msg, read |-> s[i].read \/ Marks(x, s[i])]
             t == [i \in DOMAIN s |-> m(i)]
  <2>1. x \notin Messages
    BY <1>4, MailboxAssumption
  <2>2. ASSUME NEW i \in DOMAIN s
        PROVE  [s[i] EXCEPT !.read = @ \/ Marks(x, s[i])] = m(i) /\ m(i) \in Entries
    <3>1. m(i) \in Entries
      BY <1>2 DEF Entries
    <3>2. [s[i] EXCEPT !.read = @ \/ Marks(x, s[i])] = m(i)
      BY <1>2, MarkedEntry
    <3> QED BY <3>1, <3>2
  <2>3. Rewritten(x) = t
    BY <2>1, <2>2 DEF Rewritten
  <2>4. t \in Seq(Entries) /\ Len(t) = Len(s) /\ DOMAIN t = DOMAIN s
    <3>1. t \in [1..Len(s) -> Entries]
      BY <1>2, <2>2
    <3> HIDE DEF t
    <3>2. DOMAIN t = 1..Len(s)
      BY <3>1
    <3>3. t \in Seq(Entries)
      BY <1>2, <3>1, SeqDef
    <3>4. Len(t) = Len(s)
      BY <1>2, <3>2, <3>3, LenProperties
    <3> QED BY <1>2, <3>2, <3>3, <3>4
  <2>5. Extends(s, t)
    <3>1. \A i \in DOMAIN s : s[i].msg = t[i].msg /\ (s[i].read => t[i].read)
      OBVIOUS
    <3> HIDE DEF t
    <3> QED BY <1>2, <2>4, <3>1 DEF Extends
  <2>6. ASSUME NEW e \in Range(t)
        PROVE  \E d \in Range(s) :
                  e.msg = d.msg /\ (e.read => d.read \/ (x \in Readers /\ Marks(x, d)))
    <3>1. PICK i \in DOMAIN s : e = m(i)
      BY <2>4, <2>6 DEF Range
    <3>2. s[i] \in Range(s)
      BY DEF Range
    <3> QED BY <1>4, <3>1, <3>2
  <2> HIDE DEF t
  <2> QED BY <2>3, <2>4, <2>5, <2>6
<1> QED BY <1>3, <1>4 DEF Parties

\* The file lands.  What a sender adds is late for a reader that waits for the lock;
\* what a reader marks was dealt with when it began to wait.
LEMMA LandInv ==
  ASSUME MailboxInv, NEW x \in Parties, Land(x)
  PROVE  MailboxInv'
<1> USE DEF Parties, Points
<1>1. /\ stage[x] = "writing" /\ Settles(x)
      /\ form' = "text" /\ file' = Rewritten(x) /\ kept' = Rewritten(x)
      /\ lock' = Nobody /\ base' = [base EXCEPT ![x] = << >>]
      /\ late \subseteq late' /\ late' \subseteq Messages /\ UNCHANGED deaths
  BY DEF Land, MailboxInv, MailboxTypeOK
<1>2. Settled(x)
  BY <1>1, SettlesInv DEF MailboxInv
<1> USE <1>2 DEF Settled
<1>3. MailboxTypeOK'
  <2>1. Rewritten(x) \in Seq(Entries) /\ base' \in [Messages \cup Readers -> Seq(Entries)]
    BY <1>1, RewrittenEntries, EmptySeq DEF MailboxInv, MailboxTypeOK
  <2> QED BY <1>1, <2>1 DEF MailboxInv, MailboxTypeOK, Entries
<1>4. /\ \A y \in Parties \ {x} : stage[y] \notin {"holding", "writing"}
      /\ \A y \in Parties : stage'[y] \notin {"holding", "writing"}
  BY <1>1, OneWriter DEF MailboxInv
<1>5. Mutex' /\ File'
  BY <1>1, <1>4 DEF Mutex, File
<1>6. Dealt'
  <2> SUFFICES ASSUME NEW e \in Entries, Stored(e)'
               PROVE  /\ e.read => Covered(e.msg)'
                      /\ Changing(Poller)' => Covered(e.msg)'
                      /\ Changing(Attacher)' => e.msg \in Structured \/ Covered(e.msg)'
    BY DEF Dealt
  <2>1. e \in Range(Rewritten(x))
    BY <1>1, <1>4 DEF Stored
  <2>2. CASE x \in Messages /\ e = [msg |-> x, read |-> FALSE]
    <3>1. e.msg = x /\ ~e.read
      BY <2>2
    <3>2. ASSUME NEW r \in Readers, Changing(r)'
          PROVE  Covered(x)'
      <4>1. Changing(r) /\ r # x
        BY <3>2
      <4>2. stage[r] = "locking"
        BY <1>4, <4>1 DEF Changing
      <4>3. x \in late'
        BY <2>2, <4>2 DEF Land
      <4> QED BY <4>3 DEF Covered
    <3> QED BY <3>1, <3>2 DEF Readers
  <2>3. CASE \E d \in Range(base[x]) :
                e.msg = d.msg /\ (e.read => d.read \/ (x \in Readers /\ Marks(x, d)))
    <3>1. PICK d \in Range(base[x]) :
                e.msg = d.msg /\ (e.read => d.read \/ (x \in Readers /\ Marks(x, d)))
      BY <2>3
    <3>2. d \in Entries /\ Stored(d) /\ d.msg \in Messages
      <4>1. base[x] \in Seq(Entries)
        BY DEF MailboxInv, MailboxTypeOK
      <4>2. d \in Entries
        BY <4>1, LenProperties DEF Range
      <4> QED BY <1>1, <4>2 DEF Stored, Entries
    <3>3. /\ d.read => Covered(d.msg)'
          /\ Changing(Poller) => Covered(d.msg)'
          /\ Changing(Attacher) => d.msg \in Structured \/ Covered(d.msg)'
      BY <3>2 DEF MailboxInv, Dealt
    <3>4. x \in Readers /\ Marks(x, d) => Covered(d.msg)'
      <4>1. CASE x = Poller
        BY <1>1, <3>3, <4>1 DEF Changing
      <4>2. CASE x = Attacher
        BY <1>1, <3>3, <4>2 DEF Changing, Marks, Poller, Attacher
      <4> QED BY <4>1, <4>2 DEF Readers
    <3>5. /\ Changing(Poller)' => Changing(Poller)
          /\ Changing(Attacher)' => Changing(Attacher)
      BY DEF Readers
    <3> QED BY <3>1, <3>3, <3>4, <3>5
  <2> QED BY <2>1, <2>2, <2>3, RewrittenEntries DEF MailboxInv
<1> QED BY <1>3, <1>5, <1>6 DEF MailboxInv

-----------------------------------------------------------------------------
(* The senders.                                                             *)

\* The inbox is there, or is created empty.
LEMMA SendInv ==
  ASSUME MailboxInv, NEW m \in Messages, Send(m)
  PROVE  MailboxInv'
<1> USE DEF Parties, Points
<1>1. /\ \/ form = "absent" /\ Moves(m, "off", "creating") /\ form' = "blank"
         \/ Moves(m, "off", "locking") /\ UNCHANGED form
      /\ UNCHANGED <<file, lock, base, batch, session, kept, late, deaths>>
  BY DEF Send
<1>2. /\ stage' \in Points /\ stage[m] = "off" /\ stage'[m] \in {"creating", "locking"}
      /\ \A y \in Parties \ {m} : stage'[y] = stage[y]
  BY <1>1, GoesType DEF MailboxInv
<1>3. MailboxTypeOK'
  BY <1>1, <1>2 DEF MailboxInv, MailboxTypeOK, session, Entries
<1>4. Mutex' /\ File'
  BY <1>1, <1>2 DEF MailboxInv, Mutex, File
<1>5. \A r \in Readers : stage'[r] = stage[r]
  BY <1>2, MailboxAssumption
<1>6. Session'
  BY <1>1, <1>5 DEF MailboxInv, Session, Changing, Readers
<1>7. Dealt'
  <2>1. \A e \in Entries : Stored(e)' => Stored(e)
    BY <1>1, <1>2 DEF Stored
  <2>2. \A k \in Messages : Covered(k) => Covered(k)'
    BY <1>1 DEF Covered, Seen, session
  <2>3. \A r \in Readers : Changing(r)' => Changing(r)
    BY <1>5 DEF Changing
  <2> QED BY <2>1, <2>2, <2>3, DealtStays DEF MailboxInv
<1> QED BY <1>3, <1>4, <1>6, <1>7 DEF MailboxInv

\* The '[]' of the first sender: what it falls upon is torn.
LEMMA CreateInv ==
  ASSUME MailboxInv, NEW m \in Messages, Create(m)
  PROVE  MailboxInv'
<1> USE DEF Parties, Points
<1>1. /\ Moves(m, "creating", "locking")
      /\ \/ file = << >> /\ form' = "text" /\ kept' = kept
         \/ form' = "mangled" /\ kept' = << >>
      /\ file' = << >>
      /\ UNCHANGED <<lock, base, batch, session, late, deaths>>
  BY DEF Create
<1>2. /\ stage' \in Points /\ stage[m] = "creating" /\ stage'[m] = "locking"
      /\ \A y \in Parties \ {m} : stage'[y] = stage[y]
  BY <1>1, GoesType DEF MailboxInv
<1>3. << >> \in Seq(Entries) /\ Range(<< >>) = {}
  BY EmptySeq DEF Range
<1>4. MailboxTypeOK'
  BY <1>1, <1>2, <1>3 DEF MailboxInv, MailboxTypeOK, session, Entries
<1>5. Mutex'
  BY <1>1, <1>2 DEF MailboxInv, Mutex
<1>6. File'
  BY <1>1, <1>2 DEF MailboxInv, File
<1>7. \A r \in Readers : stage'[r] = stage[r]
  BY <1>2, MailboxAssumption
<1>8. Session'
  BY <1>1, <1>7 DEF MailboxInv, Session, Changing, Readers
<1>9. Dealt'
  <2>1. \A e \in Entries : Stored(e)' => Stored(e)
    BY <1>1, <1>2, <1>3 DEF Stored
  <2>2. \A k \in Messages : Covered(k) => Covered(k)'
    BY <1>1 DEF Covered, Seen, session
  <2>3. \A r \in Readers : Changing(r)' => Changing(r)
    BY <1>7 DEF Changing
  <2> QED BY <2>1, <2>2, <2>3, DealtStays DEF MailboxInv
<1> QED BY <1>4, <1>5, <1>6, <1>8, <1>9 DEF MailboxInv

\* The process of a sender dies, and tears the file that it was writing.
LEMMA DieInv ==
  ASSUME MailboxInv, NEW m \in Messages, Die(m)
  PROVE  MailboxInv'
<1> USE DEF Parties, Points
<1>1. /\ deaths < MaxDeaths /\ deaths' = deaths + 1
      /\ stage[m] \in {"creating", "holding", "writing"}
      /\ stage' = [stage EXCEPT ![m] = "dead"]
      /\ kept' = IF stage[m] = "writing" THEN << >> ELSE kept
      /\ UNCHANGED <<form, file, lock, base, batch, session, late>>
  BY DEF Die
<1>2. /\ stage' \in Points /\ stage'[m] = "dead" /\ \A y \in Parties \ {m} : stage'[y] = stage[y]
  BY <1>1 DEF MailboxInv, MailboxTypeOK
<1>3. << >> \in Seq(Entries) /\ Range(<< >>) = {}
  BY EmptySeq DEF Range
<1>4. MailboxTypeOK'
  <2>1. deaths' \in 0..MaxDeaths
    BY <1>1, MailboxAssumption DEF MailboxInv, MailboxTypeOK
  <2> QED BY <1>1, <1>2, <1>3, <2>1 DEF MailboxInv, MailboxTypeOK, session, Entries
<1>5. Mutex'
  BY <1>1, <1>2 DEF MailboxInv, Mutex
<1>6. File'
  <2>1. CASE stage[m] = "writing"
    <3>1. \A y \in Parties \ {m} : stage[y] # "writing"
      BY <2>1, OneWriter DEF MailboxInv
    <3> QED BY <1>1, <1>2, <2>1, <3>1 DEF MailboxInv, File
  <2>2. CASE stage[m] # "writing"
    BY <1>1, <1>2, <2>2 DEF MailboxInv, File
  <2> QED BY <2>1, <2>2
<1>7. \A r \in Readers : stage'[r] = stage[r]
  BY <1>2, MailboxAssumption
<1>8. Session'
  BY <1>1, <1>7 DEF MailboxInv, Session, Changing, Readers
<1>9. Dealt'
  <2>1. \A e \in Entries : Stored(e)' => Stored(e)
    BY <1>1, <1>2, <1>3 DEF Stored
  <2>2. \A k \in Messages : Covered(k) => Covered(k)'
    BY <1>1 DEF Covered, Seen, session
  <2>3. \A r \in Readers : Changing(r)' => Changing(r)
    BY <1>7 DEF Changing
  <2> QED BY <2>1, <2>2, <2>3, DealtStays DEF MailboxInv
<1> QED BY <1>4, <1>5, <1>6, <1>8, <1>9 DEF MailboxInv

\* A lock that goes stale is held by nobody who would still write.
LEMMA LockGoesStaleInv == MailboxInv /\ LockIsFreed => MailboxInv'
<1> SUFFICES ASSUME MailboxInv, LockIsFreed PROVE MailboxInv'
  OBVIOUS
<1> USE DEF Parties, Points
<1>1. /\ lock \in Messages /\ stage[lock] = "dead" /\ lock' = Nobody
      /\ UNCHANGED <<form, file, stage, base, batch, session, kept, late, deaths>>
  BY DEF LockIsFreed
<1>2. MailboxTypeOK'
  BY <1>1 DEF MailboxInv, MailboxTypeOK, session, Entries
<1>3. Mutex'
  BY <1>1 DEF MailboxInv, Mutex
<1>4. File' /\ Session'
  BY <1>1 DEF MailboxInv, File, Session, Changing
<1>5. Dealt'
  BY <1>1 DEF MailboxInv, Dealt, Stored, Covered, Seen, Changing, session
<1> QED BY <1>2, <1>3, <1>4, <1>5 DEF MailboxInv

-----------------------------------------------------------------------------
(* The session.                                                             *)

\* What a reader takes from the file are messages; and who finds any finds all that
\* is stored, for nobody is writing.
LEMMA UnreadIsStored ==
  ASSUME MailboxInv
  PROVE  /\ Unread(Content) \subseteq Messages
         /\ Unread(Content) # {} =>
               \A e \in Entries : Stored(e) => e.read \/ e.msg \in Unread(Content)
<1> USE DEF Parties
<1>1. Content \in Seq(Entries)
  BY EmptySeq DEF MailboxInv, MailboxTypeOK, Content
<1>2. Unread(Content) \subseteq Messages
  <2>1. Range(Content) \subseteq Entries
    BY <1>1, LenProperties DEF Range
  <2> QED BY <2>1 DEF Unread, Entries
<1>3. ASSUME Unread(Content) # {}, NEW e \in Entries, Stored(e), ~e.read
      PROVE  e.msg \in Unread(Content)
  <2>1. Content # << >>
    BY <1>3 DEF Unread, Range
  <2>2. Content = kept /\ \A y \in Parties : stage[y] # "writing"
    BY <2>1, WritingIsEmpty, ContentIsKept DEF MailboxInv
  <2>3. e \in Range(Content)
    BY <1>3, <2>2 DEF Stored
  <2> QED BY <1>3, <2>3 DEF Unread
<1> QED BY <1>2, <1>3

\* The poller has dealt with all that is stored when it goes for the lock.
LEMMA PollInv == MailboxInv /\ Poll => MailboxInv'
<1> SUFFICES ASSUME MailboxInv, Poll PROVE MailboxInv'
  OBVIOUS
<1> USE DEF Parties, Points
<1> DEFINE S == Unread(Content)
<1>1. /\ Moves(Poller, "off", "locking") /\ S # {}
      /\ batch' = [batch EXCEPT ![Poller] = S]
      /\ routed' = routed \cup (S \cap Structured)
      /\ Deliver(Regular(S))
      /\ UNCHANGED <<form, file, lock, base, snapshot, kept, late, deaths>>
  BY DEF Poll
<1>2. /\ S \subseteq Messages
      /\ \A e \in Entries : Stored(e) => e.read \/ e.msg \in S
  BY <1>1, UnreadIsStored
<1> HIDE DEF S
<1>3. /\ stage' \in Points /\ stage[Poller] = "off" /\ stage'[Poller] = "locking"
      /\ \A y \in Parties \ {Poller} : stage'[y] = stage[y]
  BY <1>1, GoesType DEF MailboxInv, Readers
<1>4. /\ shown \subseteq shown' /\ queued \subseteq queued' /\ routed \subseteq routed'
      /\ S \subseteq shown' \cup queued' \cup routed'
      /\ {shown, queued}' \subseteq SUBSET (Messages \ Structured)
      /\ routed' \subseteq Structured /\ busy' \in BOOLEAN
  <2>1. routed \subseteq routed' /\ routed' \subseteq Structured /\ S \cap Structured \subseteq routed'
    BY <1>1 DEF MailboxInv, MailboxTypeOK
  <2>2. /\ shown \subseteq shown' /\ queued \subseteq queued'
        /\ S \ Structured \subseteq shown' \cup queued'
        /\ shown' \cup queued' \subseteq shown \cup queued \cup (S \ Structured)
        /\ busy' \in BOOLEAN
    BY <1>1 DEF Deliver, Regular, MailboxInv, MailboxTypeOK
  <2>3. shown \cup queued \subseteq Messages \ Structured
    BY DEF MailboxInv, MailboxTypeOK
  <2> QED BY <1>2, <2>1, <2>2, <2>3
<1>5. batch' \in [Readers -> SUBSET Messages] /\ batch'[Attacher] = batch[Attacher]
  BY <1>1, <1>2 DEF MailboxInv, MailboxTypeOK, Poller, Attacher, Readers
<1>6. MailboxTypeOK'
  BY <1>1, <1>3, <1>4, <1>5 DEF MailboxInv, MailboxTypeOK, Entries
<1>7. Mutex' /\ File'
  BY <1>1, <1>3 DEF MailboxInv, Mutex, File
<1>8. stage'[Attacher] = stage[Attacher]
  BY <1>3 DEF Readers, Poller, Attacher
<1>9. Session'
  BY <1>3, <1>5, <1>8 DEF MailboxInv, Session, Changing, Readers
<1>10. Dealt'
  <2>1. \A e \in Entries : Stored(e)' => Stored(e)
    BY <1>1, <1>3 DEF Stored
  <2>2. \A m \in Messages : Covered(m) \/ m \in S => Covered(m)'
    BY <1>1, <1>4, <1>5 DEF Covered, Seen
  <2>3. Changing(Attacher)' => Changing(Attacher)
    BY <1>8 DEF Changing
  <2>4. ASSUME NEW e \in Entries, Stored(e)
        PROVE  Covered(e.msg)'
    <3>1. e.msg \in Messages /\ (e.msg \in S \/ Covered(e.msg))
      BY <1>2, <2>4 DEF MailboxInv, Dealt, Entries
    <3> QED BY <2>2, <3>1
  <2> QED BY <2>1, <2>4 DEF Dealt
<1> QED BY <1>6, <1>7, <1>9, <1>10 DEF MailboxInv

\* A turn starts or ends, what is pending is delivered, or the attachments of a turn
\* are begun.
LEMMA SessionInv ==
  ASSUME MailboxInv, TurnStarts \/ TurnEnds \/ DeliverQueued \/ AttachStarts
  PROVE  MailboxInv'
<1> USE DEF Parties, Points
<1>1. /\ UNCHANGED <<form, file, lock, base, batch, routed, kept, late, deaths>>
      /\ busy' \in BOOLEAN
      /\ {shown, queued, snapshot}' \subseteq SUBSET (Messages \ Structured)
      /\ shown \cup queued \subseteq shown' \cup queued'
  BY DEF TurnStarts, TurnEnds, DeliverQueued, AttachStarts, MailboxInv, MailboxTypeOK
<1>2. \/ stage' = stage
      \/ Moves(Attacher, "off", "reading")
  BY DEF TurnStarts, TurnEnds, DeliverQueued, AttachStarts
<1>3. /\ stage' \in Points
      /\ \A y \in Parties : stage'[y] # stage[y] => y = Attacher /\ stage[y] = "off" /\ stage'[y] = "reading"
  BY <1>2, GoesType DEF MailboxInv, MailboxTypeOK, Readers
<1>4. MailboxTypeOK'
  BY <1>1, <1>3 DEF MailboxInv, MailboxTypeOK, Entries
<1>5. Mutex' /\ File'
  BY <1>1, <1>3 DEF MailboxInv, Mutex, File
<1>6. Session'
  BY <1>1, <1>3 DEF MailboxInv, Session, Changing, Readers, Poller, Attacher
<1>7. Dealt'
  <2>1. \A e \in Entries : Stored(e)' => Stored(e)
    BY <1>1, <1>3 DEF Stored
  <2>2. \A m \in Messages : Covered(m) => Covered(m)'
    BY <1>1 DEF Covered, Seen
  <2>3. \A r \in Readers : Changing(r)' => Changing(r)
    BY <1>3 DEF Changing
  <2> QED BY <2>1, <2>2, <2>3, DealtStays DEF MailboxInv
<1> QED BY <1>4, <1>5, <1>6, <1>7 DEF MailboxInv

\* The attachments take what is unread into their batch, the protocol's messages
\* excepted, or are ready.
LEMMA AttachReadsInv == MailboxInv /\ AttachReads => MailboxInv'
<1> SUFFICES ASSUME MailboxInv, AttachReads PROVE MailboxInv'
  OBVIOUS
<1> USE DEF Parties, Points
<1> DEFINE S == Unread(Content)
<1>1. stage[Attacher] = "reading" /\ UNCHANGED <<form, file, lock, base, kept, late, deaths>>
  BY DEF AttachReads
<1>2. CASE Regular(S) = {}
  <2>1. Settles(Attacher)
    BY <1>2 DEF AttachReads
  <2>2. Settled(Attacher)
    BY <1>1, <2>1, SettlesInv DEF MailboxInv, Readers
  <2> USE <2>2 DEF Settled
  <2>3. MailboxTypeOK'
    BY <1>1 DEF MailboxInv, MailboxTypeOK, Entries
  <2>4. Mutex' /\ File'
    BY <1>1 DEF MailboxInv, Mutex, File
  <2>5. Dealt'
    <3>1. \A e \in Entries : Stored(e)' => Stored(e)
      BY <1>1 DEF Stored
    <3> QED BY <3>1, DealtStays DEF MailboxInv
  <2> QED BY <2>3, <2>4, <2>5 DEF MailboxInv
<1>3. CASE Regular(S) # {}
  <2>1. /\ stage' = [stage EXCEPT ![Attacher] = "locking"]
        /\ batch' = [batch EXCEPT ![Attacher] = Regular(S)]
        /\ UNCHANGED session
    BY <1>3 DEF AttachReads
  <2>2. /\ S \subseteq Messages /\ Regular(S) = S \ Structured
        /\ \A e \in Entries : Stored(e) => e.read \/ e.msg \in S
    BY <1>3, UnreadIsStored DEF Regular
  <2> HIDE DEF S
  <2>3. /\ stage' \in Points /\ stage'[Attacher] = "locking"
        /\ \A y \in Parties \ {Attacher} : stage'[y] = stage[y]
    BY <2>1 DEF MailboxInv, MailboxTypeOK, Readers
  <2>4. /\ batch' \in [Readers -> SUBSET Messages]
        /\ batch'[Attacher] = S \ Structured /\ batch[Attacher] = {}
    BY <1>1, <2>1, <2>2 DEF MailboxInv, MailboxTypeOK, Session, Changing, Readers
  <2>5. MailboxTypeOK'
    BY <1>1, <2>1, <2>3, <2>4 DEF MailboxInv, MailboxTypeOK, session, Entries
  <2>6. Mutex' /\ File'
    BY <1>1, <2>3 DEF MailboxInv, Mutex, File
  <2>7. stage'[Poller] = stage[Poller]
    BY <2>3 DEF Readers, Poller, Attacher
  <2>8. Session'
    BY <2>2, <2>3, <2>4, <2>7 DEF MailboxInv, Session, Changing, Readers
  <2>9. Dealt'
    <3>1. \A e \in Entries : Stored(e)' => Stored(e)
      BY <1>1, <2>3 DEF Stored
    <3>2. \A m \in Messages : Covered(m) \/ m \in S \ Structured => Covered(m)'
      BY <1>1, <2>1, <2>4 DEF Covered, Seen, session
    <3>3. Changing(Poller)' => Changing(Poller)
      BY <2>7 DEF Changing
    <3> SUFFICES ASSUME NEW e \in Entries, Stored(e)
                 PROVE  /\ e.read => Covered(e.msg)'
                        /\ Changing(Poller)' => Covered(e.msg)'
                        /\ e.msg \in Structured \/ Covered(e.msg)'
      BY <3>1 DEF Dealt
    <3>4. /\ e.msg \in Messages /\ (e.read \/ e.msg \in S)
          /\ e.read => Covered(e.msg)
          /\ Changing(Poller) => Covered(e.msg)
      BY <2>2 DEF MailboxInv, Dealt, Entries
    <3> QED BY <3>2, <3>3, <3>4
  <2> QED BY <2>5, <2>6, <2>8, <2>9 DEF MailboxInv
<1> QED BY <1>2, <1>3

-----------------------------------------------------------------------------
(* The theorems.                                                           *)

\* Every step keeps the invariant.
LEMMA Inductive == MailboxInv /\ [MailboxNext]_mailboxVars => MailboxInv'
<1> SUFFICES ASSUME MailboxInv, [MailboxNext]_mailboxVars PROVE MailboxInv'
  OBVIOUS
<1>1. ASSUME NEW m \in Messages, Send(m) \/ Create(m) \/ Die(m)
      PROVE  MailboxInv'
  BY <1>1, SendInv, CreateInv, DieInv
<1>2. ASSUME NEW x \in Messages \cup Readers, ChangesFile(x)
      PROVE  MailboxInv'
  BY <1>2, LockInv, LockFailsInv, TruncateInv, LandInv DEF ChangesFile, Parties
<1>3. ASSUME NEW r \in Readers, NothingToMark(r)
      PROVE  MailboxInv'
  BY <1>3, NothingToMarkInv
<1>4. CASE LockIsFreed \/ Poll \/ TurnStarts \/ TurnEnds \/ DeliverQueued
           \/ AttachStarts \/ AttachReads
  BY <1>4, LockGoesStaleInv, PollInv, SessionInv, AttachReadsInv
<1>5. CASE UNCHANGED mailboxVars
  BY <1>5 DEF mailboxVars, session, MailboxInv, MailboxTypeOK, Mutex, File, Session, Dealt, Stored, Covered,
              Seen, Changing, Entries
<1> QED BY <1>1, <1>2, <1>3, <1>4, <1>5 DEF MailboxNext

\* The inductive invariant holds in every state.
THEOREM MailboxInvHolds == MailboxSpec => []MailboxInv
BY InitInv, Inductive, PTL DEF MailboxSpec

\* What is marked in the file was seen, unless it was delivered while a reader was
\* between readMailbox() and markMessagesAsRead().
THEOREM LostOnlyInTheWindowHolds == MailboxSpec => []LostOnlyInTheWindow
<1>1. MailboxInv => LostOnlyInTheWindow
  <2> SUFFICES ASSUME MailboxInv, NEW e \in Range(file), e.read
               PROVE  Seen(e.msg) \/ e.msg \in late \/ e.msg \in batch[Attacher]
    BY DEF MailboxInv, LostOnlyInTheWindow
  <2>1. e \in Entries
    BY LenProperties DEF MailboxInv, MailboxTypeOK, Range
  <2>2. file # << >>
    BY DEF Range
  <2>3. kept = file
    BY <2>2 DEF MailboxInv, File
  <2> QED BY <2>1, <2>3 DEF MailboxInv, Dealt, Stored, Covered
<1> QED BY <1>1, MailboxInvHolds, PTL

\* What writeToMailbox() and the marking of the readers write over the file keeps every
\* message and every mark: only a torn file loses any.
THEOREM NothingIsOverwrittenHolds == MailboxSpec => NothingIsOverwritten
<1>1. MailboxInv /\ [MailboxNext]_mailboxVars => (kept' # kept => kept' = << >> \/ Extends(kept, kept'))
  <2> SUFFICES ASSUME MailboxInv, [MailboxNext]_mailboxVars, kept' # kept
               PROVE  kept' = << >> \/ Extends(kept, kept')
    OBVIOUS
  <2>1. \/ \E m \in Messages : Create(m) \/ Die(m)
        \/ \E x \in Parties : Land(x)
    BY DEF MailboxNext, mailboxVars, Parties, ChangesFile, Send, Lock, GivesUp, Truncate, NothingToMark,
           LockIsFreed, Poll, TurnStarts, TurnEnds, DeliverQueued, AttachStarts, AttachReads
  <2>2. ASSUME NEW m \in Messages, Create(m) \/ Die(m)
        PROVE  kept' = << >>
    BY <2>2 DEF Create, Die
  <2>3. ASSUME NEW x \in Parties, Land(x)
        PROVE  Extends(kept, kept')
    <3>1. stage[x] = "writing" /\ kept' = Rewritten(x)
      BY <2>3 DEF Land
    <3>2. Extends(base[x], Rewritten(x)) /\ Rewritten(x) \in Seq(Entries)
      BY RewrittenEntries DEF MailboxInv
    <3>3. CASE kept = base[x]
      BY <3>1, <3>2, <3>3
    <3>4. CASE kept = << >>
      BY <3>1, <3>2, <3>4, LenProperties DEF Extends
    <3> QED BY <3>1, <3>3, <3>4 DEF MailboxInv, File
  <2> QED BY <2>1, <2>2, <2>3
<1> QED BY <1>1, MailboxInvHolds, PTL DEF MailboxSpec, NothingIsOverwritten
===============================================================================
