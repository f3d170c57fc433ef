---------------------------- MODULE TenantProofs -----------------------------
(***************************************************************************)
(* Theorems about what a tenant owns: DocumentIntake, its documents,       *)
(* Identity, its users, RiskProfiles, what it is told of risks, and        *)
(* ReadModels, the lists it reads, for every number of tenants, contents,  *)
(* uploads, clients, signals, rows, readers and faults.                    *)
(*                                                                         *)
(* Files and rows are written by different stores; what holds them         *)
(* together is the id an upload draws first.  No other upload and no row   *)
(* has it, so that the file an upload removes is never that of a document, *)
(* and a file found whole before the commit is still there after it.  That *)
(* a tenant is told one document per content rests on the unique key of    *)
(* the rows: the answer names a row, and rows of a tenant stay.            *)
(*                                                                         *)
(* Users stay as well: so a session is for ever that of a user with the    *)
(* role it had, and the tenant into which an administrator adds a user has *)
(* that administrator when the user is inserted.  An attempt to sign in is *)
(* let in below the limit and counts, until it fails, as one under way; so *)
(* the failures of a window and the attempts under way are fewer than the  *)
(* limit and one for each client (LockInv).                                *)
(*                                                                         *)
(* A risk profile is made of the signals loaded; those of a day that had   *)
(* passed are all there are but the ones committed since, and a row once   *)
(* stored is the only one of its entity and day (RiskInv).  A score is a   *)
(* sum of natural numbers over the signals, cut off at 100, and so grows   *)
(* with them.                                                              *)
(*                                                                         *)
(* A reader of pages has read exactly the rows before its cursor, in the   *)
(* order of the list, and nothing is added before a cursor of the order in *)
(* which rows arrive (CursorInv).                                          *)
(***************************************************************************)
EXTENDS DocumentIntake, Identity, RiskProfiles, ReadModels, FiniteLemmas

-----------------------------------------------------------------------------
(* Intake: the inductive invariant.                                        *)

Phases == {"save", "commit", "undo", "raise"}

UploadState == {Free} \union [pc : Phases, tenant : Tenants, row : Document]

Owner == Tenants \union {NoTenant}

IntakeTypes ==
    /\ rows \subseteq Document
    /\ targets \subseteq [target : Targets, tenant : Owner]
    /\ files \subseteq [id : Nat, whole : BOOLEAN]
    /\ upload \in [Uploads -> UploadState]
    /\ told \subseteq [tenant : Tenants, content : Contents, id : Nat]
    /\ ids \in Nat /\ leftover \subseteq 1..ids

\* Each record to associate with is there once.
TargetsStay ==
    /\ \A g \in Targets : \E t \in targets : t.target = g
    /\ \A s, t \in targets : s.target = t.target => s = t

\* The id of an upload is its own, its file waits for the commit, and what it
\* refers to is its tenant's.
UploadsInv ==
    \A u \in Uploads : upload[u] # Free =>
        /\ upload[u].row.tenant = NoTenant
        /\ upload[u].row.id \in 1..ids
        /\ \A d \in rows : d.id # upload[u].row.id
        /\ \A v \in Uploads : v # u /\ upload[v] # Free => upload[v].row.id # upload[u].row.id
        /\ upload[u].pc = "commit" => [id |-> upload[u].row.id, whole |-> TRUE] \in files
        /\ \A t \in targets : t.target = upload[u].row.target => t.tenant = upload[u].tenant

OneRowPerKey ==
    \A d, e \in rows : d.tenant # NoTenant /\ d.tenant = e.tenant /\ d.content = e.content => d = e

RowsInv ==
    /\ \A d \in rows : d.id \in 0..ids
    /\ \A d, e \in rows : d.id = e.id => d = e
    /\ \A d \in rows : [id |-> d.id, whole |-> TRUE] \in files
    /\ \A d \in rows : \A t \in targets : t.target = d.target => t.tenant = d.tenant

\* Every file is accounted for.
FilesInv ==
    \A f \in files : \/ f.id \in leftover
                     \/ \E d \in rows : d.id = f.id
                     \/ \E u \in Uploads : upload[u] # Free /\ upload[u].row.id = f.id

ToldInv ==
    \A a \in told : \E d \in rows : d.id = a.id /\ d.tenant = a.tenant /\ d.content = a.content

IntakeInv ==
    /\ IntakeTypes /\ TargetsStay /\ UploadsInv /\ OneRowPerKey /\ RowsInv /\ FilesInv /\ ToldInv

-----------------------------------------------------------------------------
(* Intake: what the operators of the session hooks do.                     *)

\* A stamped row has a tenant, and keeps all else.
LEMMA StampGivesTenant ==
    ASSUME NEW t \in Tenants, NEW d \in Document
    PROVE  /\ Stamped(t, d) \in Document
           /\ Stamped(t, d).tenant \in Tenants
           /\ d.tenant # NoTenant => Stamped(t, d) = d
           /\ d.tenant = NoTenant => Stamped(t, d).tenant = t
           /\ Stamped(t, d).id = d.id
           /\ Stamped(t, d).content = d.content
           /\ Stamped(t, d).target = d.target
BY TenantAssumption DEF Stamped, Document

\* The same of a record to associate with.
LEMMA StampGivesTargetTenant ==
    ASSUME NEW t \in Tenants, NEW g \in [target : Targets, tenant : Owner]
    PROVE  /\ Stamped(t, g) \in [target : Targets, tenant : Owner]
           /\ Stamped(t, g).target = g.target
           /\ g.tenant # NoTenant => Stamped(t, g) = g
           /\ g.tenant = NoTenant => Stamped(t, g).tenant = t
BY TenantAssumption DEF Stamped, Owner

\* A tenant sees its own rows only.
LEMMA SeesOwn ==
    ASSUME NEW t \in Tenants, NEW S, NEW r \in Visible(t, S)
    PROVE  r \in S /\ r.tenant = t
BY TenantAssumption DEF Visible

\* What a request may associate with is of its tenant.
LEMMA AssociatesOwn ==
    ASSUME IntakeTypes, TargetsStay, NEW t \in Tenants, NEW g, MayAssociate(t, g)
    PROVE  /\ g \in Targets \union {NoTarget}
           /\ \A x \in targets : x.target = g => x.tenant = t
<1>1. CASE g = NoTarget
  BY <1>1, IntakeAssumption DEF IntakeTypes
<1>2. CASE g # NoTarget
  <2>1. PICK y \in Visible(t, targets) : y.target = g
    BY <1>2 DEF MayAssociate
  <2>2. y \in targets /\ y.tenant = t
    BY <2>1, SeesOwn
  <2> QED  BY <2>1, <2>2 DEF TargetsStay, IntakeTypes
<1> QED  BY <1>1, <1>2

\* A busy upload carries a row of its tenant's, in a phase.
LEMMA BusyUpload ==
    ASSUME IntakeTypes, NEW u \in Uploads, upload[u] # Free
    PROVE  /\ upload[u] \in [pc : Phases, tenant : Tenants, row : Document]
           /\ upload[u].pc \in Phases /\ upload[u].tenant \in Tenants
           /\ upload[u].row \in Document
BY DEF IntakeTypes, UploadState

\* An upload in a phase is busy.
LEMMA PhaseIsBusy ==
    ASSUME NEW u \in Uploads, upload[u].pc \in Phases
    PROVE  upload[u] # Free
BY DEF Phases, Free

-----------------------------------------------------------------------------
(* Intake: the invariant holds at first.                                   *)

LEMMA IntakeInvInit == IntakeInit => IntakeInv
<1> SUFFICES ASSUME IntakeInit PROVE IntakeInv
  OBVIOUS
<1> USE IntakeAssumption, TenantAssumption DEF IntakeInit
<1> DEFINE d0 == [id |-> 0, tenant |-> NoTenant, content |-> Legacy, target |-> LegacyTarget]
<1>1. rows = {d0} /\ d0 \in Document
  BY DEF Document
<1>2. IntakeTypes
  BY <1>1 DEF IntakeTypes, UploadState, Owner
<1>3. TargetsStay
  <2>1. ASSUME NEW g \in Targets PROVE \E t \in targets : t.target = g
    <3> WITNESS [target |-> g, tenant |-> TargetsOf[g]] \in targets
    <3> QED  OBVIOUS
  <2>2. \A s, t \in targets : s.target = t.target => s = t
    OBVIOUS
  <2> QED  BY <2>1, <2>2 DEF TargetsStay
<1>4. UploadsInv
  BY DEF UploadsInv
<1>5. OneRowPerKey
  BY <1>1 DEF OneRowPerKey
<1>6. RowsInv
  <2>1. \A t \in targets : t.target = LegacyTarget => t.tenant = NoTenant
    OBVIOUS
  <2> QED  BY <1>1, <2>1 DEF RowsInv
<1>7. FilesInv
  BY <1>1 DEF FilesInv
<1>8. ToldInv
  BY DEF ToldInv
<1> QED  BY <1>2, <1>3, <1>4, <1>5, <1>6, <1>7, <1>8 DEF IntakeInv

-----------------------------------------------------------------------------
(* Intake: each action keeps it.                                           *)

\* An upload begins: a document is named that is there and the tenant's, or an id
\* is drawn that nothing has.
LEMMA IntakeInvBegin ==
    ASSUME IntakeInv, NEW u \in Uploads, NEW t \in Tenants, NEW c \in Contents,
           NEW g \in Targets \union {NoTarget}, Begin(u, t, c, g)
    PROVE  IntakeInv'
<1> USE DEF IntakeInv
<1>1. CASE SameContent(t, c) # {}
  <2>1. /\ told' = told \union {[tenant |-> t, content |-> c, id |-> d.id] : d \in SameContent(t, c)}
        /\ UNCHANGED <<rows, targets, files, upload, leftover, ids>>
    BY <1>1 DEF Begin
  <2>2. \A d \in SameContent(t, c) : d \in rows /\ d.tenant = t /\ d.content = c
    BY SeesOwn DEF SameContent
  <2>3. IntakeTypes'
    BY <2>1, <2>2 DEF IntakeTypes, Document
  <2>4. ToldInv'
    BY <2>1, <2>2 DEF ToldInv
  <2>5. TargetsStay' /\ UploadsInv' /\ OneRowPerKey' /\ RowsInv' /\ FilesInv'
    BY <2>1 DEF TargetsStay, UploadsInv, OneRowPerKey, RowsInv, FilesInv
  <2> QED  BY <2>3, <2>4, <2>5
<1>2. CASE SameContent(t, c) = {}
  <2> DEFINE r == [id |-> ids + 1, tenant |-> NoTenant, content |-> c, target |-> g]
             n == [pc |-> "save", tenant |-> t, row |-> r]
  <2>1. /\ upload[u] = Free /\ MayAssociate(t, g)
        /\ ids' = ids + 1
        /\ upload' = [upload EXCEPT ![u] = n]
        /\ UNCHANGED <<rows, targets, files, told, leftover>>
    BY <1>2 DEF Begin
  <2>2. upload'[u] = n /\ n # Free /\ \A v \in Uploads : v # u => upload'[v] = upload[v]
    BY <2>1 DEF IntakeTypes, Free
  <2>3. n \in UploadState
    BY DEF UploadState, Phases, Document, IntakeTypes
  <2>4. IntakeTypes'
    <3>1. upload' \in [Uploads -> UploadState]
      BY <2>1, <2>3 DEF IntakeTypes
    <3>2. ids' \in Nat /\ leftover' \subseteq 1..ids'
      BY <2>1 DEF IntakeTypes
    <3> QED  BY <2>1, <3>1, <3>2 DEF IntakeTypes
  <2>5. \A x \in targets : x.target = g => x.tenant = t
    BY <2>1, AssociatesOwn
  <2>6. \A d \in rows : d.id \in 0..ids /\ d.id # ids + 1
    BY DEF RowsInv, IntakeTypes
  <2>7. ASSUME NEW v \in Uploads, upload[v] # Free
        PROVE  upload[v].row.id \in 1..ids /\ upload[v].row.id # ids + 1
    <3>1. ids \in Nat
      BY DEF IntakeTypes
    <3>2. upload[v].row.id \in 1..ids
      BY <2>7 DEF UploadsInv
    <3> QED  BY <3>1, <3>2
  <2>8. UploadsInv'
    <3> SUFFICES ASSUME NEW v \in Uploads, upload'[v] # Free
                 PROVE  /\ upload'[v].row.tenant = NoTenant
                        /\ upload'[v].row.id \in 1..ids'
                        /\ \A d \in rows' : d.id # upload'[v].row.id
                        /\ \A w \in Uploads : w # v /\ upload'[w] # Free =>
                              upload'[w].row.id # upload'[v].row.id
                        /\ upload'[v].pc = "commit" =>
                              [id |-> upload'[v].row.id, whole |-> TRUE] \in files'
                        /\ \A x \in targets' : x.target = upload'[v].row.target =>
                              x.tenant = upload'[v].tenant
      BY DEF UploadsInv
    <3>1. CASE v = u
      <4>1. ids + 1 \in 1..ids'
        BY <2>1 DEF IntakeTypes
      <4> QED  BY <3>1, <4>1, <2>1, <2>2, <2>5, <2>6, <2>7
    <3>2. CASE v # u
      <4>1. upload[v].row.id \in 1..ids'
        BY <2>1, <2>2, <2>7, <3>2 DEF IntakeTypes
      <4> QED  BY <3>2, <4>1, <2>1, <2>2, <2>7 DEF UploadsInv
    <3> QED  BY <3>1, <3>2
  <2>9. RowsInv'
    <3>1. \A d \in rows : d.id \in 0..ids'
      BY <2>1, <2>6 DEF IntakeTypes
    <3> QED  BY <2>1, <3>1 DEF RowsInv
  <2>10. FilesInv'
    BY <2>1, <2>2 DEF FilesInv
  <2>11. TargetsStay' /\ OneRowPerKey' /\ ToldInv'
    BY <2>1 DEF TargetsStay, OneRowPerKey, ToldInv
  <2> QED  BY <2>4, <2>8, <2>9, <2>10, <2>11
<1> QED  BY <1>1, <1>2

\* An upload ends, by an answer or a fault: what others have stays theirs.
LEMMA UploadsShrink ==
    ASSUME IntakeInv, NEW u \in Uploads, upload' = [upload EXCEPT ![u] = Free],
           \A d \in rows' : \E e \in rows \union {upload[u].row} : d.id = e.id,
           upload[u] # Free,
           \A f \in files : f.id # upload[u].row.id => f \in files',
           UNCHANGED <<targets, ids>>
    PROVE  UploadsInv' /\ upload' \in [Uploads -> UploadState] /\ TargetsStay'
<1> USE DEF IntakeInv
<1>1. upload'[u] = Free /\ \A v \in Uploads : v # u => upload'[v] = upload[v]
  BY DEF IntakeTypes
<1>2. upload' \in [Uploads -> UploadState]
  BY DEF IntakeTypes, UploadState
<1>3. UploadsInv'
  <2> SUFFICES ASSUME NEW v \in Uploads, upload'[v] # Free
               PROVE  /\ upload'[v].row.tenant = NoTenant
                      /\ upload'[v].row.id \in 1..ids'
                      /\ \A d \in rows' : d.id # upload'[v].row.id
                      /\ \A w \in Uploads : w # v /\ upload'[w] # Free =>
                            upload'[w].row.id # upload'[v].row.id
                      /\ upload'[v].pc = "commit" =>
                            [id |-> upload'[v].row.id, whole |-> TRUE] \in files'
                      /\ \A x \in targets' : x.target = upload'[v].row.target =>
                            x.tenant = upload'[v].tenant
    BY DEF UploadsInv
  <2>1. v # u /\ upload'[v] = upload[v] /\ upload[v] # Free
    BY <1>1
  <2>2. upload[v].row.id # upload[u].row.id
    BY <2>1 DEF UploadsInv
  <2>3. ASSUME NEW d \in rows' PROVE d.id # upload[v].row.id
    <3>1. PICK e \in rows \union {upload[u].row} : d.id = e.id
      OBVIOUS
    <3>2. CASE e \in rows
      BY <2>1, <3>1, <3>2 DEF UploadsInv
    <3>3. CASE e = upload[u].row
      BY <2>2, <3>1, <3>3
    <3> QED  BY <3>2, <3>3
  <2>4. ASSUME NEW w \in Uploads, w # v, upload'[w] # Free
        PROVE  upload'[w].row.id # upload'[v].row.id
    <3>1. upload'[w] = upload[w] /\ upload[w] # Free
      BY <1>1, <2>4
    <3>2. upload[w].row.id # upload[v].row.id
      BY <2>1, <2>4, <3>1 DEF UploadsInv
    <3> QED  BY <2>1, <3>1, <3>2
  <2>5. upload[v].pc = "commit" => [id |-> upload[v].row.id, whole |-> TRUE] \in files'
    BY <2>1, <2>2 DEF UploadsInv
  <2> QED  BY <2>1, <2>3, <2>4, <2>5 DEF UploadsInv
<1> QED  BY <1>2, <1>3 DEF TargetsStay

\* A file is written, whole or in part, under the id of the upload.
LEMMA IntakeInvSave ==
    ASSUME IntakeInv, NEW u \in Uploads, Save(u)
    PROVE  IntakeInv'
<1> USE DEF IntakeInv
<1> DEFINE id == upload[u].row.id
<1>1. upload[u] # Free /\ upload[u].pc = "save" /\ UNCHANGED <<rows, targets, told, ids>>
  BY PhaseIsBusy DEF Save, Phases
<1>2. upload[u].row \in Document /\ id \in 1..ids /\ ids \in Nat /\ id \in Nat
  BY <1>1, BusyUpload DEF UploadsInv, IntakeTypes, Document
<1>3. \A w \in BOOLEAN : files' = files \union {[id |-> id, whole |-> w]} =>
          /\ files' \subseteq [id : Nat, whole : BOOLEAN]
          /\ RowsInv'
  BY <1>1, <1>2 DEF IntakeTypes, RowsInv
<1>4. OneRowPerKey' /\ ToldInv' /\ TargetsStay'
  BY <1>1 DEF OneRowPerKey, ToldInv, TargetsStay
<1>5. CASE /\ files' = files \union {[id |-> id, whole |-> TRUE]}
           /\ upload' = [upload EXCEPT ![u].pc = "commit"]
           /\ UNCHANGED leftover
  <2>1. /\ upload'[u] = [upload[u] EXCEPT !.pc = "commit"]
        /\ upload'[u] # Free /\ upload'[u].row = upload[u].row
        /\ upload'[u].tenant = upload[u].tenant
        /\ upload'[u] \in UploadState
        /\ upload' = [upload EXCEPT ![u] = upload'[u]]
        /\ \A v \in Uploads : v # u => upload'[v] = upload[v]
    <3>1. upload[u] \in [pc : Phases, tenant : Tenants, row : Document]
      BY <1>1, BusyUpload
    <3> QED  BY <1>5, <3>1 DEF IntakeTypes, UploadState, Phases, Free
  <2>2. upload' \in [Uploads -> UploadState]
    BY <1>5, <2>1 DEF IntakeTypes
  <2>3. \A v \in Uploads : (upload'[v] # Free <=> upload[v] # Free) /\
                           (upload[v] # Free => upload'[v].row = upload[v].row
                                             /\ upload'[v].tenant = upload[v].tenant)
    BY <1>1, <2>1
  <2>4. UploadsInv'
    <3> SUFFICES ASSUME NEW v \in Uploads, upload'[v] # Free
                 PROVE  /\ upload'[v].row.tenant = NoTenant
                        /\ upload'[v].row.id \in 1..ids'
                        /\ \A d \in rows' : d.id # upload'[v].row.id
                        /\ \A w \in Uploads : w # v /\ upload'[w] # Free =>
                              upload'[w].row.id # upload'[v].row.id
                        /\ upload'[v].pc = "commit" =>
                              [id |-> upload'[v].row.id, whole |-> TRUE] \in files'
                        /\ \A x \in targets' : x.target = upload'[v].row.target =>
                              x.tenant = upload'[v].tenant
      BY DEF UploadsInv
    <3>1. upload[v] # Free /\ upload'[v].row = upload[v].row /\ upload'[v].tenant = upload[v].tenant
      BY <2>3
    <3>2. ASSUME NEW w \in Uploads, w # v, upload'[w] # Free
          PROVE  upload'[w].row.id # upload'[v].row.id
      <4>1. upload[w] # Free /\ upload'[w].row = upload[w].row
        BY <2>3, <3>2
      <4>2. upload[w].row.id # upload[v].row.id
        BY <3>1, <3>2, <4>1 DEF UploadsInv
      <4> QED  BY <3>1, <4>1, <4>2
    <3>3. upload'[v].pc = "commit" => [id |-> upload'[v].row.id, whole |-> TRUE] \in files'
      <4>1. CASE v = u
        BY <1>5, <3>1, <4>1
      <4>2. CASE v # u
        BY <1>5, <2>1, <3>1, <4>2 DEF UploadsInv
      <4> QED  BY <4>1, <4>2
    <3> QED  BY <1>1, <3>1, <3>2, <3>3 DEF UploadsInv
  <2>5. FilesInv'
    <3> SUFFICES ASSUME NEW f \in files'
                 PROVE  \/ f.id \in leftover
                        \/ \E d \in rows : d.id = f.id
                        \/ \E v \in Uploads : upload'[v] # Free /\ upload'[v].row.id = f.id
      BY <1>1, <1>5 DEF FilesInv
    <3>1. CASE f \in files
      BY <2>3, <3>1 DEF FilesInv
    <3>2. CASE f = [id |-> id, whole |-> TRUE]
      BY <2>1, <3>2
    <3> QED  BY <1>5, <3>1, <3>2
  <2>6. IntakeTypes'
    <3>1. rows' \subseteq Document /\ targets' \subseteq [target : Targets, tenant : Owner]
          /\ told' \subseteq [tenant : Tenants, content : Contents, id : Nat]
          /\ ids' \in Nat /\ leftover' \subseteq 1..ids'
      BY <1>1, <1>5 DEF IntakeTypes
    <3> QED  BY <1>3, <1>5, <2>2, <3>1 DEF IntakeTypes
  <2> QED  BY <1>3, <1>4, <1>5, <2>4, <2>5, <2>6
<1>6. CASE /\ files' = files \union {[id |-> id, whole |-> FALSE]}
           /\ leftover' = leftover \union {id}
           /\ upload' = [upload EXCEPT ![u] = Free]
  <2>1. UploadsInv' /\ upload' \in [Uploads -> UploadState]
    <3>1. \A d \in rows' : \E e \in rows \union {upload[u].row} : d.id = e.id
      BY <1>1
    <3> QED  BY <1>1, <1>6, <3>1, UploadsShrink
  <2>2. \A v \in Uploads : v # u => upload'[v] = upload[v]
    BY <1>6 DEF IntakeTypes
  <2>3. FilesInv'
    <3> SUFFICES ASSUME NEW f \in files'
                 PROVE  \/ f.id \in leftover'
                        \/ \E d \in rows : d.id = f.id
                        \/ \E v \in Uploads : upload'[v] # Free /\ upload'[v].row.id = f.id
      BY <1>1 DEF FilesInv
    <3>1. CASE f.id = id
      BY <1>6, <3>1
    <3>2. CASE f.id # id
      <4>1. f \in files
        BY <1>6, <3>2
      <4> QED  BY <1>6, <2>2, <3>2, <4>1 DEF FilesInv
    <3> QED  BY <3>1, <3>2
  <2>4. IntakeTypes'
    <3>1. rows' \subseteq Document /\ targets' \subseteq [target : Targets, tenant : Owner]
          /\ told' \subseteq [tenant : Tenants, content : Contents, id : Nat]
          /\ ids' \in Nat /\ leftover' \subseteq 1..ids'
      BY <1>1, <1>2, <1>6 DEF IntakeTypes
    <3> QED  BY <1>3, <1>6, <2>1, <3>1 DEF IntakeTypes
  <2> QED  BY <1>3, <1>4, <1>6, <2>1, <2>3, <2>4
<1> QED  BY <1>5, <1>6 DEF Save, NoFault

\* An upload that was refused waits to undo what it did.
LEMMA IntakeInvRefused ==
    ASSUME IntakeInv, NEW u \in Uploads, upload[u] # Free, NEW p \in {"undo", "raise"},
           upload' = [upload EXCEPT ![u].pc = p],
           UNCHANGED <<rows, targets, files, told, leftover, ids>>
    PROVE  IntakeInv'
<1> USE DEF IntakeInv
<1>1. /\ upload'[u] = [upload[u] EXCEPT !.pc = p]
      /\ upload'[u] # Free /\ upload'[u].row = upload[u].row
      /\ upload'[u].tenant = upload[u].tenant /\ upload'[u].pc = p
      /\ upload'[u] \in UploadState
      /\ \A v \in Uploads : v # u => upload'[v] = upload[v]
  <2>1. upload[u] \in [pc : Phases, tenant : Tenants, row : Document]
    BY BusyUpload
  <2> QED  BY <2>1 DEF IntakeTypes, UploadState, Phases, Free
<1>2. upload' \in [Uploads -> UploadState]
  BY <1>1 DEF IntakeTypes
<1>3. \A v \in Uploads : /\ upload'[v] # Free <=> upload[v] # Free
                         /\ upload[v] # Free => upload'[v].row = upload[v].row
                                             /\ upload'[v].tenant = upload[v].tenant
                         /\ upload'[v].pc = "commit" => upload[v].pc = "commit"
  BY <1>1
<1>4. UploadsInv'
  BY <1>3 DEF UploadsInv
<1>5. FilesInv'
  BY <1>3 DEF FilesInv
<1>6. IntakeTypes'
  BY <1>2 DEF IntakeTypes
<1>7. TargetsStay' /\ OneRowPerKey' /\ RowsInv' /\ ToldInv'
  BY DEF TargetsStay, OneRowPerKey, RowsInv, ToldInv
<1> QED  BY <1>4, <1>5, <1>6, <1>7

\* A row is committed if its tenant has none of that content; its file is there.
LEMMA IntakeInvCommit ==
    ASSUME IntakeInv, NEW u \in Uploads, Commit(u)
    PROVE  IntakeInv'
<1> USE DEF IntakeInv
<1> DEFINE old == upload[u].row
           row == Stamped(upload[u].tenant, old)
<1>1. upload[u] # Free /\ upload[u].pc = "commit" /\ UNCHANGED <<targets, files, leftover, ids>>
  BY PhaseIsBusy DEF Commit, Phases
<1>2. upload[u].tenant \in Tenants /\ old \in Document /\ old.tenant = NoTenant
  BY <1>1, BusyUpload DEF UploadsInv
<1>3. /\ row \in Document /\ row.tenant = upload[u].tenant
      /\ row.id = old.id /\ row.content = old.content /\ row.target = old.target
  BY <1>2, StampGivesTenant
<1>4. CASE ~Taken(row) /\ rows' = rows \union {row} /\ Tell(u, {row})
  <2>1. /\ upload' = [upload EXCEPT ![u] = Free]
        /\ told' = told \union {[tenant |-> upload[u].tenant, content |-> old.content, id |-> row.id]}
    BY <1>4 DEF Tell
  <2>2. \A v \in Uploads : v # u => upload'[v] = upload[v]
    BY <2>1 DEF IntakeTypes
  <2>3. UploadsInv' /\ upload' \in [Uploads -> UploadState] /\ TargetsStay'
    <3>1. \A d \in rows' : \E e \in rows \union {upload[u].row} : d.id = e.id
      BY <1>3, <1>4
    <3> QED  BY <1>1, <2>1, <3>1, UploadsShrink
  <2>4. OneRowPerKey'
    <3>1. row.tenant # NoTenant
      BY <1>2, <1>3, TenantAssumption
    <3>2. \A d \in rows : ~(d.tenant = row.tenant /\ d.content = row.content)
      BY <1>4, <3>1 DEF Taken
    <3> QED  BY <1>4, <3>2 DEF OneRowPerKey
  <2>5. RowsInv'
    <3>1. row.id \in 0..ids /\ \A d \in rows : d.id # row.id
      <4>1. old.id \in 1..ids /\ ids \in Nat /\ \A d \in rows : d.id # old.id
        BY <1>1 DEF UploadsInv, IntakeTypes
      <4> QED  BY <1>3, <4>1
    <3>2. [id |-> row.id, whole |-> TRUE] \in files
      BY <1>1, <1>3 DEF UploadsInv
    <3>3. \A t \in targets : t.target = row.target => t.tenant = row.tenant
      BY <1>1, <1>3 DEF UploadsInv
    <3> QED  BY <1>1, <1>4, <3>1, <3>2, <3>3 DEF RowsInv
  <2>6. FilesInv'
    <3> SUFFICES ASSUME NEW f \in files
                 PROVE  \/ f.id \in leftover
                        \/ \E d \in rows' : d.id = f.id
                        \/ \E v \in Uploads : upload'[v] # Free /\ upload'[v].row.id = f.id
      BY <1>1 DEF FilesInv
    <3>1. CASE f.id = old.id
      BY <1>3, <1>4, <3>1
    <3>2. CASE f.id # old.id
      BY <1>4, <2>2, <3>2 DEF FilesInv
    <3> QED  BY <3>1, <3>2
  <2>7. ToldInv'
    BY <1>3, <1>4, <2>1 DEF ToldInv
  <2>8. IntakeTypes'
    <3>1. told' \subseteq [tenant : Tenants, content : Contents, id : Nat]
      BY <1>2, <1>3, <2>1 DEF IntakeTypes, Document
    <3> QED  BY <1>1, <1>3, <1>4, <2>3, <3>1 DEF IntakeTypes
  <2> QED  BY <2>3, <2>4, <2>5, <2>6, <2>7, <2>8
<1>5. CASE \E p \in {"undo", "raise"} : upload' = [upload EXCEPT ![u].pc = p]
                                        /\ UNCHANGED <<rows, told>>
  BY <1>1, <1>5, IntakeInvRefused
<1> QED  BY <1>4, <1>5 DEF Commit

\* The file of a refused upload is deleted, unless that fails; the loser of a race
\* is told of the winner's document.
LEMMA IntakeInvUndo ==
    ASSUME IntakeInv, NEW u \in Uploads, Undo(u)
    PROVE  IntakeInv'
<1> USE DEF IntakeInv
<1> DEFINE id == upload[u].row.id
           owned == IF upload[u].pc = "raise" THEN {}
                    ELSE SameContent(upload[u].tenant, upload[u].row.content)
<1>1. /\ upload[u] # Free /\ UNCHANGED <<rows, targets, ids>>
      /\ upload' = [upload EXCEPT ![u] = Free]
      /\ told' = told \union {[tenant |-> upload[u].tenant, content |-> upload[u].row.content,
                               id |-> d.id] : d \in owned}
  BY PhaseIsBusy DEF Undo, Phases, Tell
<1>2. upload[u].tenant \in Tenants /\ upload[u].row \in Document /\ id \in 1..ids
  BY <1>1, BusyUpload DEF UploadsInv
<1>3. \A d \in owned : d \in rows /\ d.tenant = upload[u].tenant /\ d.content = upload[u].row.content
  <2> SUFFICES ASSUME NEW d \in SameContent(upload[u].tenant, upload[u].row.content)
               PROVE  d \in rows /\ d.tenant = upload[u].tenant /\ d.content = upload[u].row.content
    OBVIOUS
  <2> QED  BY <1>2, SeesOwn DEF SameContent
<1>4. ToldInv'
  BY <1>1, <1>3 DEF ToldInv
<1>5. told' \subseteq [tenant : Tenants, content : Contents, id : Nat]
  BY <1>1, <1>2, <1>3 DEF IntakeTypes, Document
<1>6. /\ files' \subseteq files
      /\ \A f \in files : f.id # id => f \in files'
      /\ \A f \in files' : f.id = id => id \in leftover'
      /\ leftover \subseteq leftover' /\ leftover' \subseteq leftover \union {id}
  BY DEF Undo, Removed
<1>7. UploadsInv' /\ upload' \in [Uploads -> UploadState] /\ TargetsStay'
  <2>1. \A d \in rows' : \E e \in rows \union {upload[u].row} : d.id = e.id
    BY <1>1
  <2> QED  BY <1>1, <1>6, <2>1, UploadsShrink
<1>8. RowsInv'
  <2>1. \A d \in rows : d.id # id
    BY <1>1 DEF UploadsInv
  <2>2. ASSUME NEW d \in rows PROVE [id |-> d.id, whole |-> TRUE] \in files'
    BY <1>6, <2>1 DEF RowsInv
  <2> QED  BY <1>1, <2>2 DEF RowsInv
<1>9. FilesInv'
  <2>1. \A v \in Uploads : v # u => upload'[v] = upload[v]
    BY <1>1 DEF IntakeTypes
  <2> SUFFICES ASSUME NEW f \in files'
               PROVE  \/ f.id \in leftover'
                      \/ \E d \in rows : d.id = f.id
                      \/ \E v \in Uploads : upload'[v] # Free /\ upload'[v].row.id = f.id
    BY <1>1 DEF FilesInv
  <2>2. CASE f.id = id
    BY <1>6, <2>2
  <2>3. CASE f.id # id
    BY <1>6, <2>1, <2>3 DEF FilesInv
  <2> QED  BY <2>2, <2>3
<1>10. IntakeTypes'
  <2>1. files' \subseteq [id : Nat, whole : BOOLEAN] /\ leftover' \subseteq 1..ids
    BY <1>2, <1>6 DEF IntakeTypes
  <2> QED  BY <1>1, <1>5, <1>7, <2>1 DEF IntakeTypes
<1>11. OneRowPerKey'
  BY <1>1 DEF OneRowPerKey
<1> QED  BY <1>4, <1>7, <1>8, <1>9, <1>10, <1>11

\* A process dies: a file it wrote is left behind.
LEMMA IntakeInvCrash ==
    ASSUME IntakeInv, NEW u \in Uploads, Crash(u)
    PROVE  IntakeInv'
<1> USE DEF IntakeInv
<1> DEFINE id == upload[u].row.id
<1>1. /\ upload[u] # Free /\ UNCHANGED <<rows, targets, files, told, ids>>
      /\ upload' = [upload EXCEPT ![u] = Free]
      /\ leftover' = leftover \union ({f.id : f \in files} \intersect {id})
  BY DEF Crash
<1>2. id \in 1..ids
  BY <1>1 DEF UploadsInv
<1>3. UploadsInv' /\ upload' \in [Uploads -> UploadState] /\ TargetsStay'
  <2>1. \A d \in rows' : \E e \in rows \union {upload[u].row} : d.id = e.id
    BY <1>1
  <2> QED  BY <1>1, <2>1, UploadsShrink
<1>4. FilesInv'
  <2>1. \A v \in Uploads : v # u => upload'[v] = upload[v]
    BY <1>1 DEF IntakeTypes
  <2> SUFFICES ASSUME NEW f \in files
               PROVE  \/ f.id \in leftover'
                      \/ \E d \in rows : d.id = f.id
                      \/ \E v \in Uploads : upload'[v] # Free /\ upload'[v].row.id = f.id
    BY <1>1 DEF FilesInv
  <2>2. CASE f.id = id
    BY <1>1, <2>2
  <2>3. CASE f.id # id
    BY <1>1, <2>1, <2>3 DEF FilesInv
  <2> QED  BY <2>2, <2>3
<1>5. IntakeTypes'
  <2>1. leftover' \subseteq 1..ids'
    BY <1>1, <1>2 DEF IntakeTypes
  <2> QED  BY <1>1, <1>3, <2>1 DEF IntakeTypes
<1>6. OneRowPerKey' /\ RowsInv' /\ ToldInv'
  BY <1>1 DEF OneRowPerKey, RowsInv, ToldInv
<1> QED  BY <1>3, <1>4, <1>5, <1>6

\* The link of a document moves to another record of its tenant.
LEMMA IntakeInvAssociate ==
    ASSUME IntakeInv, NEW t \in Tenants, NEW id, NEW g \in Targets \union {NoTarget},
           Associate(t, id, g)
    PROVE  IntakeInv'
<1> USE DEF IntakeInv
<1> DEFINE moved(d) == IF d.id = id THEN [d EXCEPT !.target = g] ELSE d
<1>1. /\ rows' = {moved(d) : d \in rows} /\ MayAssociate(t, g)
      /\ UNCHANGED <<targets, files, upload, told, leftover, ids>>
  BY DEF Associate
<1>2. PICK seen \in rows : seen.id = id /\ seen.tenant = t
  <2>1. PICK d \in Visible(t, rows) : d.id = id
    BY DEF Associate
  <2> QED  BY <2>1, SeesOwn
<1>3. ASSUME NEW d \in rows
      PROVE  /\ moved(d) \in Document
             /\ moved(d).id = d.id /\ moved(d).tenant = d.tenant /\ moved(d).content = d.content
             /\ \A x \in targets : x.target = moved(d).target => x.tenant = d.tenant
  <2>1. d \in Document
    BY DEF IntakeTypes
  <2>2. CASE d.id = id
    <3>1. d = seen
      BY <1>2, <2>2 DEF RowsInv
    <3>2. \A x \in targets : x.target = g => x.tenant = d.tenant
      BY <1>1, <1>2, <3>1, AssociatesOwn
    <3>3. moved(d) = [d EXCEPT !.target = g]
      BY <2>2
    <3> QED  BY <2>1, <3>2, <3>3 DEF Document
  <2>3. CASE d.id # id
    BY <2>1, <2>3 DEF RowsInv
  <2> QED  BY <2>2, <2>3
<1> HIDE DEF moved
<1>4. IntakeTypes'
  BY <1>1, <1>3 DEF IntakeTypes
<1>5. UploadsInv'
  BY <1>1, <1>3 DEF UploadsInv
<1>6. OneRowPerKey'
  BY <1>1, <1>3 DEF OneRowPerKey
<1>7. RowsInv'
  BY <1>1, <1>3 DEF RowsInv
<1>8. FilesInv'
  BY <1>1, <1>3 DEF FilesInv
<1>9. ToldInv'
  BY <1>1, <1>3 DEF ToldInv
<1>10. TargetsStay'
  BY <1>1 DEF TargetsStay
<1> QED  BY <1>4, <1>5, <1>6, <1>7, <1>8, <1>9, <1>10

\* Rows without a tenant get one: documents and what they are linked with alike.
LEMMA IntakeInvAssignLegacy ==
    ASSUME IntakeInv, NEW t \in Tenants, AssignLegacy(t)
    PROVE  IntakeInv'
<1> USE DEF IntakeInv
<1>1. /\ rows' = {Stamped(t, d) : d \in rows}
      /\ targets' = {Stamped(t, x) : x \in targets}
      /\ \A d, e \in rows' : d.tenant = e.tenant /\ d.content = e.content => d = e
      /\ UNCHANGED <<files, upload, told, leftover, ids>>
  BY DEF AssignLegacy, Assigned
<1>2. \A d \in rows : /\ Stamped(t, d) \in Document
                      /\ Stamped(t, d).id = d.id /\ Stamped(t, d).content = d.content
                      /\ Stamped(t, d).target = d.target
                      /\ d.tenant # NoTenant => Stamped(t, d) = d
                      /\ d.tenant = NoTenant => Stamped(t, d).tenant = t
  BY StampGivesTenant DEF IntakeTypes
<1>3. \A x \in targets : /\ Stamped(t, x) \in [target : Targets, tenant : Owner]
                         /\ Stamped(t, x).target = x.target
                         /\ x.tenant # NoTenant => Stamped(t, x) = x
                         /\ x.tenant = NoTenant => Stamped(t, x).tenant = t
  BY StampGivesTargetTenant DEF IntakeTypes
<1>4. IntakeTypes'
  BY <1>1, <1>2, <1>3 DEF IntakeTypes
<1>5. TargetsStay'
  BY <1>1, <1>3 DEF TargetsStay
<1>6. UploadsInv'
  <2> SUFFICES ASSUME NEW u \in Uploads, upload[u] # Free
               PROVE  /\ \A d \in rows' : d.id # upload[u].row.id
                      /\ \A x \in targets' : x.target = upload[u].row.target =>
                            x.tenant = upload[u].tenant
    BY <1>1 DEF UploadsInv
  <2>1. ASSUME NEW d \in rows' PROVE d.id # upload[u].row.id
    <3>1. PICK e \in rows : d = Stamped(t, e)
      BY <1>1
    <3>2. d.id = e.id /\ e.id # upload[u].row.id
      BY <1>2, <3>1 DEF UploadsInv
    <3> QED  BY <3>2
  <2>2. upload[u].tenant # NoTenant
    BY BusyUpload, TenantAssumption
  <2>3. ASSUME NEW x \in targets, x.target = upload[u].row.target
        PROVE  Stamped(t, x).tenant = upload[u].tenant
    <3>1. x.tenant = upload[u].tenant
      BY <2>3 DEF UploadsInv
    <3> QED  BY <1>3, <2>2, <3>1
  <2> QED  BY <1>1, <1>3, <2>1, <2>3
<1>7. OneRowPerKey'
  BY <1>1 DEF OneRowPerKey
<1>8. RowsInv'
  <2>1. ASSUME NEW d \in rows, NEW x \in targets, x.target = d.target
        PROVE  Stamped(t, x).tenant = Stamped(t, d).tenant
    <3>1. x.tenant = d.tenant
      BY <2>1 DEF RowsInv
    <3> QED  BY <1>2, <1>3, <3>1
  <2>2. \A d \in rows', x \in targets' : x.target = d.target => x.tenant = d.tenant
    BY <1>1, <1>2, <1>3, <2>1
  <2>3. /\ \A d \in rows' : d.id \in 0..ids
        /\ \A d \in rows' : [id |-> d.id, whole |-> TRUE] \in files
        /\ \A d, e \in rows' : d.id = e.id => d = e
    BY <1>1, <1>2 DEF RowsInv
  <2> QED  BY <1>1, <2>2, <2>3 DEF RowsInv
<1>9. FilesInv'
  BY <1>1, <1>2 DEF FilesInv
<1>10. ToldInv'
  <2> SUFFICES ASSUME NEW a \in told
               PROVE  \E d \in rows' : d.id = a.id /\ d.tenant = a.tenant /\ d.content = a.content
    BY <1>1 DEF ToldInv
  <2>1. PICK d \in rows : d.id = a.id /\ d.tenant = a.tenant /\ d.content = a.content
    BY DEF ToldInv
  <2>2. a.tenant # NoTenant
    BY TenantAssumption DEF IntakeTypes
  <2> QED  BY <1>1, <1>2, <2>1, <2>2
<1> QED  BY <1>4, <1>5, <1>6, <1>7, <1>8, <1>9, <1>10

LEMMA IntakeInvStutter == IntakeInv /\ UNCHANGED intakeVars => IntakeInv'
BY DEF IntakeInv, intakeVars, IntakeTypes, TargetsStay, UploadsInv, OneRowPerKey, RowsInv,
       FilesInv, ToldInv

LEMMA IntakeInvStep == IntakeInv /\ [IntakeNext]_intakeVars => IntakeInv'
<1> SUFFICES ASSUME IntakeInv, [IntakeNext]_intakeVars PROVE IntakeInv'
  OBVIOUS
<1>1. ASSUME NEW u \in Uploads, NEW t \in Tenants, NEW c \in Contents,
             NEW g \in Targets \union {NoTarget}, Begin(u, t, c, g)
      PROVE  IntakeInv'
  BY <1>1, IntakeInvBegin
<1>2. ASSUME NEW u \in Uploads, Save(u) \/ Commit(u) \/ Undo(u) \/ Crash(u)
      PROVE  IntakeInv'
  BY <1>2, IntakeInvSave, IntakeInvCommit, IntakeInvUndo, IntakeInvCrash
<1>3. ASSUME NEW t \in Tenants, NEW d \in rows, NEW g \in Targets \union {NoTarget},
             Associate(t, d.id, g)
      PROVE  IntakeInv'
  BY <1>3, IntakeInvAssociate
<1>4. ASSUME NEW t \in Tenants, AssignLegacy(t)
      PROVE  IntakeInv'
  BY <1>4, IntakeInvAssignLegacy
<1> QED  BY <1>1, <1>2, <1>3, <1>4, IntakeInvStutter DEF IntakeNext

-----------------------------------------------------------------------------
(* Intake: what follows from it.                                           *)

LEMMA IntakeInvImpliesFiles == IntakeInv => EveryDocumentHasItsFile
<1> SUFFICES ASSUME IntakeInv PROVE EveryDocumentHasItsFile
  OBVIOUS
<1> USE DEF IntakeInv
<1>1. IntakeTypeOK
  <2>1. {t.target : t \in targets} = Targets
    <3>1. \A t \in targets : t.target \in Targets
      BY DEF IntakeTypes
    <3> QED  BY <3>1 DEF TargetsStay
  <2>2. \A u \in Uploads : upload[u] = Free \/ /\ upload[u].pc \in {"save", "commit", "undo", "raise"}
                                               /\ upload[u].row \in Document
    BY BusyUpload DEF Phases
  <2> QED  BY <2>1, <2>2 DEF IntakeTypeOK, IntakeTypes
<1>2. \A d \in rows : [id |-> d.id, whole |-> TRUE] \in files
  BY DEF RowsInv
<1>3. \A f \in files : \/ f.id \in {d.id : d \in rows} \union leftover
                       \/ \E u \in Uploads : upload[u] # Free /\ upload[u].row.id = f.id
  BY DEF FilesInv
<1> QED  BY <1>1, <1>2, <1>3 DEF EveryDocumentHasItsFile

LEMMA IntakeInvImpliesOneDocument == IntakeInv => OneDocumentPerContent
<1> SUFFICES ASSUME IntakeInv, NEW a \in told
             PROVE  /\ \E d \in rows : d.id = a.id /\ d.tenant = a.tenant /\ d.content = a.content
                    /\ \A b \in told : a.tenant = b.tenant /\ a.content = b.content => a = b
  BY DEF OneDocumentPerContent
<1> USE DEF IntakeInv
<1>1. PICK d \in rows : d.id = a.id /\ d.tenant = a.tenant /\ d.content = a.content
  BY DEF ToldInv
<1>2. ASSUME NEW b \in told, a.tenant = b.tenant, a.content = b.content
      PROVE  a = b
  <2>1. PICK e \in rows : e.id = b.id /\ e.tenant = b.tenant /\ e.content = b.content
    BY DEF ToldInv
  <2>2. d.tenant # NoTenant
    BY <1>1, TenantAssumption DEF IntakeTypes
  <2>3. d = e
    BY <1>1, <1>2, <2>1, <2>2 DEF OneRowPerKey
  <2> QED  BY <1>1, <1>2, <2>1, <2>3 DEF IntakeTypes
<1> QED  BY <1>1, <1>2

\* The invariant holds in every state.
LEMMA IntakeInvariant == IntakeSpec => []IntakeInv
BY IntakeInvInit, IntakeInvStep, PTL DEF IntakeSpec

\* A document on record can be read: its file is there and whole, however uploads,
\* failures and crashes of DocumentService interleave; and no file is unaccounted for.
THEOREM DocumentsHaveFiles == IntakeSpec => []EveryDocumentHasItsFile
BY IntakeInvariant, IntakeInvImpliesFiles, PTL

\* All that a tenant is ever told of one content by DocumentService.upload is one
\* document, and it is its own.
THEOREM OneDocument == IntakeSpec => []OneDocumentPerContent
BY IntakeInvariant, IntakeInvImpliesOneDocument, PTL

\* A document is linked with records of its own tenant alone, also while
\* assign_legacy gives tenants to rows under running requests.
THEOREM LinksInside == IntakeSpec => []LinksStayInside
<1>1. IntakeInv => LinksStayInside
  BY DEF IntakeInv, RowsInv, LinksStayInside
<1> QED  BY <1>1, IntakeInvariant, PTL

-----------------------------------------------------------------------------
(* Identity: users and tenants.                                            *)

MayAdd(tenant) == \E a \in users : a.tenant = tenant /\ "MANAGE_USERS" \in Permissions[a.role]

\* What a request in progress holds: a session is that of a user, and who adds a user
\* adds it to a tenant that has an administrator.
Holds(x) ==
    \/ x = Away
    \/ \E e \in Emails : x = [pc |-> "check", email |-> e]
    \/ \E s \in SessionRow : s.user \in users /\ x = [pc |-> "request", session |-> s]
    \/ \E u \in UserRow : MayAdd(u.tenant) /\ x = [pc |-> "provision", user |-> u]
    \/ \E e \in Emails, o \in Orgs : x = [pc |-> "bootstrap", email |-> e, org |-> o]

IdentityTypesInv ==
    /\ clock \in 0..MaxTime
    /\ users \subseteq UserRow
    /\ failures \subseteq [n : Nat, email : Emails, at : 0..MaxTime] /\ IsFiniteSet(failures)
    /\ sessions \subseteq SessionRow /\ IsFiniteSet(sessions)
    /\ DOMAIN client = Clients

UsersInv ==
    /\ IdentityTypesInv
    /\ \A c \in Clients : Holds(client[c])
    /\ \A s \in sessions : s.user \in users
    /\ \A u, v \in users : u.email = v.email => u = v
    /\ \A u \in users : MayAdd(u.tenant)

LEMMA HoldsParts ==
    ASSUME NEW x, Holds(x)
    PROVE  /\ x = Away \/ x.pc \in {"check", "request", "provision", "bootstrap"}
           /\ x.pc = "check" => x.email \in Emails
           /\ x.pc = "request" => x.session \in SessionRow /\ x.session.user \in users
           /\ x.pc = "provision" => x.user \in UserRow /\ MayAdd(x.user.tenant)
           /\ x.pc = "bootstrap" => x.email \in Emails /\ x.org \in Orgs
<1>1. CASE x = Away
  BY <1>1 DEF Away
<1>2. ASSUME NEW e \in Emails, x = [pc |-> "check", email |-> e]
      PROVE  x.pc = "check" /\ x.email \in Emails
  BY <1>2
<1>3. ASSUME NEW s \in SessionRow, s.user \in users, x = [pc |-> "request", session |-> s]
      PROVE  x.pc = "request" /\ x.session \in SessionRow /\ x.session.user \in users
  BY <1>3
<1>4. ASSUME NEW u \in UserRow, MayAdd(u.tenant), x = [pc |-> "provision", user |-> u]
      PROVE  x.pc = "provision" /\ x.user \in UserRow /\ MayAdd(x.user.tenant)
  BY <1>4
<1>5. ASSUME NEW e \in Emails, NEW o \in Orgs, x = [pc |-> "bootstrap", email |-> e, org |-> o]
      PROVE  x.pc = "bootstrap" /\ x.email \in Emails /\ x.org \in Orgs
  BY <1>5
<1> QED  BY <1>1, <1>2, <1>3, <1>4, <1>5 DEF Holds

\* A step that changes nothing of the users.
LEMMA UsersInvElse ==
    ASSUME UsersInv, IdentityTypesInv', users' = users, NEW c \in Clients, NEW x, Holds(x),
           Goes(c, x), \A s \in sessions' : s.user \in users
    PROVE  UsersInv'
<1>1. \A d \in Clients : client'[d] = client[d] \/ client'[d] = x
  BY DEF UsersInv, IdentityTypesInv, Goes
<1>2. \A y : Holds(y) => Holds(y)'
  BY DEF Holds, MayAdd
<1>3. \A d \in Clients : Holds(client'[d])
  BY <1>1 DEF UsersInv
<1> QED  BY <1>2, <1>3 DEF UsersInv, MayAdd, Holds

\* A user is added, into a tenant that has an administrator then.
LEMMA UsersInvMore ==
    ASSUME UsersInv, NEW c \in Clients, Goes(c, Away), NEW u \in UserRow,
           users' = users \/ (users' = users \union {u} /\ \A v \in users : v.email # u.email),
           "MANAGE_USERS" \in Permissions[u.role] \/ MayAdd(u.tenant),
           UNCHANGED <<clock, failures, sessions>>
    PROVE  UsersInv'
<1>1. users \subseteq users'
  OBVIOUS
<1>2. IdentityTypesInv'
  BY DEF UsersInv, IdentityTypesInv, Goes
<1>3. \A t : MayAdd(t) => MayAdd(t)'
  BY <1>1 DEF MayAdd
<1>4. \A y : Holds(y) => Holds(y)'
  BY <1>1, <1>3 DEF Holds
<1>5. \A d \in Clients : client'[d] = client[d] \/ client'[d] = Away
  BY DEF UsersInv, IdentityTypesInv, Goes
<1>6. \A d \in Clients : Holds(client[d])'
  <2>1. Holds(Away)
    BY DEF Holds
  <2>2. \A d \in Clients : Holds(client'[d])
    BY <1>5, <2>1 DEF UsersInv
  <2> QED  BY <1>4, <2>2
<1>7. u \in users' => MayAdd(u.tenant)'
  BY <1>3 DEF MayAdd
<1>8. \A v \in users' : MayAdd(v.tenant)'
  BY <1>3, <1>7 DEF UsersInv
<1>9. \A v, w \in users' : v.email = w.email => v = w
  BY DEF UsersInv
<1> QED  BY <1>1, <1>2, <1>6, <1>8, <1>9 DEF UsersInv

LEMMA UsersInvInit == IdentityInit => UsersInv
<1> SUFFICES ASSUME IdentityInit PROVE UsersInv
  OBVIOUS
<1>1. IsFiniteSet({}) /\ clock \in 0..MaxTime
  BY FS_EmptySet, IdentityAssumption DEF IdentityInit
<1> QED  BY <1>1 DEF IdentityInit, UsersInv, IdentityTypesInv, Holds

\* Sign-in and sign-out.
LEMMA UsersInvSessions ==
    ASSUME UsersInv, NEW c \in Clients, SignIn(c) \/ Logout(c) \/ FailLogin(c)
    PROVE  UsersInv'
<1>0. Holds(Away) /\ Goes(c, Away) /\ users' = users /\ DOMAIN client' = Clients
  BY DEF Holds, SignIn, Logout, FailLogin, Goes, UsersInv, IdentityTypesInv
<1>1. CASE SignIn(c)
  <2>1. PICK u \in users :
            sessions' = sessions \union {[id |-> Cardinality(sessions), user |-> u,
                                          until |-> clock + SessionLength, revoked |-> FALSE]}
    BY <1>1 DEF SignIn
  <2> DEFINE new == [id |-> Cardinality(sessions), user |-> u,
                     until |-> clock + SessionLength, revoked |-> FALSE]
  <2>2. Cardinality(sessions) \in Nat /\ IsFiniteSet(sessions')
    BY <2>1, FS_CardinalityType, FS_AddElement DEF UsersInv, IdentityTypesInv
  <2>3. clock + SessionLength \in Nat
    BY IdentityAssumption DEF UsersInv, IdentityTypesInv
  <2>4. new \in SessionRow /\ new.user = u
    BY <2>2, <2>3 DEF SessionRow, UsersInv, IdentityTypesInv
  <2>5. sessions' \subseteq SessionRow /\ \A s \in sessions' : s.user \in users
    BY <2>1, <2>4 DEF UsersInv, IdentityTypesInv
  <2>6. IdentityTypesInv'
    BY <1>0, <1>1, <2>2, <2>5 DEF UsersInv, IdentityTypesInv, SignIn
  <2> QED  BY <1>0, <2>5, <2>6, UsersInvElse
<1>2. CASE Logout(c)
  <2> DEFINE out(s) == IF s.id = client[c].session.id THEN [s EXCEPT !.revoked = TRUE] ELSE s
  <2>1. sessions' = {out(s) : s \in sessions}
    BY <1>2 DEF Logout
  <2>2. \A s \in sessions : out(s) \in SessionRow /\ out(s).user = s.user
    BY DEF UsersInv, IdentityTypesInv, SessionRow
  <2> HIDE DEF out
  <2>3. sessions' \subseteq SessionRow /\ \A s \in sessions' : s.user \in users
    BY <2>1, <2>2 DEF UsersInv
  <2>4. IsFiniteSet(sessions')
    <3> DEFINE f == [s \in sessions |-> out(s)]
    <3>1. f \in [sessions -> sessions'] /\ \A t \in sessions' : \E s \in sessions : f[s] = t
      BY <2>1
    <3> HIDE DEF f
    <3>2. f \in Surjection(sessions, sessions')
      BY <3>1 DEF Surjection
    <3> QED  BY <3>2, FS_Surjection DEF UsersInv, IdentityTypesInv
  <2>5. IdentityTypesInv'
    BY <1>0, <1>2, <2>3, <2>4 DEF UsersInv, IdentityTypesInv, Logout
  <2> QED  BY <1>0, <2>3, <2>5, UsersInvElse
<1>3. CASE FailLogin(c)
  <2> DEFINE new == [n |-> Cardinality(failures), email |-> client[c].email, at |-> clock]
  <2>1. failures' = failures \union {new} /\ client[c].pc = "check"
    BY <1>3 DEF FailLogin
  <2>2. Cardinality(failures) \in Nat /\ IsFiniteSet(failures')
    BY <2>1, FS_CardinalityType, FS_AddElement DEF UsersInv, IdentityTypesInv
  <2>3. client[c].email \in Emails
    BY <2>1, HoldsParts DEF UsersInv
  <2>4. failures' \subseteq [n : Nat, email : Emails, at : 0..MaxTime]
    BY <2>1, <2>2, <2>3 DEF UsersInv, IdentityTypesInv
  <2>5. IdentityTypesInv'
    BY <1>0, <1>3, <2>2, <2>4 DEF UsersInv, IdentityTypesInv, FailLogin
  <2> QED  BY <1>0, <1>3, <2>5, UsersInvElse DEF FailLogin, UsersInv
<1> QED  BY <1>1, <1>2, <1>3

\* The other steps of requests.
LEMMA UsersInvRequests ==
    ASSUME UsersInv, NEW c \in Clients,
           \/ \E e \in Emails : \/ BeginLogin(c, e)
                                \/ \E o \in Orgs : BeginBootstrap(c, e, o)
                                \/ \E r \in Grants : BeginProvision(c, e, r)
           \/ \E s \in sessions : BeginRequest(c, s)
           \/ EndRequest(c)
    PROVE  UsersInv'
<1>1. /\ UNCHANGED <<clock, users, failures, sessions>>
      /\ \E x : Goes(c, x)
  BY DEF BeginLogin, BeginBootstrap, BeginProvision, BeginRequest, EndRequest
<1>2. IdentityTypesInv'
  BY <1>1 DEF UsersInv, IdentityTypesInv, Goes
<1>3. \A s \in sessions' : s.user \in users
  BY <1>1 DEF UsersInv
<1>4. ASSUME NEW x, Goes(c, x), Holds(x) PROVE UsersInv'
  BY <1>1, <1>2, <1>3, <1>4, UsersInvElse
<1>5. ASSUME NEW e \in Emails, BeginLogin(c, e) PROVE UsersInv'
  BY <1>4, <1>5 DEF BeginLogin, Holds
<1>6. ASSUME NEW e \in Emails, NEW o \in Orgs, BeginBootstrap(c, e, o) PROVE UsersInv'
  BY <1>4, <1>6 DEF BeginBootstrap, Holds
<1>7. ASSUME NEW e \in Emails, NEW r \in Grants, BeginProvision(c, e, r) PROVE UsersInv'
  <2> DEFINE u == client[c].session.user
             v == [email |-> e, tenant |-> u.tenant, role |-> r]
  <2>1. u \in users /\ "MANAGE_USERS" \in Permissions[u.role]
    BY <1>7, HoldsParts DEF BeginProvision, UsersInv
  <2>2. MayAdd(u.tenant)
    BY <2>1 DEF MayAdd
  <2>3. v \in UserRow /\ v.tenant = u.tenant
    BY <2>1, GrantAssumption DEF UserRow, UsersInv, IdentityTypesInv
  <2>4. Goes(c, [pc |-> "provision", user |-> v])
    BY <1>7 DEF BeginProvision
  <2> QED  BY <1>4, <2>2, <2>3, <2>4 DEF Holds
<1>8. ASSUME NEW s \in sessions, BeginRequest(c, s) PROVE UsersInv'
  <2>1. s \in SessionRow /\ s.user \in users
    BY DEF UsersInv, IdentityTypesInv
  <2> QED  BY <1>4, <1>8, <2>1 DEF BeginRequest, Holds
<1>9. CASE EndRequest(c)
  BY <1>4, <1>9 DEF EndRequest, Holds
<1> QED  BY <1>5, <1>6, <1>7, <1>8, <1>9

LEMMA UsersInvAdds ==
    ASSUME UsersInv, NEW c \in Clients, Provision(c) \/ Bootstrap(c)
    PROVE  UsersInv'
<1>1. CASE Provision(c)
  <2> DEFINE u == client[c].user
  <2>1. u \in UserRow /\ MayAdd(u.tenant)
    BY <1>1, HoldsParts DEF Provision, UsersInv
  <2>2. /\ users' = users \/ (users' = users \union {u} /\ \A v \in users : v.email # u.email)
        /\ Goes(c, Away) /\ UNCHANGED <<clock, failures, sessions>>
    BY <1>1 DEF Provision
  <2> HIDE DEF u
  <2> QED  BY <2>1, <2>2, UsersInvMore
<1>2. CASE Bootstrap(c)
  <2> DEFINE u == Founder(c)
  <2>1. client[c].email \in Emails /\ client[c].org \in Orgs
    BY <1>2, HoldsParts DEF Bootstrap, UsersInv
  <2>2. u \in UserRow /\ u.email = client[c].email /\ "MANAGE_USERS" \in Permissions[u.role]
    BY <2>1 DEF Founder, UserRow, Roles, Permissions
  <2>3. /\ users' = users \/ (users' = users \union {u} /\ \A v \in users : v.email # u.email)
        /\ Goes(c, Away) /\ UNCHANGED <<clock, failures, sessions>>
    BY <1>2, <2>2 DEF Bootstrap
  <2> HIDE DEF u
  <2> QED  BY <2>2, <2>3, UsersInvMore
<1> QED  BY <1>1, <1>2

LEMMA UsersInvStep == UsersInv /\ [IdentityNext]_identityVars => UsersInv'
<1> SUFFICES ASSUME UsersInv, [IdentityNext]_identityVars PROVE UsersInv'
  OBVIOUS
<1>1. CASE Pass
  <2>1. clock' \in 0..MaxTime
    BY <1>1, IdentityAssumption DEF Pass, UsersInv, IdentityTypesInv
  <2> QED  BY <1>1, <2>1 DEF Pass, UsersInv, IdentityTypesInv, Holds, MayAdd
<1>2. CASE UNCHANGED identityVars
  BY <1>2 DEF identityVars, UsersInv, IdentityTypesInv, Holds, MayAdd
<1> QED  BY <1>1, <1>2, UsersInvSessions, UsersInvRequests, UsersInvAdds DEF IdentityNext

\* However bootstraps, provisioning, sign-in and sign-out interleave, an email is that
\* of one user, and every tenant with users keeps an administrator: who adds a user acts
\* for one, and the first user of a tenant is one.
THEOREM TenantsAreAdministered == IdentitySpec => []EveryTenantIsAdministered
<1>1. UsersInv => EveryTenantIsAdministered
  <2> SUFFICES ASSUME UsersInv PROVE EveryTenantIsAdministered
    OBVIOUS
  <2>1. IdentityTypeOK
    BY HoldsParts DEF UsersInv, IdentityTypesInv, IdentityTypeOK
  <2> QED  BY <2>1 DEF UsersInv, MayAdd, EveryTenantIsAdministered
<1> QED  BY <1>1, UsersInvInit, UsersInvStep, PTL DEF IdentitySpec

-----------------------------------------------------------------------------
(* Identity: the lock.                                                     *)

\* The failures that count at time t, and the attempts under way.
FailuresAround(e, t) == {f \in failures : f.email = e /\ f.at <= t /\ t <= f.at + LockWindow}
Checking(e) == {c \in Clients : client[c].pc = "check" /\ client[c].email = e}

\* An attempt under way was let in below the limit; what is past does not change.
LockInv ==
    /\ UsersInv
    /\ \A f \in failures : f.at <= clock
    /\ \A e \in Emails :
          /\ Cardinality(FailuresAround(e, clock)) + Cardinality(Checking(e))
                < LockLimit + Cardinality(Clients)
          /\ \A t \in 0..clock :
                Cardinality(FailuresAround(e, t)) < LockLimit + Cardinality(Clients)

LEMMA OneMore ==
    ASSUME NEW S, NEW x, IsFiniteSet(S)
    PROVE  /\ IsFiniteSet(S \union {x})
           /\ Cardinality(S \union {x}) <= Cardinality(S) + 1
<1>1. Cardinality(S) \in Nat
  BY FS_CardinalityType
<1>2. CASE x \in S
  <2> DEFINE T == S \union {x}
  <2>1. T = S
    BY <1>2
  <2> HIDE DEF T
  <2>2. IsFiniteSet(T) /\ Cardinality(T) <= Cardinality(S) + 1
    BY <1>1, <2>1
  <2> QED  BY <2>2 DEF T
<1>3. CASE x \notin S
  BY <1>1, <1>3, FS_AddElement
<1> QED  BY <1>2, <1>3

\* What the invariant says of the numbers in it.
LEMMA LockCounts ==
    ASSUME UsersInv, NEW e
    PROVE  /\ IsFiniteSet(Checking(e)) /\ Cardinality(Checking(e)) \in Nat
           /\ Cardinality(Checking(e)) <= Cardinality(Clients) /\ Cardinality(Clients) \in Nat
           /\ \A t : /\ IsFiniteSet(FailuresAround(e, t))
                     /\ Cardinality(FailuresAround(e, t)) \in Nat
<1>1. IsFiniteSet(Clients) /\ Checking(e) \subseteq Clients
  BY IdentityAssumption DEF Checking
<1>2. \A t : FailuresAround(e, t) \subseteq failures
  BY DEF FailuresAround
<1>3. IsFiniteSet(failures)
  BY DEF UsersInv, IdentityTypesInv
<1> QED  BY <1>1, <1>2, <1>3, FS_Subset, FS_CardinalityType

LEMMA LockCountsAfter ==
    ASSUME NEW e
    PROVE  /\ IsFiniteSet(Checking(e)') /\ Cardinality(Checking(e)') \in Nat
           /\ Cardinality(Checking(e)') <= Cardinality(Clients)
<1>1. IsFiniteSet(Clients) /\ Checking(e)' \subseteq Clients
  BY IdentityAssumption DEF Checking
<1> QED  BY <1>1, FS_Subset, FS_CardinalityType

\* A step that begins no attempt, in no time.
LEMMA LockInvElse ==
    ASSUME LockInv, UsersInv', clock' = clock, failures' = failures,
           \A e \in Emails : Checking(e)' \subseteq Checking(e)
    PROVE  LockInv'
<1>1. \A e, t : FailuresAround(e, t)' = FailuresAround(e, t)
  BY DEF FailuresAround
<1>2. ASSUME NEW e \in Emails
      PROVE  Cardinality(FailuresAround(e, clock)) + Cardinality(Checking(e)')
                < LockLimit + Cardinality(Clients)
  <2>1. /\ Cardinality(Checking(e)') <= Cardinality(Checking(e))
        /\ Cardinality(Checking(e)') \in Nat /\ Cardinality(Checking(e)) \in Nat
        /\ Cardinality(FailuresAround(e, clock)) \in Nat /\ Cardinality(Clients) \in Nat
    BY LockCounts, FS_Subset, FS_CardinalityType DEF LockInv
  <2> QED  BY <2>1, IdentityAssumption DEF LockInv
<1> QED  BY <1>1, <1>2 DEF LockInv

LEMMA LockInvLogin ==
    ASSUME LockInv, UsersInv', NEW c \in Clients, NEW d \in Emails, BeginLogin(c, d)
    PROVE  LockInv'
<1>0. /\ ~Locked(d) /\ clock' = clock /\ failures' = failures
      /\ client' = [client EXCEPT ![c] = [pc |-> "check", email |-> d]]
  BY DEF BeginLogin, Goes
<1>1. \A e, t : FailuresAround(e, t)' = FailuresAround(e, t)
  BY <1>0 DEF FailuresAround
<1>2. ASSUME NEW e \in Emails
      PROVE  Cardinality(FailuresAround(e, clock)) + Cardinality(Checking(e)')
                < LockLimit + Cardinality(Clients)
  <2>0. /\ Cardinality(Checking(e)') \in Nat /\ Cardinality(Checking(e)) \in Nat
        /\ Cardinality(Checking(e)') <= Cardinality(Clients)
        /\ Cardinality(FailuresAround(e, clock)) \in Nat /\ Cardinality(Clients) \in Nat
        /\ LockLimit \in Nat
    BY LockCounts, LockCountsAfter, IdentityAssumption DEF LockInv
  <2>1. CASE e = d
    <3>1. FailuresAround(e, clock) = Recent(e)
      BY DEF FailuresAround, Recent, LockInv
    <3>2. Cardinality(FailuresAround(e, clock)) < LockLimit
      BY <1>0, <2>0, <2>1, <3>1 DEF Locked
    <3> QED  BY <2>0, <3>2
  <2>2. CASE e # d
    <3>1. Checking(e)' \subseteq Checking(e)
      BY <1>0, <2>2 DEF Checking, LockInv, UsersInv, IdentityTypesInv
    <3>2. Cardinality(Checking(e)') <= Cardinality(Checking(e))
      BY <3>1, LockCounts, FS_Subset DEF LockInv
    <3> QED  BY <2>0, <3>2 DEF LockInv
  <2> QED  BY <2>1, <2>2
<1> QED  BY <1>0, <1>1, <1>2 DEF LockInv

\* An attempt that fails counts where it counted as under way.
LEMMA LockInvFail ==
    ASSUME LockInv, UsersInv', NEW c \in Clients, FailLogin(c)
    PROVE  LockInv'
<1> DEFINE new == [n |-> Cardinality(failures), email |-> client[c].email, at |-> clock]
<1>0. /\ clock' = clock /\ failures' = failures \union {new}
      /\ client[c].pc = "check" /\ client' = [client EXCEPT ![c] = Away]
      /\ DOMAIN client = Clients
  BY DEF FailLogin, Goes, LockInv, UsersInv, IdentityTypesInv
<1>1. new.email = client[c].email /\ new.at = clock /\ clock \in Nat
  BY IdentityAssumption DEF LockInv, UsersInv, IdentityTypesInv
<1> HIDE DEF new
<1>2. ASSUME NEW e \in Emails
      PROVE  Cardinality(FailuresAround(e, clock)') + Cardinality(Checking(e)')
                < LockLimit + Cardinality(Clients)
  <2>0. /\ IsFiniteSet(Checking(e)) /\ IsFiniteSet(FailuresAround(e, clock))
        /\ Cardinality(Checking(e)') \in Nat /\ Cardinality(Checking(e)) \in Nat
        /\ Cardinality(FailuresAround(e, clock)) \in Nat /\ Cardinality(Clients) \in Nat
        /\ LockLimit \in Nat
    BY LockCounts, LockCountsAfter, IdentityAssumption DEF LockInv
  <2>1. CASE e = client[c].email
    <3>1. c \in Checking(e) /\ Checking(e)' \subseteq Checking(e) \ {c}
      BY <1>0, <2>1 DEF Checking, Away
    <3>2. Cardinality(Checking(e) \ {c}) = Cardinality(Checking(e)) - 1
      BY <2>0, <3>1, FS_RemoveElement
    <3>3. Cardinality(Checking(e)') <= Cardinality(Checking(e)) - 1
      BY <2>0, <3>1, <3>2, FS_Subset, FS_RemoveElement
    <3>4. FailuresAround(e, clock)' \subseteq FailuresAround(e, clock) \union {new}
      BY <1>0 DEF FailuresAround
    <3>5. /\ IsFiniteSet(FailuresAround(e, clock) \union {new})
          /\ Cardinality(FailuresAround(e, clock) \union {new})
                <= Cardinality(FailuresAround(e, clock)) + 1
      BY <2>0, OneMore
    <3>6. Cardinality(FailuresAround(e, clock)') <= Cardinality(FailuresAround(e, clock)) + 1
      <4>1. /\ Cardinality(FailuresAround(e, clock)')
                  <= Cardinality(FailuresAround(e, clock) \union {new})
            /\ Cardinality(FailuresAround(e, clock) \union {new}) \in Nat
            /\ Cardinality(FailuresAround(e, clock)') \in Nat
        BY <3>4, <3>5, FS_Subset, FS_CardinalityType
      <4> QED  BY <2>0, <3>5, <4>1
    <3>7. Cardinality(FailuresAround(e, clock)') \in Nat
      BY <3>4, <3>5, FS_Subset, FS_CardinalityType
    <3> QED  BY <2>0, <3>3, <3>6, <3>7 DEF LockInv
  <2>2. CASE e # client[c].email
    <3>1. FailuresAround(e, clock)' = FailuresAround(e, clock)
      BY <1>0, <1>1, <2>2 DEF FailuresAround
    <3>2. Checking(e)' \subseteq Checking(e)
      BY <1>0 DEF Checking, Away
    <3>3. Cardinality(Checking(e)') <= Cardinality(Checking(e))
      BY <2>0, <3>2, FS_Subset
    <3> QED  BY <2>0, <3>1, <3>3 DEF LockInv
  <2> QED  BY <2>1, <2>2
<1>3. ASSUME NEW e \in Emails, NEW t \in 0..clock
      PROVE  Cardinality(FailuresAround(e, t)') < LockLimit + Cardinality(Clients)
  <2>0. /\ Cardinality(Checking(e)') \in Nat /\ Cardinality(FailuresAround(e, clock)') \in Nat
        /\ LockLimit + Cardinality(Clients) \in Nat
    <3>1. Cardinality(Checking(e)') \in Nat /\ LockLimit + Cardinality(Clients) \in Nat
      BY LockCounts, LockCountsAfter, IdentityAssumption DEF LockInv
    <3>2. FailuresAround(e, clock)' \subseteq failures' /\ IsFiniteSet(failures')
      BY DEF FailuresAround, UsersInv, IdentityTypesInv
    <3> QED  BY <3>1, <3>2, FS_Subset, FS_CardinalityType
  <2>1. CASE t = clock
    <3>1. FailuresAround(e, t)' = FailuresAround(e, clock)'
      BY <1>0, <2>1 DEF FailuresAround
    <3> QED  BY <1>2, <2>0, <3>1
  <2>2. CASE t < clock
    <3>1. FailuresAround(e, t)' = FailuresAround(e, t)
      BY <1>0, <1>1, <1>3, <2>2 DEF FailuresAround
    <3> QED  BY <3>1 DEF LockInv
  <2> QED  BY <1>1, <1>3, <2>1, <2>2
<1>4. \A f \in failures' : f.at <= clock
  BY <1>0, <1>1 DEF LockInv
<1> QED  BY <1>0, <1>2, <1>3, <1>4 DEF LockInv

\* As time passes failures are forgotten.
LEMMA LockInvPass ==
    ASSUME LockInv, UsersInv', Pass
    PROVE  LockInv'
<1>0. /\ clock' = clock + 1 /\ clock \in Nat /\ failures' = failures /\ client' = client
      /\ LockWindow \in Nat /\ LockLimit \in Nat
      /\ failures \subseteq [n : Nat, email : Emails, at : 0..MaxTime]
  BY IdentityAssumption DEF Pass, LockInv, UsersInv, IdentityTypesInv
<1>1. \A f \in failures : f.at \in Nat /\ f.at <= clock
  BY <1>0, IdentityAssumption DEF LockInv
<1>2. \A e, t : FailuresAround(e, t)' = FailuresAround(e, t)
  BY <1>0 DEF FailuresAround
<1>3. \A e : Checking(e)' = Checking(e)
  BY <1>0 DEF Checking
<1>4. ASSUME NEW e \in Emails
      PROVE  /\ Cardinality(FailuresAround(e, clock + 1)) + Cardinality(Checking(e))
                   < LockLimit + Cardinality(Clients)
             /\ Cardinality(FailuresAround(e, clock + 1)) < LockLimit + Cardinality(Clients)
  <2>1. FailuresAround(e, clock + 1) \subseteq FailuresAround(e, clock)
    BY <1>0, <1>1 DEF FailuresAround
  <2>2. Cardinality(FailuresAround(e, clock + 1)) <= Cardinality(FailuresAround(e, clock))
    BY <2>1, LockCounts, FS_Subset DEF LockInv
  <2>3. /\ Cardinality(Checking(e)) \in Nat /\ Cardinality(Clients) \in Nat
        /\ Cardinality(FailuresAround(e, clock)) \in Nat
        /\ Cardinality(FailuresAround(e, clock + 1)) \in Nat
    BY LockCounts DEF LockInv
  <2> QED  BY <1>0, <2>2, <2>3 DEF LockInv
<1>5. ASSUME NEW e \in Emails, NEW t \in 0..(clock + 1)
      PROVE  Cardinality(FailuresAround(e, t)) < LockLimit + Cardinality(Clients)
  <2>1. t \in 0..clock \/ t = clock + 1
    BY <1>0
  <2> QED  BY <1>4, <2>1 DEF LockInv
<1>6. \A f \in failures : f.at <= clock + 1
  BY <1>0, <1>1
<1>7. \A e : FailuresAround(e, clock)' = FailuresAround(e, clock + 1)
  BY <1>0 DEF FailuresAround
<1> QED  BY <1>0, <1>2, <1>3, <1>4, <1>5, <1>6, <1>7 DEF LockInv

LEMMA LockInvInit == IdentityInit => LockInv
<1> SUFFICES ASSUME IdentityInit PROVE LockInv
  OBVIOUS
<1>1. UsersInv
  BY UsersInvInit
<1>2. \A e : Checking(e) = {} /\ \A t : FailuresAround(e, t) = {}
  BY DEF IdentityInit, Checking, Away, FailuresAround
<1>3. Cardinality({}) = 0 /\ Cardinality(Clients) \in Nat /\ LockLimit \in Nat \ {0}
  BY FS_EmptySet, FS_CardinalityType, IdentityAssumption
<1>4. 0 + 0 < LockLimit + Cardinality(Clients) /\ 0 < LockLimit + Cardinality(Clients)
  BY <1>3
<1> QED  BY <1>1, <1>2, <1>3, <1>4 DEF IdentityInit, LockInv

LEMMA LockInvStep == LockInv /\ [IdentityNext]_identityVars => LockInv'
<1> SUFFICES ASSUME LockInv, [IdentityNext]_identityVars PROVE LockInv'
  OBVIOUS
<1>0. UsersInv' /\ DOMAIN client = Clients
  BY UsersInvStep DEF LockInv, UsersInv, IdentityTypesInv
<1>1. CASE Pass
  BY <1>0, <1>1, LockInvPass
<1>2. ASSUME NEW c \in Clients, NEW e \in Emails, BeginLogin(c, e) PROVE LockInv'
  BY <1>0, <1>2, LockInvLogin
<1>3. ASSUME NEW c \in Clients, FailLogin(c) PROVE LockInv'
  BY <1>0, <1>3, LockInvFail
<1>4. ASSUME NEW c \in Clients, NEW x, Goes(c, x), x.pc # "check", clock' = clock,
             failures' = failures
      PROVE  LockInv'
  <2>1. \A e \in Emails : Checking(e)' \subseteq Checking(e)
    BY <1>0, <1>4 DEF Goes, Checking
  <2> QED  BY <1>0, <1>4, <2>1, LockInvElse
<1>5. ASSUME NEW c \in Clients, NEW e \in Emails,
             \/ \E o \in Orgs : BeginBootstrap(c, e, o)
             \/ \E r \in Grants : BeginProvision(c, e, r)
      PROVE  LockInv'
  <2>1. CASE \E o \in Orgs : BeginBootstrap(c, e, o)
    BY <1>4, <2>1 DEF BeginBootstrap
  <2>2. CASE \E r \in Grants : BeginProvision(c, e, r)
    BY <1>4, <2>2 DEF BeginProvision
  <2> QED  BY <1>5, <2>1, <2>2
<1>6. ASSUME NEW c \in Clients, NEW s \in sessions, BeginRequest(c, s) PROVE LockInv'
  BY <1>4, <1>6 DEF BeginRequest
<1>7. ASSUME NEW c \in Clients,
             SignIn(c) \/ EndRequest(c) \/ Logout(c) \/ Provision(c) \/ Bootstrap(c)
      PROVE  LockInv'
  <2>1. Goes(c, Away) /\ clock' = clock /\ failures' = failures
    BY <1>7 DEF SignIn, EndRequest, Logout, Provision, Bootstrap
  <2>2. Away.pc # "check"
    BY DEF Away
  <2> QED  BY <1>4, <2>1, <2>2
<1>8. CASE UNCHANGED identityVars
  <2>1. \A e \in Emails : Checking(e)' \subseteq Checking(e)
    BY <1>8 DEF identityVars, Checking
  <2> QED  BY <1>0, <1>8, <2>1, LockInvElse DEF identityVars
<1> QED  BY <1>1, <1>2, <1>3, <1>5, <1>6, <1>7, <1>8 DEF IdentityNext

\* However attempts overlap, in no window of the lock are there as many failures as the
\* limit and one per client: an attempt that slips past the look was under way.
THEOREM TheOverrunIsBounded == IdentitySpec => []OverrunIsBounded
<1>1. LockInv => OverrunIsBounded
  BY DEF LockInv, OverrunIsBounded, FailuresAround
<1> QED  BY <1>1, LockInvInit, LockInvStep, PTL DEF IdentitySpec

-----------------------------------------------------------------------------
(* The risk score.                                                         *)

\* Products and quotients of naturals.
LEMMA ProductIsNatural == \A a, b \in Nat : a * b \in Nat
  OBVIOUS

\* A quotient grows with its dividend.
LEMMA QuotientGrows ==
    ASSUME NEW a \in Nat, NEW b \in Nat, a <= b, NEW d \in Nat, d > 0
    PROVE  /\ a \div d \in Nat /\ b \div d \in Nat
           /\ a \div d <= b \div d
<1>1. a \div d \in Nat /\ b \div d \in Nat
  OBVIOUS
<1>2. a = d * (a \div d) + (a % d) /\ a % d \in 0 .. d - 1
  OBVIOUS
<1>3. b = d * (b \div d) + (b % d) /\ b % d \in 0 .. d - 1
  OBVIOUS
<1> DEFINE p == a \div d
           q == b \div d
<1>4. p \in Nat /\ q \in Nat /\ d * p <= b /\ b < d * q + d
  <2> DEFINE x == d * p
             y == d * q
             r == a % d
             s == b % d
  <2>1. x \in Nat /\ y \in Nat
    BY <1>1, ProductIsNatural
  <2>2. r \in 0 .. d - 1 /\ s \in 0 .. d - 1 /\ a = x + r /\ b = y + s
    BY <1>2, <1>3
  <2> HIDE DEF x, y, r, s
  <2>3. x <= b /\ b < y + d
    BY <2>1, <2>2
  <2> QED BY <1>1, <2>3 DEF x, y
<1> HIDE DEF p, q
<1>5. ASSUME p > q PROVE FALSE
  <2>1. PICK k \in Nat : p = q + 1 + k
    <3>1. p - q - 1 \in Nat /\ p = q + 1 + (p - q - 1)
      BY <1>4, <1>5
    <3> QED BY <3>1
  <2>2. d * p = d * q + d + d * k
    BY <2>1, <1>4
  <2> DEFINE x == d * p
             y == d * q
             z == d * k
  <2>3. x \in Nat /\ y \in Nat /\ z \in Nat /\ x = y + d + z /\ x <= b /\ b < y + d
    BY <1>4, <2>2, <2>1, ProductIsNatural
  <2> HIDE DEF x, y, z
  <2> QED BY <2>3
<1> QED BY <1>1, <1>4, <1>5 DEF p, q

\* The smaller of two.
LEMMA SmallerOfTwo ==
    ASSUME NEW a \in Int, NEW b \in Int
    PROVE  Min({a, b}) = IF a <= b THEN a ELSE b
<1>1. IsFiniteSet({a, b})
  <2>1. IsFiniteSet({a} \union {b})
    BY FS_Singleton, FS_AddElement
  <2>2. {a} \union {b} = {a, b}
    OBVIOUS
  <2> QED BY <2>1, <2>2
<1>2. Min({a, b}) \in {a, b} /\ \A j \in {a, b} : Min({a, b}) <= j
  BY <1>1, FirstNumber
<1> QED BY <1>2

\* What a signal counts for.
LEMMA ContributionIsNatural ==
    ASSUME NEW s, s.type \in Types, s.severity \in DOMAIN SeverityQuarters, NEW asOf
    PROVE  Contribution(s, asOf) \in Nat
<1>1. Weight[s.type] \in Nat
  BY RiskAssumption
<1>2. SeverityQuarters[s.severity] \in Nat
  BY DEF SeverityQuarters
<1>3. RecencyQuarters(DaysSince(s.day, asOf)) \in Nat
  BY DEF RecencyQuarters
<1>4. \A a, b, c \in Nat : a * b * c \in Nat
  BY ProductIsNatural
<1> QED BY <1>1, <1>2, <1>3, <1>4 DEF Contribution

\* Signals a score can be made of.
Scorable(S) == /\ IsFiniteSet(S)
               /\ \A s \in S : s.type \in Types /\ s.severity \in DOMAIN SeverityQuarters

Counts(S, asOf) == [s \in S |-> Contribution(s, asOf)]

\* The contributions are natural numbers.
LEMMA CountsAreNatural ==
    ASSUME NEW S, Scorable(S), NEW asOf
    PROVE  Counts(S, asOf) \in [S -> Nat]
  BY ContributionIsNatural DEF Scorable, Counts

\* What the signals of a set count for together.
LEMMA ContributionsSum ==
    ASSUME NEW S, Scorable(S), NEW asOf
    PROVE  MapThenSumSet(LAMBDA s : Contribution(s, asOf), S) = Sum(S, Counts(S, asOf))
<1> DEFINE T == MapThenSumSet(LAMBDA s : Contribution(s, asOf), S)
           w == Counts(S, asOf)
           F(g) == g = [s \in SUBSET S |->
                          IF s = {} THEN 0
                          ELSE Contribution(CHOOSE x \in s : TRUE, asOf)
                                 + g[s \ {CHOOSE x \in s : TRUE}]]
<1>1. T = (CHOOSE g : F(g))[S]
  BY DEF MapThenSumSet, MapThenFoldSet
<1>2. ASSUME NEW g PROVE F(g) <=> IsSum(g, S, w)
  <2>1. ASSUME NEW s \in SUBSET S, s # {}
        PROVE  w[CHOOSE x \in s : TRUE] = Contribution(CHOOSE x \in s : TRUE, asOf)
    BY <2>1 DEF Counts
  <2>2. [s \in SUBSET S |-> IF s = {} THEN 0
                            ELSE Contribution(CHOOSE x \in s : TRUE, asOf)
                                 + g[s \ {CHOOSE x \in s : TRUE}]]
        = [s \in SUBSET S |-> IF s = {} THEN 0
                              ELSE w[CHOOSE x \in s : TRUE] + g[s \ {CHOOSE x \in s : TRUE}]]
    <3> HIDE DEF w
    <3> QED BY <2>1
  <2> QED BY <2>2 DEF IsSum
<1> HIDE DEF F, T
<1>3. IsFiniteSet(S) /\ w \in [S -> Nat]
  BY CountsAreNatural DEF Scorable
<1> HIDE DEF w
<1>4. /\ \E g : IsSum(g, S, w)
      /\ \A g : IsSum(g, S, w) => g[S] = Sum(S, w)
  BY <1>3, SumIsDefined
<1>5. F(CHOOSE g : F(g))
  BY <1>2, <1>4
<1>6. T = Sum(S, w)
  BY <1>1, <1>2, <1>4, <1>5
<1> QED BY <1>6 DEF T, w

\* Of more signals the sum is greater, per type and of all types.
Grows(S, T) == Scorable(T) /\ S \subseteq T

LEMMA ScorablePart == ASSUME NEW S, NEW T, Grows(S, T) PROVE Scorable(S)
  BY FS_Subset DEF Grows, Scorable

\* The sum of a type grows with the signals.
LEMMA TypeSumGrows ==
    ASSUME NEW S, NEW T, Grows(S, T), NEW asOf, NEW type \in Types
    PROVE  /\ OfType(type, S, asOf) \in Nat /\ OfType(type, T, asOf) \in Nat
           /\ OfType(type, S, asOf) <= OfType(type, T, asOf)
<1> DEFINE A == {s \in S : s.type = type}
           B == {s \in T : s.type = type}
<1>1. Scorable(A) /\ Scorable(B) /\ A \subseteq B
  <2>1. Grows(B, T) /\ Grows(A, T)
    BY DEF Grows
  <2>2. A \subseteq B
    BY DEF Grows
  <2> HIDE DEF A, B
  <2> QED BY <2>1, <2>2, ScorablePart
<1> DEFINE c == Sum(A, Counts(A, asOf))
           d == Sum(B, Counts(B, asOf))
<1>2. /\ MapThenSumSet(LAMBDA s : Contribution(s, asOf), A) = c
      /\ MapThenSumSet(LAMBDA s : Contribution(s, asOf), B) = d
  <2> HIDE DEF A, B
  <2> QED BY <1>1, ContributionsSum
<1> HIDE DEF A, B
<1>3. /\ Counts(A, asOf) \in [A -> Nat] /\ Counts(B, asOf) \in [B -> Nat]
      /\ IsFiniteSet(A) /\ IsFiniteSet(B)
  BY <1>1, CountsAreNatural DEF Scorable
<1>4. \A x \in A : Counts(A, asOf)[x] <= Counts(B, asOf)[x]
  <2>1. \A x \in A : Counts(A, asOf)[x] = Counts(B, asOf)[x] /\ Counts(A, asOf)[x] \in Nat
    BY <1>1, <1>3 DEF Counts
  <2> QED BY <2>1
<1>5. c \in Nat /\ d \in Nat /\ c <= d
  BY <1>1, <1>3, <1>4, SumIsNatural, SumGrows
<1> HIDE DEF c, d
<1> DEFINE k == 16 * Cap[type]
<1>6. k \in Nat
  BY RiskAssumption
<1>7. OfType(type, S, asOf) = Min({c, k}) /\ OfType(type, T, asOf) = Min({d, k})
  BY <1>2 DEF OfType, A, B
<1> HIDE DEF k
<1>8. Min({c, k}) = (IF c <= k THEN c ELSE k) /\ Min({d, k}) = (IF d <= k THEN d ELSE k)
  BY <1>5, <1>6, SmallerOfTwo
<1> QED BY <1>5, <1>6, <1>7, <1>8

\* What the types of the signals add up to.
Aggregate(S, asOf) == MapThenSumSet(LAMBDA t : OfType(t, S, asOf), {s.type : s \in S})
TypeCounts(S, asOf) == [t \in {s.type : s \in S} |-> OfType(t, S, asOf)]

\* The aggregate is a sum over the types.
LEMMA AggregateSum ==
    ASSUME NEW S, Scorable(S), NEW asOf
    PROVE  /\ IsFiniteSet({s.type : s \in S})
           /\ TypeCounts(S, asOf) \in [{s.type : s \in S} -> Nat]
           /\ Aggregate(S, asOf) = Sum({s.type : s \in S}, TypeCounts(S, asOf))
<1> DEFINE U == {s.type : s \in S}
           T == MapThenSumSet(LAMBDA t : OfType(t, S, asOf), U)
           w == TypeCounts(S, asOf)
           F(g) == g = [s \in SUBSET U |->
                          IF s = {} THEN 0
                          ELSE OfType(CHOOSE x \in s : TRUE, S, asOf)
                                 + g[s \ {CHOOSE x \in s : TRUE}]]
<1>1. T = (CHOOSE g : F(g))[U]
  BY DEF MapThenSumSet, MapThenFoldSet
<1>2. ASSUME NEW g PROVE F(g) <=> IsSum(g, U, w)
  <2>1. ASSUME NEW s \in SUBSET U, s # {}
        PROVE  w[CHOOSE x \in s : TRUE] = OfType(CHOOSE x \in s : TRUE, S, asOf)
    BY <2>1 DEF TypeCounts
  <2>2. [s \in SUBSET U |-> IF s = {} THEN 0
                            ELSE OfType(CHOOSE x \in s : TRUE, S, asOf)
                                 + g[s \ {CHOOSE x \in s : TRUE}]]
        = [s \in SUBSET U |-> IF s = {} THEN 0
                              ELSE w[CHOOSE x \in s : TRUE] + g[s \ {CHOOSE x \in s : TRUE}]]
    <3> HIDE DEF w, U
    <3> QED BY <2>1
  <2> QED BY <2>2 DEF IsSum
<1> HIDE DEF F, T
<1>3. IsFiniteSet(U) /\ w \in [U -> Nat]
  <2>1. Grows(S, S)
    BY DEF Grows
  <2>2. \A t \in U : OfType(t, S, asOf) \in Nat
    BY <2>1, TypeSumGrows DEF Scorable
  <2> DEFINE f == [s \in S |-> s.type]
  <2>3. f \in Surjection(S, U)
    BY DEF Surjection
  <2>4. IsFiniteSet(U)
    <3> HIDE DEF f, U
    <3> QED BY <2>3, FS_Surjection DEF Scorable
  <2> QED BY <2>2, <2>4 DEF TypeCounts
<1> HIDE DEF w, U
<1>4. /\ \E g : IsSum(g, U, w)
      /\ \A g : IsSum(g, U, w) => g[U] = Sum(U, w)
  BY <1>3, SumIsDefined
<1>5. F(CHOOSE g : F(g))
  BY <1>2, <1>4
<1>6. T = Sum(U, w)
  BY <1>1, <1>2, <1>4, <1>5
<1> QED BY <1>3, <1>6 DEF Aggregate, T, w, U

\* The aggregate grows with the signals.
LEMMA AggregateGrows ==
    ASSUME NEW S, NEW T, Grows(S, T), NEW asOf
    PROVE  /\ Aggregate(S, asOf) \in Nat /\ Aggregate(T, asOf) \in Nat
           /\ Aggregate(S, asOf) <= Aggregate(T, asOf)
<1> DEFINE U == {s.type : s \in S}
           V == {s.type : s \in T}
<1>1. Scorable(S) /\ Scorable(T)
  BY ScorablePart DEF Grows
<1>2. /\ IsFiniteSet(U) /\ TypeCounts(S, asOf) \in [U -> Nat]
      /\ Aggregate(S, asOf) = Sum(U, TypeCounts(S, asOf))
      /\ IsFiniteSet(V) /\ TypeCounts(T, asOf) \in [V -> Nat]
      /\ Aggregate(T, asOf) = Sum(V, TypeCounts(T, asOf))
  BY <1>1, AggregateSum
<1>3. U \subseteq V /\ V \subseteq Types
  BY <1>1 DEF Grows, Scorable
<1>4. \A t \in U : TypeCounts(S, asOf)[t] <= TypeCounts(T, asOf)[t]
  BY <1>3, TypeSumGrows DEF TypeCounts
<1> HIDE DEF U, V
<1> QED BY <1>2, <1>3, <1>4, SumIsNatural, SumGrows

\* There is something to normalize by.
LEMMA MaxAggregateIsPositive == MaxAggregate \in Nat /\ MaxAggregate > 0
<1> DEFINE F(g) == g = [s \in SUBSET Types |->
                          IF s = {} THEN 0
                          ELSE Cap[CHOOSE x \in s : TRUE] + g[s \ {CHOOSE x \in s : TRUE}]]
           w == [t \in Types |-> Cap[t]]
<1>1. MaxAggregate = (CHOOSE g : F(g))[Types]
  BY DEF MaxAggregate, MapThenSumSet, MapThenFoldSet
<1>2. ASSUME NEW g PROVE F(g) <=> IsSum(g, Types, w)
  <2>1. ASSUME NEW s \in SUBSET Types, s # {}
        PROVE  w[CHOOSE x \in s : TRUE] = Cap[CHOOSE x \in s : TRUE]
    BY <2>1
  <2>2. [s \in SUBSET Types |-> IF s = {} THEN 0
                       ELSE Cap[CHOOSE x \in s : TRUE] + g[s \ {CHOOSE x \in s : TRUE}]]
        = [s \in SUBSET Types |-> IF s = {} THEN 0
                       ELSE w[CHOOSE x \in s : TRUE] + g[s \ {CHOOSE x \in s : TRUE}]]
    <3> HIDE DEF w
    <3> QED BY <2>1
  <2> QED BY <2>2 DEF IsSum
<1> HIDE DEF F
<1>3. IsFiniteSet(Types) /\ w \in [Types -> Nat]
  BY RiskAssumption
<1>4. PICK t \in Types : w[t] > 0
  BY RiskAssumption
<1> HIDE DEF w
<1>5. /\ \E g : IsSum(g, Types, w)
      /\ \A g : IsSum(g, Types, w) => g[Types] = Sum(Types, w)
  BY <1>3, SumIsDefined
<1>6. F(CHOOSE g : F(g))
  BY <1>2, <1>5
<1>7. MaxAggregate = Sum(Types, w)
  BY <1>1, <1>2, <1>5, <1>6
<1>8. Sum(Types, w) \in Nat /\ Sum({t}, w) = w[t]
  BY <1>3, SumIsNatural, SumOfOne
<1>9. Sum({t}, w) <= Sum(Types, w)
  <2> DEFINE v == [x \in {t} |-> w[x]]
  <2>1. v \in [{t} -> Nat] /\ \A x \in {t} : v[x] <= w[x]
    BY <1>3
  <2>2. Sum({t}, v) = Sum({t}, w)
    <3>1. Units({t}, v) = Units({t}, w)
      BY DEF Units
    <3> QED BY <3>1 DEF Sum
  <2> HIDE DEF v
  <2> QED BY <1>3, <2>1, <2>2, SumGrows
<1>10. w[t] \in Nat
  BY <1>3
<1> QED BY <1>4, <1>7, <1>8, <1>9, <1>10

\* More signals never lower a score, which is one of 0 .. 100.
LEMMA ScoreGrows ==
    ASSUME NEW S, NEW T, Grows(S, T), NEW asOf
    PROVE  /\ Score(S, asOf) \in 0 .. 100 /\ Score(T, asOf) \in 0 .. 100
           /\ Score(S, asOf) <= Score(T, asOf)
<1> DEFINE a == Aggregate(S, asOf)
           b == Aggregate(T, asOf)
           m == MaxAggregate
           x == 200 * a + 16 * m
           y == 200 * b + 16 * m
           d == 32 * m
<1>1. a \in Nat /\ b \in Nat /\ a <= b /\ m \in Nat /\ m > 0
  BY AggregateGrows, MaxAggregateIsPositive
<1> HIDE DEF a, b, m
<1>2. x \in Nat /\ y \in Nat /\ x <= y /\ d \in Nat /\ d > 0
  BY <1>1
<1>3. Score(S, asOf) = Min({100, x \div d}) /\ Score(T, asOf) = Min({100, y \div d})
  BY DEF Score, Normalized, Aggregate, a, b, m
<1> HIDE DEF x, y, d
<1>4. x \div d \in Nat /\ y \div d \in Nat /\ x \div d <= y \div d
  BY <1>2, QuotientGrows
<1> DEFINE p == x \div d
           q == y \div d
<1> HIDE DEF p, q
<1>5. Min({100, p}) = (IF 100 <= p THEN 100 ELSE p) /\ Min({100, q}) = (IF 100 <= q THEN 100 ELSE q)
  BY <1>4, SmallerOfTwo DEF p, q
<1> QED BY <1>3, <1>4, <1>5 DEF p, q

-----------------------------------------------------------------------------
(* Risk profiles.                                                          *)

Asking ==
    {Quiet} \union [pc : {"load"}, entity : Entities, asOf : Days]
        \union [pc : {"look", "insert"}, entity : Entities, asOf : Days, made : Days,
                signals : SUBSET Signal]

\* What was loaded at the day `made' for the end of the day asOf: signals that are
\* there, and for a day that had passed all but those that were committed since.
LoadedAt(made, signals, entity, asOf) ==
    /\ made <= today
    /\ signals \subseteq SignalsOf(entity, asOf)
    /\ asOf < made =>
          \A s \in SignalsOf(entity, asOf) \ signals : s.day < s.seen /\ made <= s.seen

GoodRequest(a) ==
    /\ a \in Asking
    /\ a.pc \in {"look", "insert"} => LoadedAt(a.made, a.signals, a.entity, a.asOf)

GoodProfile(p) ==
    /\ p \in ProfileRow
    /\ p.score = Score(Views(p.signals), p.asOf)
    /\ LoadedAt(p.made, p.signals, p.entity, p.asOf)

\* One row for an entity and a day.
OneProfile == \A p, q \in profiles : p.entity = q.entity /\ p.asOf = q.asOf => p = q

\* What was detected are signals, and some number of them are committed.
FoundOK ==
    /\ due \subseteq [day : Days, finding : Findings]
    /\ found \subseteq Signal /\ IsFiniteSet(found)

RiskInv ==
    /\ today \in Days /\ FoundOK /\ asks \in 0 .. MaxAsks
    /\ ask \in [Askers -> Asking] /\ \A r \in Askers : GoodRequest(ask[r])
    /\ \A p \in profiles : GoodProfile(p)
    /\ OneProfile
    /\ answers \subseteq profiles

\* The first of some days.
LEMMA FirstDay ==
    ASSUME NEW B \in SUBSET Days, B # {}
    PROVE  Min(B) \in B /\ \A j \in B : Min(B) <= j
<1>1. IsFiniteSet(B)
  BY ProfileAssumption, FS_Subset
<1>2. B \in SUBSET Int
  BY ProfileAssumption
<1> QED BY <1>1, <1>2, FirstNumber

\* The day after today.
LEMMA ComingDay ==
    ASSUME today \in Days, Tick
    PROVE  today' \in Days /\ today < today'
<1> DEFINE later == {n \in Days : n > today}
<1>1. later \in SUBSET Days /\ later # {} /\ today' = Min(later)
  BY DEF Tick
<1>2. Min(later) \in later
  BY <1>1, FirstDay
<1>3. today' \in Days /\ today' > today
  BY <1>1, <1>2
<1> QED BY <1>3, ProfileAssumption

\* What was loaded stays so, as a signal committed later is seen on no earlier day.
LEMMA LoadedStays ==
    ASSUME RiskInv, RiskNext,
           NEW made \in Days, NEW signals, NEW e, NEW d \in Days, LoadedAt(made, signals, e, d)
    PROVE  LoadedAt(made, signals, e, d)'
<1>1. made \in Nat /\ d \in Nat /\ today \in Nat
  BY ProfileAssumption DEF RiskInv
<1>2. ASSUME UNCHANGED <<found, today>> PROVE LoadedAt(made, signals, e, d)'
  BY <1>2 DEF LoadedAt, SignalsOf
<1>3. CASE Tick
  <2>1. today' \in Days /\ today < today' /\ UNCHANGED found
    BY <1>3, ComingDay DEF RiskInv, Tick
  <2>2. today' \in Nat
    BY <2>1, ProfileAssumption
  <2> QED BY <1>1, <2>1, <2>2 DEF LoadedAt, SignalsOf
<1>4. ASSUME NEW x \in due, CommitSignal(x) PROVE LoadedAt(made, signals, e, d)'
  <2> DEFINE s == [day |-> x.day, finding |-> x.finding, seen |-> today]
  <2>1. UNCHANGED today /\ (found' = found \/ found' = found \union {s})
    BY <1>4 DEF CommitSignal
  <2>2. s.seen = today /\ s.day \in Nat
    BY ProfileAssumption DEF RiskInv, FoundOK
  <2> HIDE DEF s
  <2>3. CASE found' = found
    BY <1>2, <2>1, <2>3
  <2>4. CASE found' = found \union {s}
    <3>1. SignalsOf(e, d) \subseteq SignalsOf(e, d)' /\ SignalsOf(e, d)' \subseteq SignalsOf(e, d) \union {s}
      BY <2>4 DEF SignalsOf
    <3>2. s \in SignalsOf(e, d)' => s.day <= d
      BY DEF SignalsOf
    <3>3. made <= today /\ (d < made /\ s.day <= d => s.day < s.seen)
      BY <1>1, <2>2 DEF LoadedAt
    <3> QED BY <2>1, <2>2, <3>1, <3>2, <3>3 DEF LoadedAt
  <2> QED BY <2>1, <2>3, <2>4
<1>7. ASSUME NEW f \in Findings, Detect(f) PROVE UNCHANGED <<found, today>>
  BY <1>7 DEF Detect
<1>8. ASSUME NEW x \in due, DropSignal(x) PROVE UNCHANGED <<found, today>>
  BY <1>8 DEF DropSignal
<1>5. ASSUME NEW r \in Askers, NEW x \in Entities, NEW n \in Days, Ask(r, x, n)
      PROVE  UNCHANGED <<found, today>>
  BY <1>5 DEF Ask
<1>6. ASSUME NEW r \in Askers, Load(r) \/ Look(r) \/ Insert(r) PROVE UNCHANGED <<found, today>>
  BY <1>6 DEF Load, Look, Insert
<1> QED BY <1>2, <1>3, <1>4, <1>5, <1>6, <1>7, <1>8 DEF RiskNext

\* What a request has loaded stays true of the tables, and so does a row.
LEMMA RequestStays ==
    ASSUME RiskInv, RiskNext, NEW a, GoodRequest(a)
    PROVE  GoodRequest(a)'
<1>1. CASE a.pc \in {"look", "insert"}
  <2>1. a.made \in Days /\ a.asOf \in Days
    BY <1>1 DEF GoodRequest, Asking, Quiet
  <2> QED BY <1>1, <2>1, LoadedStays DEF GoodRequest
<1>2. CASE a.pc \notin {"look", "insert"}
  BY <1>2 DEF GoodRequest
<1> QED BY <1>1, <1>2

\* A good profile stays good.
LEMMA ProfileStays ==
    ASSUME RiskInv, RiskNext, NEW p, GoodProfile(p)
    PROVE  GoodProfile(p)'
<1>1. p \in ProfileRow /\ p.made \in Days /\ p.asOf \in Days
  BY DEF GoodProfile, ProfileRow
<1>2. LoadedAt(p.made, p.signals, p.entity, p.asOf)'
  BY <1>1, LoadedStays DEF GoodProfile
<1> QED BY <1>1, <1>2 DEF GoodProfile

\* A step that leaves the rows, and of the requests all but one.
LEMMA OneRequestMoves ==
    ASSUME RiskInv, RiskNext, NEW r \in Askers, NEW a, GoodRequest(a),
           ask' = [ask EXCEPT ![r] = a]
    PROVE  ask' \in [Askers -> Asking] /\ \A s \in Askers : GoodRequest(ask[s])'
<1>1. a \in Asking /\ ask \in [Askers -> Asking] /\ \A s \in Askers : GoodRequest(ask[s])
  BY DEF GoodRequest, RiskInv
<1>2. ASSUME NEW s \in Askers PROVE GoodRequest(ask[s])'
  <2>1. PICK b : b = ask'[s]
    OBVIOUS
  <2>2. b = a \/ b = ask[s]
    BY <1>1, <2>1
  <2>3. GoodRequest(b)
    BY <1>1, <2>2
  <2>4. GoodRequest(b)'
    BY <2>3, RequestStays
  <2> QED BY <2>1, <2>4 DEF GoodRequest, LoadedAt, SignalsOf
<1> QED BY <1>1, <1>2

\* A step that leaves the requests.
LEMMA RequestsStay ==
    ASSUME RiskInv, RiskNext, UNCHANGED ask
    PROVE  ask' \in [Askers -> Asking] /\ \A s \in Askers : GoodRequest(ask[s])'
<1>1. ASSUME NEW s \in Askers PROVE GoodRequest(ask[s])'
  <2>1. PICK b : b = ask[s]
    OBVIOUS
  <2>2. GoodRequest(b)'
    BY <2>1, RequestStays DEF RiskInv
  <2> QED BY <2>1, <2>2 DEF GoodRequest, LoadedAt, SignalsOf
<1> QED BY <1>1 DEF RiskInv

\* Somebody who asks for nothing.
LEMMA QuietIsGood == GoodRequest(Quiet)
  BY DEF GoodRequest, Asking, Quiet

\* A step that leaves the rows.
LEMMA RowsStay ==
    ASSUME RiskInv, RiskNext, UNCHANGED profiles
    PROVE  (\A p \in profiles : GoodProfile(p))' /\ OneProfile'
<1>1. ASSUME NEW p \in profiles PROVE GoodProfile(p)'
  BY ProfileStays DEF RiskInv
<1> QED BY <1>1 DEF RiskInv, OneProfile

\* A signal has a day and what was detected, and requests are counted.
LEMMA FoundIsTyped ==
    ASSUME RiskInv, RiskNext
    PROVE  FoundOK' /\ asks' \in 0 .. MaxAsks
<1>0. asks \in 0 .. MaxAsks /\ MaxAsks \in Nat
  BY ProfileAssumption DEF RiskInv
<1>1. ASSUME NEW f \in Findings, Detect(f) PROVE FoundOK' /\ UNCHANGED asks
  <2>1. due' = due \union {[day |-> today, finding |-> f]} /\ UNCHANGED <<found, asks>>
    BY <1>1 DEF Detect
  <2>2. [day |-> today, finding |-> f] \in [day : Days, finding : Findings]
    BY DEF RiskInv
  <2> QED BY <2>1, <2>2 DEF RiskInv, FoundOK
<1>2. ASSUME UNCHANGED <<due, found>> PROVE FoundOK'
  BY <1>2 DEF RiskInv, FoundOK
<1>3. Tick => UNCHANGED <<due, found, asks>>
  BY DEF Tick
<1>4. ASSUME NEW r \in Askers, NEW e \in Entities, NEW d \in Days, Ask(r, e, d)
      PROVE  UNCHANGED <<due, found>> /\ asks' \in 0 .. MaxAsks
  BY <1>0, <1>4 DEF Ask
<1>5. ASSUME NEW r \in Askers, Load(r) \/ Look(r) \/ Insert(r)
      PROVE  UNCHANGED <<due, found, asks>>
  BY <1>5 DEF Load, Look, Insert
<1>6. ASSUME NEW x \in due, CommitSignal(x) PROVE FoundOK' /\ UNCHANGED asks
  <2> DEFINE s == [day |-> x.day, finding |-> x.finding, seen |-> today]
  <2>1. /\ due' = due \ {x} /\ UNCHANGED asks
        /\ found' = found \/ found' = found \union {s}
    BY <1>6 DEF CommitSignal
  <2>2. s \in Signal
    BY DEF RiskInv, FoundOK, Signal
  <2> HIDE DEF s
  <2>3. IsFiniteSet(found \union {s})
    BY FS_AddElement DEF RiskInv, FoundOK
  <2> QED BY <2>1, <2>2, <2>3 DEF RiskInv, FoundOK
<1>7. ASSUME NEW x \in due, DropSignal(x) PROVE FoundOK' /\ UNCHANGED asks
  BY <1>7 DEF DropSignal, RiskInv, FoundOK
<1> QED BY <1>0, <1>1, <1>2, <1>3, <1>4, <1>5, <1>6, <1>7 DEF RiskNext

\* What was loaded has a score, and the score of what is there now is no smaller.
LEMMA LoadedIsScored ==
    ASSUME RiskInv, NEW signals, NEW made, NEW e, NEW d, LoadedAt(made, signals, e, d)
    PROVE  /\ Score(Views(signals), d) \in 0 .. 100
           /\ Score(Views(signals), d) <= Score(Views(SignalsOf(e, d)), d)
<1>1. signals \subseteq SignalsOf(e, d) /\ SignalsOf(e, d) \subseteq found
  BY DEF LoadedAt, SignalsOf
<1>2. Grows(Views(signals), Views(SignalsOf(e, d)))
  <2> DEFINE S == SignalsOf(e, d)
             v == [s \in S |-> [type |-> s.finding.type, severity |-> s.finding.severity,
                                day |-> s.day, name |-> s.finding]]
  <2>1. IsFiniteSet(S)
    BY <1>1, FS_Subset DEF RiskInv, FoundOK
  <2>2. v \in Surjection(S, Views(S))
    BY DEF Surjection, Views
  <2>3. IsFiniteSet(Views(S))
    <3> HIDE DEF S, v
    <3> QED BY <2>1, <2>2, FS_Surjection
  <2>4. ASSUME NEW x \in Views(S)
        PROVE  x.type \in Types /\ x.severity \in DOMAIN SeverityQuarters
    <3>1. PICK s \in S : x = [type |-> s.finding.type, severity |-> s.finding.severity,
                              day |-> s.day, name |-> s.finding]
      BY DEF Views
    <3>2. s \in Signal
      BY <1>1 DEF RiskInv, FoundOK
    <3>3. s.finding \in Findings
      BY <3>2 DEF Signal
    <3> QED BY <3>1, <3>3, ProfileAssumption
  <2>5. Views(signals) \subseteq Views(S)
    BY <1>1 DEF Views
  <2> HIDE DEF S
  <2>6. Scorable(Views(S))
    BY <2>3, <2>4 DEF Scorable
  <2> QED BY <2>5, <2>6 DEF Grows, S
<1> QED BY <1>2, ScoreGrows

\* The invariant is inductive.
LEMMA RiskInvStep ==
    ASSUME RiskInv, RiskNext
    PROVE  RiskInv'
<1>1. CASE Tick
  <2>1. today' \in Days /\ UNCHANGED <<profiles, ask, answers>>
    BY <1>1, ComingDay DEF RiskInv, Tick
  <2> QED BY <2>1, RequestsStay, RowsStay, FoundIsTyped DEF RiskInv
<1>2. ASSUME (\E f \in Findings : Detect(f)) \/ \E x \in due : CommitSignal(x) \/ DropSignal(x)
      PROVE  RiskInv'
  <2>1. UNCHANGED <<today, profiles, ask, answers>>
    BY <1>2 DEF Detect, CommitSignal, DropSignal
  <2> QED BY <2>1, RequestsStay, RowsStay, FoundIsTyped DEF RiskInv
<1>3. ASSUME NEW r \in Askers, NEW e \in Entities, NEW d \in Days, Ask(r, e, d) PROVE RiskInv'
  <2> DEFINE a == [pc |-> "load", entity |-> e, asOf |-> d]
  <2>1. GoodRequest(a)
    BY DEF GoodRequest, Asking
  <2>2. UNCHANGED <<today, profiles>>
    BY <1>3 DEF Ask
  <2>3. ask' = [ask EXCEPT ![r] = Quiet] \/ ask' = [ask EXCEPT ![r] = a]
    BY <1>3 DEF Ask, Answer
  <2>4. answers' \subseteq profiles
    BY <1>3 DEF Ask, Answer, Stored, RiskInv
  <2> HIDE DEF a
  <2>5. ask' \in [Askers -> Asking] /\ \A s \in Askers : GoodRequest(ask[s])'
    BY <2>1, <2>3, OneRequestMoves, QuietIsGood
  <2> QED BY <2>2, <2>4, <2>5, RowsStay, FoundIsTyped DEF RiskInv
<1>4. ASSUME NEW r \in Askers, Load(r) PROVE RiskInv'
  <2> DEFINE a == [pc |-> "look", entity |-> ask[r].entity, asOf |-> ask[r].asOf,
                   made |-> today, signals |-> SignalsOf(ask[r].entity, ask[r].asOf)]
  <2>1. ask[r].pc = "load" /\ ask[r] \in Asking /\ ask' = [ask EXCEPT ![r] = a]
        /\ UNCHANGED <<today, profiles, answers>>
    BY <1>4 DEF Load, Loaded, RiskInv
  <2>2. ask[r].entity \in Entities /\ ask[r].asOf \in Days /\ today \in Days /\ today \in Nat
    BY <2>1, ProfileAssumption DEF Asking, Quiet, RiskInv
  <2>3. a.signals \in SUBSET Signal
    BY DEF RiskInv, FoundOK, SignalsOf
  <2>4. GoodRequest(a)
    BY <2>2, <2>3 DEF GoodRequest, LoadedAt, Asking
  <2> HIDE DEF a
  <2>5. PICK b : b = a
    OBVIOUS
  <2>6. ask' \in [Askers -> Asking] /\ \A s \in Askers : GoodRequest(ask[s])'
    BY <2>1, <2>4, <2>5, OneRequestMoves
  <2> QED BY <2>1, <2>6, RowsStay, FoundIsTyped DEF RiskInv
<1>5. ASSUME NEW r \in Askers, Look(r) PROVE RiskInv'
  <2>1. ask[r].pc = "look" /\ ask[r] \in Asking /\ GoodRequest(ask[r])
        /\ UNCHANGED <<today, profiles>>
    BY <1>5 DEF Look, RiskInv
  <2>2. PICK b : b = [ask[r] EXCEPT !.pc = "insert"]
    OBVIOUS
  <2>3. GoodRequest(b)
    BY <2>1, <2>2 DEF GoodRequest, Asking, Quiet
  <2>4. ask' = [ask EXCEPT ![r] = Quiet] \/ ask' = [ask EXCEPT ![r] = b]
    BY <1>5, <2>2 DEF Look, Answer, RiskInv
  <2>5. answers' \subseteq profiles
    BY <1>5 DEF Look, Answer, Stored, RiskInv
  <2>6. ask' \in [Askers -> Asking] /\ \A s \in Askers : GoodRequest(ask[s])'
    BY <2>3, <2>4, OneRequestMoves, QuietIsGood
  <2> QED BY <2>1, <2>5, <2>6, RowsStay, FoundIsTyped DEF RiskInv
<1>6. ASSUME NEW r \in Askers, Insert(r) PROVE RiskInv'
  <2>1. ask[r].pc = "insert" /\ ask[r] \in Asking /\ GoodRequest(ask[r])
        /\ UNCHANGED today /\ ask' = [ask EXCEPT ![r] = Quiet]
    BY <1>6 DEF Insert, Answer, RiskInv
  <2>2. ask' \in [Askers -> Asking] /\ \A s \in Askers : GoodRequest(ask[s])'
    BY <2>1, OneRequestMoves, QuietIsGood
  <2>3. CASE UNCHANGED <<profiles, answers>>
    BY <2>1, <2>2, <2>3, RowsStay, FoundIsTyped DEF RiskInv
  <2>4. CASE ~Conflicts(r) /\ profiles' = profiles \union {Profile(r)}
             /\ answers' = answers \union {Profile(r)}
    <3>1. PICK p : p = Profile(r)
      OBVIOUS
    <3>2. p.entity = ask[r].entity /\ p.asOf = ask[r].asOf /\ p.signals = ask[r].signals
          /\ p.made = ask[r].made /\ p.score = Score(Views(ask[r].signals), ask[r].asOf)
      BY <3>1 DEF Profile
    <3>3. ask[r].asOf \in Days /\ ask[r].made \in Days
          /\ LoadedAt(ask[r].made, ask[r].signals, ask[r].entity, ask[r].asOf)
      BY <2>1 DEF GoodRequest, Asking, Quiet
    <3>4. GoodProfile(p)
      <4>1. p.score \in 0 .. 100
        BY <3>2, <3>3, LoadedIsScored
      <4>2. ask[r].entity \in Entities /\ ask[r].signals \in SUBSET Signal
        BY <2>1 DEF Asking, Quiet
      <4>3. p = [entity |-> ask[r].entity, asOf |-> ask[r].asOf, signals |-> ask[r].signals,
                 score |-> p.score, band |-> Band(p.score), made |-> ask[r].made]
        BY <3>1, <3>2 DEF Profile
      <4>4. Band(p.score) \in {"LOW", "MEDIUM", "HIGH", "CRITICAL"}
        BY DEF Band
      <4>5. p \in ProfileRow
        BY <3>3, <4>1, <4>2, <4>3, <4>4 DEF ProfileRow, Signal
      <4> QED BY <3>2, <3>3, <4>5 DEF GoodProfile
    <3>5. \A q \in profiles : ~(q.entity = p.entity /\ q.asOf = p.asOf)
      BY <2>4, <3>2 DEF Conflicts, Stored
    <3>6. ASSUME NEW q \in profiles' PROVE GoodProfile(q)'
      BY <2>4, <3>1, <3>4, <3>6, ProfileStays DEF RiskInv
    <3>7. OneProfile'
      BY <2>4, <3>1, <3>5 DEF OneProfile, RiskInv
    <3>8. answers' \subseteq profiles'
      BY <2>4 DEF RiskInv
    <3> QED BY <2>1, <2>2, <3>6, <3>7, <3>8, FoundIsTyped DEF RiskInv
  <2> QED BY <1>6, <2>3, <2>4 DEF Insert, Answer
<1> QED BY <1>1, <1>2, <1>3, <1>4, <1>5, <1>6 DEF RiskNext

\* _persist_profile, "Historical rows are never overwritten" and "Only signals with
\* detected_at <= as_of are included": whoever asks for an entity at a day is told the
\* same; no signal of a later day counts, and calculating it again would never give
\* less; and for a day that had passed, the answer misses only signals that were
\* committed after it on a later day than they were found on.
THEOREM AnswersStand == RiskSpec => []ProfilesStand
<1>1. RiskInit => RiskInv
  <2> SUFFICES ASSUME RiskInit PROVE RiskInv
    OBVIOUS
  <2>1. today \in Days
    BY FirstDay, ProfileAssumption DEF RiskInit
  <2>5. FoundOK /\ asks \in 0 .. MaxAsks
    BY ProfileAssumption, FS_EmptySet DEF RiskInit, FoundOK
  <2>2. \A r \in Askers : ask[r] = Quiet
    BY DEF RiskInit
  <2>3. ask \in [Askers -> Asking]
    BY DEF RiskInit, Asking
  <2>4. \A r \in Askers : GoodRequest(ask[r])
    BY <2>2, QuietIsGood
  <2> QED BY <2>1, <2>3, <2>4, <2>5 DEF RiskInit, RiskInv, OneProfile
<1>2. RiskInv /\ [RiskNext]_riskVars => RiskInv'
  <2>1. ASSUME RiskInv, UNCHANGED riskVars PROVE RiskInv'
    BY <2>1 DEF riskVars, RiskInv, FoundOK, GoodRequest, GoodProfile, LoadedAt, SignalsOf,
                OneProfile
  <2> QED BY <2>1, RiskInvStep
<1>3. RiskInv => ProfilesStand
  <2> SUFFICES ASSUME RiskInv PROVE ProfilesStand
    OBVIOUS
  <2>1. AnswersAgree
    BY DEF RiskInv, OneProfile, AnswersAgree
  <2>2. ProfileIsPointInTime
    <3> SUFFICES ASSUME NEW p \in profiles
                 PROVE  /\ p.signals \subseteq SignalsOf(p.entity, p.asOf)
                        /\ p.score <= Score(Views(SignalsOf(p.entity, p.asOf)), p.asOf)
                        /\ p.asOf < p.made =>
                              \A s \in SignalsOf(p.entity, p.asOf) \ p.signals :
                                 s.day < s.seen /\ p.made <= s.seen
      BY DEF ProfileIsPointInTime
    <3>1. /\ p.score = Score(Views(p.signals), p.asOf)
          /\ LoadedAt(p.made, p.signals, p.entity, p.asOf)
      BY DEF RiskInv, GoodProfile
    <3> QED BY <3>1, LoadedIsScored DEF LoadedAt
  <2>3. RiskTypeOK
    <3>1. ASSUME NEW r \in Askers PROVE ask[r] = Quiet \/ ask[r].pc \in {"load", "look", "insert"}
      BY DEF RiskInv, Asking
    <3>2. profiles \subseteq ProfileRow
      BY DEF RiskInv, GoodProfile
    <3> QED BY <3>1, <3>2 DEF RiskTypeOK, RiskInv, FoundOK, Signal
  <2> QED BY <2>1, <2>2, <2>3 DEF ProfilesStand
<1> QED BY <1>1, <1>2, <1>3, PTL DEF RiskSpec

-----------------------------------------------------------------------------
(* Readers: the inductive invariant.                                       *)

\* A table: every id is of one row.
Table(S) ==
    /\ S \subseteq Rows /\ IsFiniteSet(S)
    /\ \A r, q \in S : r.id = q.id => r = q

\* What a reader holds.
WalkState ==
    [mode : {"offset", "cursor"}, filter : RowStatuses \union {"any"}, offset : Nat,
     cursor : [stamp : Stamps \union {-1}, id : Nat], counted : BOOLEAN, total : Nat,
     seen : Seq(Rows),
     began : SUBSET Rows, moved : SUBSET Ids, done : BOOLEAN]

\* A row that was read is still listed, with another status perhaps.
Stays(r, S) == \E q \in S : q.id = r.id /\ q.stamp = r.stamp

Lists(filter, r) == filter \in {"any", r.status}

InWalk(w, id) == \E i \in DOMAIN w.seen : w.seen[i].id = id

Begun(w, S) == \A r \in w.began : r.id \notin w.moved => r \in S /\ Lists(w.filter, r)

Passed(r, cursor) == cursor.stamp # -1 /\ ~After(r, cursor)

\* What the cursor has passed is what was read, and among it all that the list
\* had from the beginning.
CursorInv(w, S) ==
    /\ \A i \in DOMAIN w.seen : Stays(w.seen[i], S)
    /\ \A i, j \in DOMAIN w.seen : w.seen[i].id = w.seen[j].id => i = j
    /\ ~w.done => \A i \in DOMAIN w.seen : Passed(w.seen[i], w.cursor)
    /\ \A r \in w.began :
          r.id \notin w.moved /\ (w.done \/ Passed(r, w.cursor)) => InWalk(w, r.id)

\* No other row of S has the time of r.
Alone(r, S) == \A q \in S : q.stamp = r.stamp => q.id = r.id

Newer(r, filter, S) == {q \in S : Lists(filter, q) /\ q.stamp > r.stamp}

\* A row that was not read yet has as many newer ones as were passed over, and
\* the walk ends when that is what was counted.
OffsetInv(w, S) ==
    /\ w.done => w.offset >= w.total
    /\ w.moved = {} => \A r \in w.began :
          Alone(r, S) => InWalk(w, r.id) \/ Cardinality(Newer(r, w.filter, S)) >= w.offset

WalkInv(w, S) ==
    \/ w = NoWalk
    \/ /\ w \in WalkState /\ Begun(w, S)
       /\ w.mode = "cursor" => CursorInv(w, S)
       /\ w.mode = "offset" => OffsetInv(w, S)

\* A row of the dashboard is among the newest of all kinds.
Few(r, S) == Cardinality({q \in Faces(S) : q.stamp >= r.stamp}) <= Min({PerFeed, ActivityLimit})

\* The kinds that were read have given their newest rows.
BoardInv(b, S) ==
    \/ b = NoBoard
    \/ /\ b.mode = "activity" /\ b.read \in 0 .. Len(Feeds)
       /\ b.began \subseteq Faces(S) /\ b.items \subseteq Faces(S)
       /\ \A r \in b.began : Few(r, S) =>
             /\ \A i \in 1 .. b.read : Feeds[i] = FeedOf[r.id] => r \in b.items
             /\ b.read = Len(Feeds) => r \in b.shown

ReadInv == Table(listed) /\ WalkInv(walk, listed) /\ BoardInv(board, listed)

-----------------------------------------------------------------------------
(* Readers: pages.                                                         *)

\* What is on a page.
LEMMA PageIs ==
    ASSUME NEW S, IsFiniteSet(S), NEW s \in SetToSeqs(S), NEW offset \in Nat
    PROVE  /\ Page(s, offset) \in Seq(S)
           /\ \A i \in DOMAIN Page(s, offset) :
                 offset + i \in DOMAIN s /\ i <= PageSize /\ Page(s, offset)[i] = s[offset + i]
           /\ \A k \in DOMAIN s : k > offset /\ k <= offset + PageSize =>
                 k - offset \in DOMAIN Page(s, offset) /\ Page(s, offset)[k - offset] = s[k]
           /\ Len(s) > offset + PageSize => Len(Page(s, offset)) = PageSize
<1>1. PICK m \in Nat : m = Len(s) /\ DOMAIN s = 1 .. m /\ \A i \in DOMAIN s : s[i] \in S
  BY EachHasAPlace
<1>2. PageSize \in Nat \ {0}
  BY ReadModelsAssumption
<1>a. PICK a \in Nat : a = offset + PageSize
  BY <1>2
<1>3. PICK e \in Nat : e = Min({a, m}) /\ (e = a \/ e = m) /\ e <= a /\ e <= m
  <2>1. {a, m} \in SUBSET Int /\ {a, m} # {}
    OBVIOUS
  <2>2. IsFiniteSet({a, m})
    <3>1. {a, m} = {a} \union {m}
      OBVIOUS
    <3>2. IsFiniteSet({a})
      BY FS_Singleton
    <3> QED BY <3>1, <3>2, FS_AddElement
  <2>3. Min({a, m}) \in {a, m} /\ \A j \in {a, m} : Min({a, m}) <= j
    BY <2>1, <2>2, FirstNumber
  <2> QED BY <2>3
<1>4. Page(s, offset) = [i \in 1 .. e - offset |-> s[offset + i]]
  <2>1. Page(s, offset) = SubSeq(s, offset + 1, e)
    BY <1>1, <1>a, <1>3 DEF Page
  <2>2. SubSeq(s, offset + 1, e) = [i \in 1 .. (1 + e - (offset + 1)) |-> s[i + (offset + 1) - 1]]
    BY DEF SubSeq
  <2>4. 1 .. (1 + e - (offset + 1)) = 1 .. e - offset
    OBVIOUS
  <2>5. \A i \in 1 .. e - offset : i + (offset + 1) - 1 = offset + i
    OBVIOUS
  <2> QED BY <2>1, <2>2, <2>4, <2>5
<1>5. DOMAIN Page(s, offset) = 1 .. e - offset
  BY <1>4
<1>6. \A i \in 1 .. e - offset : offset + i \in DOMAIN s /\ i <= PageSize
  BY <1>1, <1>2, <1>a, <1>3
<1>7. Page(s, offset) \in Seq(S) /\ (e > offset => Len(Page(s, offset)) = e - offset)
  <2>1. CASE e > offset
    <3>1. e - offset \in Nat
      BY <1>1, <1>2, <1>a, <1>3, <2>1
    <3>2. Page(s, offset) \in [1 .. e - offset -> S]
      BY <1>1, <1>4, <1>6
    <3> QED BY <3>1, <3>2
  <2>2. CASE ~(e > offset)
    <3>1. 1 .. e - offset = {}
      BY <1>1, <1>2, <1>a, <1>3, <2>2
    <3>2. Page(s, offset) = <<>>
      BY <1>4, <3>1
    <3> QED BY <3>2, <2>2
  <2> QED BY <2>1, <2>2
<1>8. \A k \in DOMAIN s : k > offset /\ k <= a => k - offset \in 1 .. e - offset
  BY <1>1, <1>2, <1>a, <1>3
<1>9. \A k \in DOMAIN s : offset + (k - offset) = k
  BY <1>1
<1>10. m > a => e > offset /\ e - offset = PageSize
  BY <1>1, <1>2, <1>a, <1>3
<1> QED BY <1>1, <1>a, <1>4, <1>5, <1>6, <1>7, <1>8, <1>9, <1>10

\* The order of the cursor.
Earlier(r, q) == r.stamp > q.stamp \/ (r.stamp = q.stamp /\ r.id >= q.id)

InCursorOrder(s) == \A i, j \in DOMAIN s : i < j => Earlier(s[i], s[j])

\* Any table can be put into that order.
LEMMA CursorOrderExists ==
    ASSUME NEW S, Table(S)
    PROVE  \E s \in SetToSeqs(S) : InCursorOrder(s)
<1> DEFINE R == {p \in S \X S : Earlier(p[1], p[2])}
<1>1. \A r \in S : r.stamp \in Nat /\ r.id \in Nat
  BY ReadModelsAssumption DEF Table, Rows
<1>2. InOrder(S, R)
  BY <1>1 DEF InOrder, Earlier
<1> HIDE DEF R
<1>3. PICK s : Sorts(s, S, R)
  BY <1>2, SortedExists DEF Table
<1>4. Cardinality(S) \in Nat
  BY FS_CardinalityType DEF Table
<1>5. s \in SetToSeqs(S)
  <2>1. s \in [1 .. Cardinality(S) -> S]
    BY <1>3 DEF Sorts
  <2>2. ASSUME NEW i \in 1 .. Cardinality(S), NEW j \in 1 .. Cardinality(S), i # j PROVE s[i] # s[j]
    <3>1. DOMAIN s = 1 .. Cardinality(S)
      BY <2>1
    <3>2. i < j \/ j < i
      BY <1>4, <2>2
    <3> QED BY <1>3, <3>1, <3>2 DEF Sorts
  <2> QED BY <2>1, <2>2 DEF SetToSeqs
<1>6. InCursorOrder(s)
  BY <1>3 DEF Sorts, InCursorOrder, R
<1> QED BY <1>5, <1>6

-----------------------------------------------------------------------------
(* Readers: steps.                                                         *)

\* What is left of a list for a cursor.
Rest(filter, cursor, S) == {r \in S : Lists(filter, r) /\ (cursor.stamp = -1 \/ After(r, cursor))}

\* A part of a table is a table.
LEMMA TableOfPart ==
    ASSUME NEW S, Table(S), NEW T \in SUBSET S PROVE Table(T)
  BY FS_Subset DEF Table

\* The order is that of two numbers.
LEMMA EarlierIsAhead ==
    ASSUME NEW r \in Rows, NEW q \in Rows, NEW cursor \in [stamp : Stamps \union {-1}, id : Nat]
    PROVE  /\ Earlier(r, q) /\ r.id # q.id => After(q, [stamp |-> r.stamp, id |-> r.id])
           /\ Earlier(r, q) => ~After(r, [stamp |-> q.stamp, id |-> q.id])
           /\ ~After(r, [stamp |-> r.stamp, id |-> r.id])
           /\ r.stamp # -1 /\ r.stamp \in Nat /\ r.id \in Nat
           /\ After(q, cursor) /\ ~After(r, cursor) =>
                 r.id # q.id \/ r.stamp # q.stamp
           /\ After(q, cursor) /\ ~After(r, cursor) =>
                 ~After(r, [stamp |-> q.stamp, id |-> q.id])
<1>1. r.stamp \in Nat /\ r.id \in Nat /\ q.stamp \in Nat /\ q.id \in Nat
  BY ReadModelsAssumption DEF Rows
<1>2. cursor.stamp \in Stamps \union {-1} /\ cursor.id \in Nat
  OBVIOUS
<1>3. cursor.stamp \in Int
  <2>1. Stamps \subseteq Nat /\ -1 \in Int /\ Nat \subseteq Int
    BY ReadModelsAssumption
  <2>2. cursor.stamp \in Stamps \/ cursor.stamp = -1
    BY <1>2
  <2> QED BY <2>1, <2>2
<1> QED BY <1>1, <1>2, <1>3 DEF Earlier, After

\* What a page of the cursor holds, and where it leaves the cursor.
LEMMA CursorPageIs ==
    ASSUME NEW rest, Table(rest), NEW s \in SetToSeqs(rest), InCursorOrder(s)
    PROVE  /\ Page(s, 0) \in Seq(rest)
           /\ \A i, j \in DOMAIN Page(s, 0) : Page(s, 0)[i].id = Page(s, 0)[j].id => i = j
           /\ ~(Len(s) > PageSize) => \A r \in rest : \E i \in DOMAIN Page(s, 0) : Page(s, 0)[i] = r
           /\ Len(s) > PageSize =>
                 /\ Len(Page(s, 0)) \in DOMAIN Page(s, 0)
                 /\ \A i \in DOMAIN Page(s, 0) : Earlier(Page(s, 0)[i], Last(Page(s, 0)))
                 /\ \A r \in rest : \/ \E i \in DOMAIN Page(s, 0) : Page(s, 0)[i] = r
                                    \/ Earlier(Last(Page(s, 0)), r) /\ r.id # Last(Page(s, 0)).id
<1>1. IsFiniteSet(rest) /\ rest \subseteq Rows /\ \A r, q \in rest : r.id = q.id => r = q
  BY DEF Table
<1>2. PICK page : page = Page(s, 0)
  OBVIOUS
<1>3. PICK n \in Nat : n = Len(s) /\ DOMAIN s = 1 .. n
  BY <1>1, EachHasAPlace
<1>4. /\ \A i \in DOMAIN s : s[i] \in rest
      /\ \A i, j \in DOMAIN s : s[i] = s[j] => i = j
      /\ \A x \in rest : \E i \in DOMAIN s : s[i] = x
  BY <1>1, EachHasAPlace
<1>5. PageSize \in Nat \ {0}
  BY ReadModelsAssumption
<1>6. /\ page \in Seq(rest)
      /\ \A i \in DOMAIN page : i \in DOMAIN s /\ i <= PageSize /\ page[i] = s[i]
      /\ \A k \in DOMAIN s : k <= PageSize => k \in DOMAIN page /\ page[k] = s[k]
      /\ Len(s) > PageSize => Len(page) = PageSize
  <2>1. /\ page \in Seq(rest)
        /\ \A i \in DOMAIN page : 0 + i \in DOMAIN s /\ i <= PageSize /\ page[i] = s[0 + i]
        /\ \A k \in DOMAIN s : k > 0 /\ k <= 0 + PageSize =>
              k - 0 \in DOMAIN page /\ page[k - 0] = s[k]
        /\ Len(s) > 0 + PageSize => Len(page) = PageSize
    BY <1>1, <1>2, PageIs
  <2>2. \A i \in DOMAIN page : i \in Nat /\ 0 + i = i
    BY <2>1
  <2>3. \A k \in DOMAIN s : k > 0 /\ k - 0 = k
    BY <1>3
  <2>4. 0 + PageSize = PageSize
    BY <1>5
  <2> QED BY <2>1, <2>2, <2>3, <2>4
<1>7. \A i, j \in DOMAIN page : page[i].id = page[j].id => i = j
  BY <1>1, <1>4, <1>6
<1>8. ASSUME ~(Len(s) > PageSize), NEW r \in rest PROVE \E i \in DOMAIN page : page[i] = r
  BY <1>3, <1>4, <1>5, <1>6, <1>8
<1>9. ASSUME Len(s) > PageSize
      PROVE  /\ Len(page) \in DOMAIN page
             /\ \A i \in DOMAIN page : Earlier(page[i], Last(page))
             /\ \A r \in rest : \/ \E i \in DOMAIN page : page[i] = r
                                \/ Earlier(Last(page), r) /\ r.id # Last(page).id
  <2>1. PageSize \in DOMAIN s /\ PageSize \in DOMAIN page /\ Len(page) = PageSize
    BY <1>3, <1>5, <1>6, <1>9
  <2>2. Last(page) = s[PageSize]
    BY <1>6, <2>1 DEF Last
  <2>3. ASSUME NEW i \in DOMAIN page PROVE Earlier(page[i], Last(page))
    <3>1. CASE i = PageSize
      <4>1. page[i] \in Rows
        BY <1>1, <1>4, <1>6
      <4>2. page[i].stamp \in Nat /\ page[i].id \in Nat
        BY <4>1, ReadModelsAssumption DEF Rows
      <4> QED BY <1>6, <2>1, <2>2, <3>1, <4>2 DEF Earlier
    <3>2. CASE i # PageSize
      <4>1. i < PageSize
        BY <1>3, <1>5, <1>6, <3>2
      <4> QED BY <1>6, <2>1, <2>2, <4>1 DEF InCursorOrder
    <3> QED BY <3>1, <3>2
  <2>4. ASSUME NEW r \in rest, ~ \E i \in DOMAIN page : page[i] = r
        PROVE  Earlier(Last(page), r) /\ r.id # Last(page).id
    <3>1. PICK k \in DOMAIN s : s[k] = r
      BY <1>4
    <3>2. ~(k <= PageSize)
      BY <1>6, <2>4, <3>1
    <3>3. PageSize < k
      BY <1>3, <1>5, <3>2
    <3>4. Earlier(Last(page), r)
      BY <2>1, <2>2, <3>1, <3>3 DEF InCursorOrder
    <3>5. s[k] # s[PageSize]
      BY <1>3, <1>4, <1>5, <2>1, <3>3
    <3> QED BY <1>1, <1>4, <2>1, <2>2, <3>1, <3>4, <3>5
  <2> QED BY <2>1, <2>3, <2>4
<1> QED BY <1>2, <1>6, <1>7, <1>8, <1>9

\* One page further, the cursor has still passed what was read.
LEMMA CursorStep ==
    ASSUME NEW S, Table(S), NEW w \in WalkState, Begun(w, S), CursorInv(w, S), ~w.done,
           NEW s \in SetToSeqs(Rest(w.filter, w.cursor, S)), InCursorOrder(s),
           NEW v, v.seen = w.seen \o Page(s, 0), v.done = ~(Len(s) > PageSize),
           v.cursor = IF Len(s) > PageSize
                      THEN [stamp |-> Last(Page(s, 0)).stamp, id |-> Last(Page(s, 0)).id]
                      ELSE w.cursor,
           v.began = w.began, v.moved = w.moved, v.filter = w.filter
    PROVE  /\ CursorInv(v, S) /\ v.seen \in Seq(Rows)
           /\ v.cursor \in [stamp : Stamps \union {-1}, id : Nat]
<1> DEFINE R == Rest(w.filter, w.cursor, S)
<1>1. R \subseteq S /\ Table(R)
  BY TableOfPart DEF Rest
<1>2. S \subseteq Rows /\ \A r, q \in S : r.id = q.id => r = q
  BY DEF Table
<1>3. /\ w.seen \in Seq(Rows) /\ w.began \subseteq Rows
      /\ w.cursor \in [stamp : Stamps \union {-1}, id : Nat]
  BY DEF WalkState
<1>4. PICK page : page = Page(s, 0)
  OBVIOUS
<1>5. PICK last : last = Last(page)
  OBVIOUS
<1> DEFINE more == Len(s) > PageSize
<1>7. /\ page \in Seq(R)
      /\ \A i, j \in DOMAIN page : page[i].id = page[j].id => i = j
      /\ ~more => \A r \in R : \E i \in DOMAIN page : page[i] = r
      /\ more => /\ Len(page) \in DOMAIN page
                 /\ \A i \in DOMAIN page : Earlier(page[i], last)
                 /\ \A r \in R : \/ \E i \in DOMAIN page : page[i] = r
                                 \/ Earlier(last, r) /\ r.id # last.id
  BY <1>1, <1>4, <1>5, CursorPageIs
<1>8. more => last \in R
  BY <1>5, <1>7 DEF Last
<1>9. PICK seen \in Seq(Rows) : seen = w.seen
  BY <1>3
<1>10. PICK m \in Nat : m = Len(seen) /\ DOMAIN seen = 1 .. m
  BY <1>9
<1>11. PICK n \in Nat : n = Len(page) /\ DOMAIN page = 1 .. n
  BY <1>7
<1>12. page \in Seq(Rows)
  BY <1>1, <1>2, <1>7
<1>13. /\ seen \o page \in Seq(Rows) /\ DOMAIN (seen \o page) = 1 .. m + n
       /\ \A i \in 1 .. m : (seen \o page)[i] = seen[i]
       /\ \A i \in 1 .. n : (seen \o page)[m + i] = page[i]
  BY <1>9, <1>10, <1>11, <1>12
<1>14. PICK t \in Seq(Rows) :
         /\ t = seen \o page /\ DOMAIN t = 1 .. m + n
         /\ \A i \in 1 .. m : t[i] = seen[i]
         /\ \A i \in 1 .. n : t[m + i] = page[i]
  BY <1>13
<1>15. ASSUME NEW i \in 1 .. m + n
       PROVE  \/ i \in 1 .. m /\ t[i] = seen[i]
              \/ i - m \in 1 .. n /\ t[i] = page[i - m]
  <2>1. CASE i <= m
    BY <1>14, <2>1
  <2>2. CASE ~(i <= m)
    <3>1. i - m \in 1 .. n /\ m + (i - m) = i
      BY <2>2
    <3> QED BY <1>14, <3>1
  <2> QED BY <2>1, <2>2
<1>16. /\ \A i \in 1 .. m : i \in 1 .. m + n
       /\ \A i \in 1 .. n : m + i \in 1 .. m + n
  OBVIOUS
<1>17. v.seen = t /\ v.done = ~more
  BY <1>4, <1>9, <1>14
<1>18. v.cursor = IF more THEN [stamp |-> last.stamp, id |-> last.id] ELSE w.cursor
  BY <1>4, <1>5
<1> HIDE DEF more
<1>19. ASSUME NEW k \in 1 .. n
       PROVE  page[k] \in S /\ page[k] \in R /\ page[k] \in Rows
  BY <1>1, <1>2, <1>7, <1>11, <1>19
<1>20. ASSUME NEW r \in R PROVE w.cursor.stamp = -1 \/ After(r, w.cursor)
  BY <1>20 DEF Rest
<1>21. ASSUME NEW i \in 1 .. m, NEW k \in 1 .. n PROVE seen[i].id # page[k].id
  <2>1. PICK q \in S : q.id = seen[i].id /\ q.stamp = seen[i].stamp
    BY <1>9, <1>10 DEF CursorInv, Stays
  <2>2. Passed(seen[i], w.cursor)
    BY <1>9, <1>10 DEF CursorInv
  <2>3. After(page[k], w.cursor)
    BY <1>19, <1>20, <2>2 DEF Passed
  <2>4. seen[i] \in Rows /\ page[k] \in Rows /\ page[k] \in S
    BY <1>9, <1>10, <1>19
  <2>5. seen[i].id # page[k].id \/ seen[i].stamp # page[k].stamp
    BY <1>3, <2>2, <2>3, <2>4, EarlierIsAhead DEF Passed
  <2> QED BY <1>2, <2>1, <2>4, <2>5
<1>22. ASSUME NEW i \in 1 .. m + n PROVE Stays(t[i], S)
  <2>1. CASE i \in 1 .. m /\ t[i] = seen[i]
    BY <1>9, <1>10, <2>1 DEF CursorInv
  <2>2. CASE i - m \in 1 .. n /\ t[i] = page[i - m]
    BY <1>19, <2>2 DEF Stays
  <2> QED BY <1>15, <2>1, <2>2
<1>23. ASSUME NEW i \in 1 .. m + n, NEW j \in 1 .. m + n, t[i].id = t[j].id PROVE i = j
  <2>1. CASE i \in 1 .. m /\ t[i] = seen[i] /\ j \in 1 .. m /\ t[j] = seen[j]
    BY <1>9, <1>10, <1>23, <2>1 DEF CursorInv
  <2>2. CASE i - m \in 1 .. n /\ t[i] = page[i - m] /\ j - m \in 1 .. n /\ t[j] = page[j - m]
    <3>1. \A k, l \in 1 .. n : page[k].id = page[l].id => k = l
      BY <1>7, <1>11
    <3>2. i - m = j - m
      BY <1>23, <2>2, <3>1
    <3> QED BY <3>2
  <2> QED BY <1>15, <1>21, <1>23, <2>1, <2>2
<1>24. ASSUME more, NEW i \in 1 .. m + n PROVE Passed(t[i], [stamp |-> last.stamp, id |-> last.id])
  <2>1. last \in Rows /\ last.stamp # -1 /\ t[i] \in Rows
    <3>1. last \in Rows
      BY <1>1, <1>2, <1>8, <1>24
    <3>2. last.stamp \in Nat
      BY <3>1, ReadModelsAssumption DEF Rows
    <3>3. t[i] \in Rows
      BY <1>14
    <3> QED BY <3>1, <3>2, <3>3
  <2>2. CASE i \in 1 .. m /\ t[i] = seen[i]
    <3>1. Passed(seen[i], w.cursor)
      BY <1>9, <1>10, <2>2 DEF CursorInv
    <3>2. After(last, w.cursor)
      BY <1>8, <1>20, <1>24, <3>1 DEF Passed
    <3>3. ~After(t[i], [stamp |-> last.stamp, id |-> last.id])
      BY <1>3, <2>1, <2>2, <3>1, <3>2, EarlierIsAhead DEF Passed
    <3> QED BY <2>1, <3>3 DEF Passed
  <2>3. CASE i - m \in 1 .. n /\ t[i] = page[i - m]
    <3>1. Earlier(t[i], last)
      BY <1>7, <1>11, <1>24, <2>3
    <3>2. ~After(t[i], [stamp |-> last.stamp, id |-> last.id])
      BY <1>3, <2>1, <3>1, EarlierIsAhead
    <3> QED BY <2>1, <3>2 DEF Passed
  <2> QED BY <1>15, <2>2, <2>3
<1>25. ASSUME NEW r \in w.began, r.id \notin w.moved, ~more \/ Passed(r, v.cursor)
       PROVE  \E i \in 1 .. m + n : t[i].id = r.id
  <2>1. r \in S /\ Lists(w.filter, r) /\ r \in Rows
    BY <1>2, <1>25 DEF Begun
  <2>2. CASE Passed(r, w.cursor)
    <3>1. \E i \in 1 .. m : seen[i].id = r.id
      BY <1>9, <1>10, <1>25, <2>2 DEF CursorInv, InWalk
    <3>2. PICK i \in 1 .. m : seen[i].id = r.id
      BY <3>1
    <3>3. i \in 1 .. m + n /\ t[i] = seen[i]
      BY <1>14, <1>16
    <3> QED BY <3>2, <3>3
  <2>3. CASE ~Passed(r, w.cursor)
    <3>1. r \in R
      BY <2>1, <2>3 DEF Rest, Passed
    <3>2. CASE \E i \in DOMAIN page : page[i] = r
      <4>1. PICK i \in 1 .. n : page[i] = r
        BY <1>11, <3>2
      <4>2. m + i \in 1 .. m + n /\ t[m + i] = page[i]
        BY <1>14, <1>16
      <4> QED BY <4>1, <4>2
    <3>3. CASE ~ \E i \in DOMAIN page : page[i] = r
      <4>1. more /\ Earlier(last, r) /\ r.id # last.id
        BY <1>7, <3>1, <3>3
      <4>2. last \in Rows
        BY <1>1, <1>2, <1>8, <4>1
      <4>3. After(r, [stamp |-> last.stamp, id |-> last.id])
        BY <1>3, <2>1, <4>1, <4>2, EarlierIsAhead
      <4>4. ~Passed(r, v.cursor)
        BY <1>18, <4>1, <4>3 DEF Passed
      <4> QED BY <1>25, <4>1, <4>4
    <3> QED BY <3>2, <3>3
  <2> QED BY <2>2, <2>3
<1>26. CursorInv(v, S)
  <2> DEFINE places == 1 .. m + n
  <2>1. v.seen = t /\ DOMAIN v.seen = places /\ v.done = ~more
    BY <1>14, <1>17
  <2>2. v.began = w.began /\ v.moved = w.moved
    OBVIOUS
  <2>3. \A i, j \in places : t[i].id = t[j].id => i = j
    BY <1>23
  <2>4. \A r \in w.began : r.id \notin w.moved /\ (~more \/ Passed(r, v.cursor)) =>
            \E i \in places : t[i].id = r.id
    BY <1>25
  <2> HIDE DEF places
  <2>5. \A i \in DOMAIN v.seen : Stays(v.seen[i], S)
    <3>1. \A i \in places : Stays(t[i], S)
      BY <1>22 DEF places
    <3> QED BY <2>1, <3>1
  <2>6. \A i, j \in DOMAIN v.seen : v.seen[i].id = v.seen[j].id => i = j
    BY <2>1, <2>3
  <2>7. ~v.done => \A i \in DOMAIN v.seen : Passed(v.seen[i], v.cursor)
    <3>1. more => \A i \in places : Passed(t[i], v.cursor)
      BY <1>18, <1>24 DEF places
    <3> QED BY <2>1, <3>1
  <2>8. \A r \in v.began :
          r.id \notin v.moved /\ (v.done \/ Passed(r, v.cursor)) => InWalk(v, r.id)
    BY <2>1, <2>2, <2>4 DEF InWalk
  <2> QED BY <2>5, <2>6, <2>7, <2>8 DEF CursorInv
<1>27. v.cursor \in [stamp : Stamps \union {-1}, id : Nat]
  <2>1. CASE more
    <3>1. last \in Rows
      BY <1>1, <1>2, <1>8, <2>1
    <3>2. last.stamp \in Stamps /\ last.id \in Nat
      BY <3>1, ReadModelsAssumption DEF Rows
    <3> QED BY <1>18, <2>1, <3>2
  <2> QED BY <1>3, <1>18, <2>1
<1> QED BY <1>14, <1>17, <1>26, <1>27

\* In a list by time, a row whose time is its own stands after the newer ones.
LEMMA PlaceByTime ==
    ASSUME NEW M, IsFiniteSet(M), M \subseteq Rows, NEW s \in SetToSeqs(M),
           \A i, j \in DOMAIN s : i < j => s[i].stamp >= s[j].stamp,
           NEW k \in DOMAIN s, \A q \in M : q.stamp = s[k].stamp => q = s[k]
    PROVE  Cardinality({q \in M : q.stamp > s[k].stamp}) = k - 1
<1> DEFINE N == {q \in M : q.stamp > s[k].stamp}
<1>1. PICK n \in Nat : DOMAIN s = 1 .. n
  BY EachHasAPlace
<1>2. /\ \A i \in DOMAIN s : s[i] \in M
      /\ \A i, j \in DOMAIN s : s[i] = s[j] => i = j
      /\ \A x \in M : \E i \in DOMAIN s : s[i] = x
  BY EachHasAPlace
<1>3. \A q \in M : q.stamp \in Nat
  BY ReadModelsAssumption DEF Rows
<1>4. k \in Nat /\ k >= 1 /\ k <= n /\ k - 1 \in Nat
  BY <1>1
<1> DEFINE f == [i \in 1 .. k - 1 |-> s[i]]
<1>5. \A i \in 1 .. k - 1 : i \in DOMAIN s /\ i < k
  BY <1>1, <1>4
<1>6. ASSUME NEW i \in 1 .. k - 1 PROVE s[i] \in N
  <2>1. s[i].stamp >= s[k].stamp /\ s[i] # s[k] /\ s[i] \in M
    BY <1>2, <1>5
  <2>2. s[i].stamp # s[k].stamp
    BY <2>1
  <2> QED BY <1>2, <1>3, <2>1, <2>2
<1>7. ASSUME NEW q \in N PROVE \E i \in 1 .. k - 1 : s[i] = q
  <2>1. PICK i \in DOMAIN s : s[i] = q
    BY <1>2
  <2>2. ~(k <= i)
    <3>1. k # i
      BY <1>2, <1>3, <2>1
    <3>2. ~(k < i)
      BY <1>2, <1>3, <2>1
    <3> QED BY <1>1, <1>4, <3>1, <3>2
  <2> QED BY <1>1, <1>4, <2>1, <2>2
<1>8. f \in Bijection(1 .. k - 1, N)
  BY <1>2, <1>5, <1>6, <1>7 DEF Bijection, Injection, Surjection, IsInjective
<1>9. ExistsBijection(1 .. k - 1, N)
  BY <1>8 DEF ExistsBijection
<1> HIDE DEF N
<1>10. IsFiniteSet(1 .. k - 1) /\ Cardinality(1 .. k - 1) = k - 1
  BY <1>4, FirstPlaces
<1>11. Cardinality(N) = k - 1
  BY <1>9, <1>10, FS_Bijection
<1> QED BY <1>11 DEF N

\* One page further, as many are passed over as the page could hold.
LEMMA OffsetStep ==
    ASSUME NEW S, Table(S), NEW w \in WalkState, Begun(w, S), OffsetInv(w, S), ~w.done,
           NEW M, M = {q \in S : Lists(w.filter, q)}, NEW s \in SetToSeqs(M),
           \A i, j \in DOMAIN s : i < j => s[i].stamp >= s[j].stamp,
           NEW v, v.seen = w.seen \o Page(s, w.offset), v.offset = w.offset + PageSize,
           v.total = w.total, v.done = (w.offset + PageSize >= w.total),
           v.began = w.began, v.moved = w.moved, v.filter = w.filter
    PROVE  OffsetInv(v, S) /\ v.seen \in Seq(Rows) /\ v.offset \in Nat
<1>1. /\ M \subseteq Rows /\ IsFiniteSet(M) /\ M \subseteq S
      /\ \A r, q \in S : r.id = q.id => r = q
  BY FS_Subset DEF Table
<1>2. PICK a \in Nat : a = w.offset
  BY DEF WalkState
<1>3. PageSize \in Nat \ {0}
  BY ReadModelsAssumption
<1>4. PICK n \in Nat : n = Cardinality(M) /\ DOMAIN s = 1 .. n
  BY <1>1, EachHasAPlace
<1>5. \A x \in M : \E i \in DOMAIN s : s[i] = x
  BY <1>1, EachHasAPlace
<1>6. PICK page : page = Page(s, a)
  OBVIOUS
<1>7. /\ page \in Seq(M)
      /\ \A k \in DOMAIN s : k > a /\ k <= a + PageSize =>
            k - a \in DOMAIN page /\ page[k - a] = s[k]
  BY <1>1, <1>6, PageIs
<1>8. PICK seen \in Seq(Rows) : seen = w.seen
  BY DEF WalkState
<1>9. page \in Seq(Rows)
  BY <1>1, <1>7
<1>10. v.seen = seen \o page /\ seen \o page \in Seq(Rows)
  BY <1>2, <1>6, <1>8, <1>9
<1>11. /\ \A i \in DOMAIN seen : i \in DOMAIN (seen \o page) /\ (seen \o page)[i] = seen[i]
       /\ \A i \in DOMAIN page :
             Len(seen) + i \in DOMAIN (seen \o page) /\ (seen \o page)[Len(seen) + i] = page[i]
  BY <1>8, <1>9
<1>12. PICK t : t = seen \o page
  OBVIOUS
<1>13. /\ \A i \in DOMAIN seen : i \in DOMAIN t /\ t[i] = seen[i]
       /\ \A i \in DOMAIN page : Len(seen) + i \in DOMAIN t /\ t[Len(seen) + i] = page[i]
  BY <1>11, <1>12
<1>14. ASSUME w.moved = {}, NEW r \in w.began, Alone(r, S)
       PROVE  \/ \E i \in DOMAIN t : t[i].id = r.id
              \/ Cardinality(Newer(r, w.filter, S)) >= a + PageSize
  <2>1. r \in M /\ r \in S
    BY <1>14 DEF Begun
  <2>2. \A q \in M : q.stamp = r.stamp => q = r
    BY <1>1, <1>14, <2>1 DEF Alone
  <2>3. PICK k \in DOMAIN s : s[k] = r
    BY <1>5, <2>1
  <2>4. Newer(r, w.filter, S) = {q \in M : q.stamp > s[k].stamp}
    BY <2>3 DEF Newer
  <2>5. Cardinality({q \in M : q.stamp > s[k].stamp}) = k - 1
    BY <1>1, <2>2, <2>3, PlaceByTime
  <2>6. CASE \E i \in DOMAIN w.seen : w.seen[i].id = r.id
    BY <1>8, <1>13, <2>6
  <2>7. CASE k - 1 >= a
    <3>1. k \in Nat /\ k >= 1 /\ k <= n
      BY <1>4
    <3>2. CASE k <= a + PageSize
      <4>1. k - a \in DOMAIN page /\ page[k - a] = r
        BY <1>7, <2>3, <2>7, <3>1, <3>2
      <4> QED BY <1>13, <4>1
    <3>3. CASE ~(k <= a + PageSize)
      BY <1>3, <2>4, <2>5, <3>1, <3>3
    <3> QED BY <3>2, <3>3
  <2> QED BY <1>2, <1>14, <2>4, <2>5, <2>6, <2>7 DEF OffsetInv, InWalk
<1>15. OffsetInv(v, S)
  BY <1>2, <1>4, <1>10, <1>12, <1>14 DEF OffsetInv, InWalk
<1> QED BY <1>2, <1>3, <1>10, <1>15

\* A row that is added.
LEMMA WalkOnInsert ==
    ASSUME NEW S, Table(S), NEW r \in Rows, \A q \in S : q.id # r.id, NEW w, WalkInv(w, S)
    PROVE  Table(S \union {r}) /\ WalkInv(w, S \union {r})
<1> DEFINE U == S \union {r}
<1>1. Table(U)
  BY FS_AddElement DEF Table
<1>2. ASSUME NEW q, Stays(q, S) PROVE Stays(q, U)
  BY <1>2 DEF Stays
<1>3. ASSUME NEW q, Alone(q, U) PROVE Alone(q, S)
  BY <1>3 DEF Alone
<1>4. ASSUME NEW q, NEW filter
      PROVE  /\ Cardinality(Newer(q, filter, S)) \in Nat /\ Cardinality(Newer(q, filter, U)) \in Nat
             /\ Cardinality(Newer(q, filter, S)) <= Cardinality(Newer(q, filter, U))
  <2>1. Newer(q, filter, S) \subseteq Newer(q, filter, U) /\ Newer(q, filter, U) \subseteq U
    BY DEF Newer
  <2>2. IsFiniteSet(U)
    BY <1>1 DEF Table
  <2> HIDE DEF U
  <2>3. IsFiniteSet(Newer(q, filter, U))
    BY <2>1, <2>2, FS_Subset
  <2> QED BY <2>1, <2>3, FS_Subset, FS_CardinalityType
<1>5. CASE w \in WalkState /\ Begun(w, S) /\ w.mode = "cursor" /\ CursorInv(w, S)
  <2>1. Begun(w, U)
    BY <1>5 DEF Begun
  <2>2. CursorInv(w, U)
    BY <1>2, <1>5 DEF CursorInv
  <2> QED BY <1>1, <1>5, <2>1, <2>2 DEF WalkInv
<1>6. CASE w \in WalkState /\ Begun(w, S) /\ w.mode = "offset" /\ OffsetInv(w, S)
  <2>1. Begun(w, U)
    BY <1>6 DEF Begun
  <2>2. w.offset \in Nat
    BY <1>6 DEF WalkState
  <2>3. ASSUME w.moved = {}, NEW q \in w.began, Alone(q, U), ~InWalk(w, q.id)
        PROVE  Cardinality(Newer(q, w.filter, U)) >= w.offset
    <3>1. Cardinality(Newer(q, w.filter, S)) >= w.offset
      BY <1>3, <1>6, <2>3 DEF OffsetInv
    <3> HIDE DEF U
    <3> QED BY <1>4, <2>2, <3>1
  <2>4. OffsetInv(w, U)
    BY <1>6, <2>3 DEF OffsetInv
  <2> QED BY <1>1, <1>6, <2>1, <2>4 DEF WalkInv
<1>7. CASE w = NoWalk
  BY <1>1, <1>7 DEF WalkInv
<1>8. w \in WalkState => w.mode \in {"offset", "cursor"}
  BY DEF WalkState
<1> QED BY <1>5, <1>6, <1>7, <1>8 DEF WalkInv

\* A row whose status changes.
LEMMA WalkOnMove ==
    ASSUME NEW S, Table(S), NEW r \in S, NEW status \in RowStatuses,
           NEW w, WalkInv(w, S), NEW v,
           v = IF w = NoWalk THEN w ELSE [w EXCEPT !.moved = @ \union {r.id}],
           NEW U, U = (S \ {r}) \union {[r EXCEPT !.status = status]}
    PROVE  Table(U) /\ WalkInv(v, U)
<1>1. r \in Rows /\ S \subseteq Rows /\ IsFiniteSet(S) /\ \A p, q \in S : p.id = q.id => p = q
  BY DEF Table
<1>2. PICK m : m = [r EXCEPT !.status = status]
  OBVIOUS
<1>3. m \in Rows /\ m.id = r.id /\ m.stamp = r.stamp
  BY <1>1, <1>2 DEF Rows
<1>4. U = (S \ {r}) \union {m}
  BY <1>2
<1>5. Table(U)
  <2>1. IsFiniteSet(S \ {r})
    BY <1>1, FS_Subset
  <2>2. IsFiniteSet(U)
    BY <1>4, <2>1, FS_AddElement
  <2>3. U \subseteq Rows /\ \A p, q \in U : p.id = q.id => p = q
    BY <1>1, <1>3, <1>4
  <2> QED BY <2>2, <2>3 DEF Table
<1>6. ASSUME NEW q, Stays(q, S) PROVE Stays(q, U)
  BY <1>3, <1>4, <1>6 DEF Stays
<1>7. CASE w = NoWalk
  BY <1>5, <1>7 DEF WalkInv
<1>8. CASE w # NoWalk
  <2>1. w \in WalkState /\ Begun(w, S) /\ v = [w EXCEPT !.moved = @ \union {r.id}]
    BY <1>8 DEF WalkInv
  <2>2. /\ v \in WalkState /\ v.mode = w.mode /\ v.filter = w.filter /\ v.offset = w.offset
        /\ v.cursor = w.cursor /\ v.seen = w.seen /\ v.began = w.began /\ v.done = w.done
        /\ v.total = w.total
        /\ v.moved = w.moved \union {r.id}
    <3>1. r.id \in Ids /\ w.moved \union {r.id} \subseteq Ids
      BY <1>1, <2>1 DEF Rows, WalkState
    <3>2. v = [w EXCEPT !.moved = w.moved \union {r.id}]
      BY <2>1
    <3> QED BY <2>1, <3>1, <3>2 DEF WalkState
  <2>3. Begun(v, U)
    BY <1>4, <2>1, <2>2 DEF Begun
  <2>4. v.mode = "cursor" => CursorInv(v, U)
    <3> SUFFICES ASSUME w.mode = "cursor" PROVE CursorInv(v, U)
      BY <2>2
    <3>1. CursorInv(w, S)
      BY <1>8 DEF WalkInv
    <3>2. /\ \A i \in DOMAIN v.seen : Stays(v.seen[i], U)
          /\ \A i, j \in DOMAIN v.seen : v.seen[i].id = v.seen[j].id => i = j
      BY <1>6, <2>2, <3>1 DEF CursorInv
    <3>3. ~v.done => \A i \in DOMAIN v.seen : Passed(v.seen[i], v.cursor)
      BY <2>2, <3>1 DEF CursorInv
    <3>4. \A q \in v.began :
            q.id \notin v.moved /\ (v.done \/ Passed(q, v.cursor)) => InWalk(v, q.id)
      BY <2>2, <3>1 DEF CursorInv, InWalk
    <3> QED BY <3>2, <3>3, <3>4 DEF CursorInv
  <2>5. v.mode = "offset" => OffsetInv(v, U)
    <3>1. v.moved # {}
      BY <2>2
    <3>2. w.mode = "offset" => (w.done => w.offset >= w.total)
      BY <1>8 DEF WalkInv, OffsetInv
    <3> QED BY <2>2, <3>1, <3>2 DEF OffsetInv
  <2> QED BY <1>5, <2>2, <2>3, <2>4, <2>5 DEF WalkInv
<1> QED BY <1>7, <1>8

-----------------------------------------------------------------------------
(* Readers: the dashboard.                                                 *)

\* The newest rows of a set have among them every row that few others are as
\* new as.
LEMMA NewestHave ==
    ASSUME NEW S, IsFiniteSet(S), \A q \in S : q.stamp \in Nat, NEW n \in Nat, NEW T \in Newest(S, n), NEW r \in S,
           NEW late, IsFiniteSet(late), Cardinality(late) <= n,
           \A q \in S : q.stamp >= r.stamp => q \in late
    PROVE  r \in T
<1> SUFFICES ASSUME r \notin T PROVE FALSE
  OBVIOUS
<1>1. IsFiniteSet(S) /\ \A q \in S : q.stamp \in Nat
  OBVIOUS
<1>2. PICK c \in Nat : c = Cardinality(S)
  BY <1>1, FS_CardinalityType
<1>3. /\ T \subseteq S /\ Cardinality(T) = (IF c < n THEN c ELSE n)
      /\ \A q \in S \ T, t \in T : q.stamp <= t.stamp
  BY <1>2 DEF Newest, kSubset
<1>4. IsFiniteSet(T)
  BY <1>1, <1>3, FS_Subset
<1>5. Cardinality(T) # c
  BY <1>1, <1>2, <1>3, FS_Subset
<1>6. T \union {r} \subseteq late
  BY <1>1, <1>3
<1>7. Cardinality(T \union {r}) = Cardinality(T) + 1
  BY <1>4, FS_AddElement
<1>8. Cardinality(T \union {r}) <= Cardinality(late) /\ Cardinality(late) \in Nat
  BY <1>6, FS_Subset, FS_CardinalityType
<1> QED BY <1>2, <1>3, <1>5, <1>7, <1>8

\* What the dashboard keeps of a table is as finite.
LEMMA FacesAre ==
    ASSUME NEW S, Table(S)
    PROVE  /\ IsFiniteSet(Faces(S))
           /\ \A q \in Faces(S) : q.id \in Ids /\ q.stamp \in Nat
<1>1. IsFiniteSet(S) /\ \A q \in S : q.id \in Ids /\ q.stamp \in Nat
  BY ReadModelsAssumption DEF Table, Rows
<1> DEFINE f == [q \in S |-> [id |-> q.id, stamp |-> q.stamp]]
<1>2. f \in Surjection(S, Faces(S))
  BY DEF Surjection, Faces
<1>3. IsFiniteSet(Faces(S))
  BY <1>1, <1>2, FS_Surjection
<1> QED BY <1>1, <1>3 DEF Faces

\* The newest of all kinds are few.
LEMMA FewAreFew ==
    ASSUME NEW S, Table(S), NEW r, Few(r, S)
    PROVE  /\ IsFiniteSet({q \in Faces(S) : q.stamp >= r.stamp})
           /\ Cardinality({q \in Faces(S) : q.stamp >= r.stamp}) <= PerFeed
           /\ Cardinality({q \in Faces(S) : q.stamp >= r.stamp}) <= ActivityLimit
<1>1. PICK late : late = {q \in Faces(S) : q.stamp >= r.stamp}
  OBVIOUS
<1>2. IsFiniteSet(late) /\ Cardinality(late) \in Nat
  BY <1>1, FacesAre, FS_Subset, FS_CardinalityType
<1>3. PerFeed \in Nat /\ ActivityLimit \in Nat
  BY ReadModelsAssumption
<1>4. {PerFeed, ActivityLimit} \in SUBSET Int /\ {PerFeed, ActivityLimit} # {}
  BY <1>3
<1>5. IsFiniteSet({PerFeed, ActivityLimit})
  <2>1. {PerFeed, ActivityLimit} = {PerFeed} \union {ActivityLimit}
    OBVIOUS
  <2>2. IsFiniteSet({PerFeed})
    BY FS_Singleton
  <2> QED BY <2>1, <2>2, FS_AddElement
<1>6. PICK m \in Nat : m = Min({PerFeed, ActivityLimit}) /\ m <= PerFeed /\ m <= ActivityLimit
  BY <1>3, <1>4, <1>5, FirstNumber
<1>7. Cardinality(late) <= m
  BY <1>1, <1>6 DEF Few
<1> QED BY <1>1, <1>2, <1>3, <1>6, <1>7

\* Rows that are added or change take no row from among the newest that was not
\* one of them before.
LEMMA BoardOnWrite ==
    ASSUME NEW S, Table(S), NEW U, Table(U), Faces(S) \subseteq Faces(U), NEW b, BoardInv(b, S)
    PROVE  BoardInv(b, U)
<1>1. ASSUME NEW r, Few(r, U) PROVE Few(r, S)
  <2>1. PICK late : late = {q \in Faces(U) : q.stamp >= r.stamp}
    OBVIOUS
  <2>2. PICK before : before = {q \in Faces(S) : q.stamp >= r.stamp}
    OBVIOUS
  <2>3. before \subseteq late /\ IsFiniteSet(late)
    BY <1>1, <2>1, <2>2, FewAreFew
  <2>4. Cardinality(before) <= Cardinality(late) /\ Cardinality(before) \in Nat
        /\ Cardinality(late) \in Nat
    BY <2>3, FS_Subset, FS_CardinalityType
  <2>5. Cardinality(before) <= PerFeed /\ Cardinality(before) <= ActivityLimit
    <3>1. Cardinality(late) <= PerFeed /\ Cardinality(late) <= ActivityLimit
      BY <1>1, <2>1, FewAreFew
    <3>2. PerFeed \in Nat /\ ActivityLimit \in Nat
      BY ReadModelsAssumption
    <3> QED BY <2>4, <3>1, <3>2
  <2>6. Min({PerFeed, ActivityLimit}) \in {PerFeed, ActivityLimit}
    <3>1. PerFeed \in Nat /\ ActivityLimit \in Nat
      BY ReadModelsAssumption
    <3>2. {PerFeed, ActivityLimit} \in SUBSET Int /\ {PerFeed, ActivityLimit} # {}
      BY <3>1
    <3>3. IsFiniteSet({PerFeed, ActivityLimit})
      <4>1. {PerFeed, ActivityLimit} = {PerFeed} \union {ActivityLimit}
        OBVIOUS
      <4>2. IsFiniteSet({PerFeed})
        BY FS_Singleton
      <4> QED BY <4>1, <4>2, FS_AddElement
    <3> QED BY <3>2, <3>3, FirstNumber
  <2>7. Cardinality(before) <= Min({PerFeed, ActivityLimit})
    BY <2>5, <2>6
  <2> QED BY <2>2, <2>7 DEF Few
<1> QED BY <1>1 DEF BoardInv

\* A row added and a row changed leave what the dashboard keeps of the others.
LEMMA FacesOnWrite ==
    ASSUME NEW S, Table(S)
    PROVE  /\ \A r : Faces(S) \subseteq Faces(S \union {r})
           /\ \A r \in S : \A status : Faces(S) \subseteq
                 Faces((S \ {r}) \union {[r EXCEPT !.status = status]})
<1>1. \A r : Faces(S) \subseteq Faces(S \union {r})
  BY DEF Faces
<1>2. ASSUME NEW r \in S, NEW status, NEW face \in Faces(S)
      PROVE  face \in Faces((S \ {r}) \union {[r EXCEPT !.status = status]})
  <2>1. PICK q \in S : face = [id |-> q.id, stamp |-> q.stamp]
    BY DEF Faces
  <2>2. CASE q # r
    BY <2>1, <2>2 DEF Faces
  <2>3. CASE q = r
    <3>1. PICK m : m = [r EXCEPT !.status = status]
      OBVIOUS
    <3>2. m.id = r.id /\ m.stamp = r.stamp
      BY <3>1 DEF Table, Rows
    <3> QED BY <2>1, <2>3, <3>1, <3>2 DEF Faces
  <2> QED BY <2>2, <2>3
<1> QED BY <1>1, <1>2

\* The next kind of row.
LEMMA BoardStep ==
    ASSUME NEW S, Table(S), NEW b, BoardInv(b, S), b.mode = "activity", b.read < Len(Feeds),
           NEW T, T \in Newest({q \in Faces(S) : FeedOf[q.id] = Feeds[b.read + 1]}, PerFeed),
           NEW v, v.mode = b.mode, v.read = b.read + 1, v.items = b.items \union T,
           v.began = b.began,
           v.read = Len(Feeds) => v.shown \in Newest(v.items, ActivityLimit)
    PROVE  BoardInv(v, S)
<1>1. /\ b.read \in 0 .. Len(Feeds) /\ b.began \subseteq Faces(S) /\ b.items \subseteq Faces(S)
      /\ \A r \in b.began : Few(r, S) =>
            \A i \in 1 .. b.read : Feeds[i] = FeedOf[r.id] => r \in b.items
  BY DEF BoardInv, NoBoard
<1>2. Len(Feeds) \in Nat /\ PerFeed \in Nat /\ ActivityLimit \in Nat
  BY ReadModelsAssumption
<1>3. v.read \in 0 .. Len(Feeds) /\ b.read \in Nat
  BY <1>1, <1>2
<1>4. PICK feed : feed = {q \in Faces(S) : FeedOf[q.id] = Feeds[b.read + 1]}
  OBVIOUS
<1>5. IsFiniteSet(Faces(S)) /\ \A q \in Faces(S) : q.id \in Ids /\ q.stamp \in Nat
  BY FacesAre
<1>6. feed \subseteq Faces(S) /\ IsFiniteSet(feed) /\ T \in Newest(feed, PerFeed)
  BY <1>4, <1>5, FS_Subset
<1>7. T \subseteq Faces(S)
  BY <1>6 DEF Newest, kSubset
<1>8. v.items \subseteq Faces(S) /\ IsFiniteSet(v.items)
  BY <1>1, <1>5, <1>7, FS_Subset
<1>9. ASSUME NEW r \in v.began, Few(r, S), NEW i \in 1 .. v.read, Feeds[i] = FeedOf[r.id]
      PROVE  r \in v.items
  <2>1. r \in b.began /\ r \in Faces(S)
    BY <1>1
  <2>2. CASE i \in 1 .. b.read
    BY <1>1, <1>9, <2>1, <2>2
  <2>3. CASE i = b.read + 1
    <3>1. r \in feed
      BY <1>4, <1>9, <2>1, <2>3
    <3>2. PICK late : late = {q \in Faces(S) : q.stamp >= r.stamp}
      OBVIOUS
    <3>3. IsFiniteSet(late) /\ Cardinality(late) <= PerFeed
      BY <1>9, <3>2, FewAreFew
    <3>4. \A q \in feed : q.stamp >= r.stamp => q \in late
      BY <1>6, <3>2
    <3>5. \A q \in feed : q.stamp \in Nat
      BY <1>5, <1>6
    <3>6. r \in T
      BY <1>2, <1>6, <3>1, <3>3, <3>4, <3>5, NewestHave
    <3> QED BY <3>6
  <2>4. i \in 1 .. b.read \/ i = b.read + 1
    BY <1>3
  <2> QED BY <2>2, <2>3, <2>4
<1>10. ASSUME NEW r \in v.began, Few(r, S), v.read = Len(Feeds) PROVE r \in v.shown
  <2>1. r \in Faces(S) /\ r.id \in Ids
    BY <1>1, <1>5
  <2>2. PICK i \in 1 .. v.read : Feeds[i] = FeedOf[r.id]
    <3>1. FeedOf[r.id] \in ToSet(Feeds)
      BY <2>1, ReadModelsAssumption
    <3>2. DOMAIN Feeds = 1 .. Len(Feeds)
      BY ReadModelsAssumption
    <3> QED BY <1>10, <3>1, <3>2 DEF ToSet
  <2>3. r \in v.items
    BY <1>9, <1>10, <2>2
  <2>4. PICK late : late = {q \in Faces(S) : q.stamp >= r.stamp}
    OBVIOUS
  <2>5. IsFiniteSet(late) /\ Cardinality(late) <= ActivityLimit
    BY <1>10, <2>4, FewAreFew
  <2>6. \A q \in v.items : q.stamp >= r.stamp => q \in late
    BY <1>8, <2>4
  <2>7. \A q \in v.items : q.stamp \in Nat
    BY <1>5, <1>8
  <2>8. v.shown \in Newest(v.items, ActivityLimit)
    BY <1>10
  <2> QED BY <1>2, <1>8, <2>3, <2>5, <2>6, <2>7, <2>8, NewestHave
<1>11. v.mode = "activity" /\ v.began \subseteq Faces(S)
  BY <1>1
<1> QED BY <1>3, <1>8, <1>9, <1>10, <1>11 DEF BoardInv

-----------------------------------------------------------------------------
(* Readers: the theorem.                                                   *)

\* The inductive invariant of readers.
LEMMA ReadTyped == ReadSpec => []ReadInv
<1>1. ReadInit => ReadInv
  BY FS_EmptySet DEF ReadInit, ReadInv, Table, WalkInv, BoardInv
<1>2. ReadInv /\ [ReadNext]_readVars => ReadInv'
  <2> SUFFICES ASSUME ReadInv, [ReadNext]_readVars PROVE ReadInv'
    OBVIOUS
  <2> USE DEF ReadInv
  <2>1. ASSUME NEW r \in Rows, InsertRow(r) PROVE ReadInv'
    <3>1. /\ listed' = listed \union {r} /\ walk' = walk /\ board' = board
          /\ \A q \in listed : q.id # r.id
      BY <2>1 DEF InsertRow
    <3>2. Table(listed') /\ WalkInv(walk', listed')
      BY <3>1, WalkOnInsert
    <3>3. Faces(listed) \subseteq Faces(listed')
      BY <3>1, FacesOnWrite
    <3> QED BY <3>1, <3>2, <3>3, BoardOnWrite
  <2>2. ASSUME NEW r \in listed, NEW status \in RowStatuses, MoveRow(r, status) PROVE ReadInv'
    <3>1. /\ listed' = (listed \ {r}) \union {[r EXCEPT !.status = status]} /\ board' = board
          /\ walk' = IF walk = NoWalk THEN walk ELSE [walk EXCEPT !.moved = @ \union {r.id}]
      BY <2>2 DEF MoveRow
    <3>2. Table(listed') /\ WalkInv(walk', listed')
      BY <3>1, WalkOnMove
    <3>3. Faces(listed) \subseteq Faces(listed')
      BY <3>1, FacesOnWrite
    <3> QED BY <3>1, <3>2, <3>3, BoardOnWrite
  <2>3. ASSUME NEW mode \in {"offset", "cursor"}, NEW filter \in RowStatuses \union {"any"},
               BeginWalk(mode, filter)
        PROVE  ReadInv'
    <3> DEFINE w == [mode |-> mode, filter |-> filter, offset |-> 0,
                     cursor |-> [stamp |-> -1, id |-> 0], counted |-> FALSE, total |-> 0,
                     seen |-> <<>>, began |-> Matching(filter), moved |-> {}, done |-> FALSE]
    <3>1. walk' = w /\ listed' = listed /\ board' = board
      BY <2>3 DEF BeginWalk
    <3>2. Matching(filter) \subseteq Rows /\ Matching(filter) \subseteq listed
      BY DEF Matching, Table
    <3>3. w \in WalkState
      BY <3>2 DEF WalkState
    <3>4. Begun(w, listed)
      BY DEF Begun, Matching, Lists
    <3>5. CursorInv(w, listed)
      BY DEF CursorInv, Passed
    <3>6. OffsetInv(w, listed)
      <4>1. \A r : Newer(r, filter, listed) \subseteq listed
        BY DEF Newer
      <4>2. \A r : Cardinality(Newer(r, filter, listed)) \in Nat
        BY <4>1, FS_Subset, FS_CardinalityType DEF Table
      <4> QED BY <4>2 DEF OffsetInv
    <3> HIDE DEF w
    <3> QED BY <3>1, <3>3, <3>4, <3>5, <3>6 DEF WalkInv
  <2>4. CASE NextOffsetPage
    <3>1. walk.mode = "offset" /\ ~walk.done /\ listed' = listed /\ board' = board
      BY <2>4 DEF NextOffsetPage
    <3>2. walk \in WalkState /\ Begun(walk, listed) /\ OffsetInv(walk, listed)
      BY <3>1 DEF WalkInv, NoWalk
    <3> DEFINE M == {q \in listed : Lists(walk.filter, q)}
    <3>3. M = Matching(walk.filter)
      BY DEF Matching, Lists
    <3>4. PICK s \in SetToSeqs(M) :
            /\ \A i, j \in DOMAIN s : i < j => s[i].stamp >= s[j].stamp
            /\ walk' = [walk EXCEPT !.seen = @ \o Page(s, walk.offset), !.offset = @ + PageSize,
                          !.counted = FALSE, !.done = walk.offset + PageSize >= walk.total]
      <4>1. PICK page \in OffsetPages(walk.filter, walk.offset) :
              walk' = [walk EXCEPT !.seen = @ \o page, !.offset = @ + PageSize,
                         !.counted = FALSE, !.done = walk.offset + PageSize >= walk.total]
        BY <2>4 DEF NextOffsetPage
      <4>2. PICK s \in OrderedByTime(M) : page = Page(s, walk.offset)
        BY <3>3 DEF OffsetPages
      <4>3. s \in SetToSeqs(M) /\ \A i, j \in DOMAIN s : i < j => s[i].stamp >= s[j].stamp
        BY <4>2 DEF OrderedByTime
      <4> QED BY <4>1, <4>2, <4>3
    <3> HIDE DEF M
    <3>5. /\ walk'.seen = walk.seen \o Page(s, walk.offset)
          /\ walk'.offset = walk.offset + PageSize
          /\ walk'.done = (walk.offset + PageSize >= walk.total) /\ walk'.total = walk.total
          /\ walk'.began = walk.began /\ walk'.moved = walk.moved
          /\ walk'.filter = walk.filter /\ walk'.mode = walk.mode
      BY <3>2, <3>4 DEF WalkState
    <3>6. OffsetInv(walk', listed) /\ walk'.seen \in Seq(Rows) /\ walk'.offset \in Nat
      <4>1. M = {q \in listed : Lists(walk.filter, q)}
        BY DEF M
      <4>2. \A i, j \in DOMAIN s : i < j => s[i].stamp >= s[j].stamp
        BY <3>4
      <4>3. PICK v : v = walk'
        OBVIOUS
      <4>4. /\ v.seen = walk.seen \o Page(s, walk.offset)
            /\ v.offset = walk.offset + PageSize
            /\ v.done = (walk.offset + PageSize >= walk.total) /\ v.total = walk.total
            /\ v.began = walk.began /\ v.moved = walk.moved /\ v.filter = walk.filter
        BY <3>5, <4>3
      <4>5. Table(listed)
        OBVIOUS
      <4>6. OffsetInv(v, listed) /\ v.seen \in Seq(Rows) /\ v.offset \in Nat
        BY <3>1, <3>2, <4>1, <4>2, <4>4, <4>5, OffsetStep
      <4> QED BY <4>3, <4>6
    <3>7. walk' \in WalkState
      <4>1. walk'.done \in BOOLEAN
        <5>1. (walk.offset + PageSize >= walk.total) \in BOOLEAN
          OBVIOUS
        <5> QED BY <3>5, <5>1
      <4> QED BY <3>2, <3>4, <3>6, <4>1 DEF WalkState
    <3>8. Begun(walk', listed)
      BY <3>2, <3>5 DEF Begun
    <3>9. WalkInv(walk', listed)
      BY <3>1, <3>5, <3>6, <3>7, <3>8 DEF WalkInv
    <3> QED BY <3>1, <3>9
  <2>5. CASE NextCursorPage
    <3>1. walk.mode = "cursor" /\ ~walk.done /\ listed' = listed /\ board' = board
      BY <2>5 DEF NextCursorPage
    <3>2. walk \in WalkState /\ Begun(walk, listed) /\ CursorInv(walk, listed)
      BY <3>1 DEF WalkInv, NoWalk
    <3> DEFINE rest == Rest(walk.filter, walk.cursor, listed)
               sorted == CHOOSE s \in SetToSeqs(rest) : InCursorOrder(s)
    <3>3. rest = {r \in Matching(walk.filter) :
                    (walk.cursor.stamp = -1) \/ After(r, walk.cursor)}
      BY DEF Rest, Matching, Lists
    <3>4. CursorPage(walk.filter, walk.cursor) =
            [page |-> Page(sorted, 0), more |-> Len(sorted) > PageSize]
      BY <3>3 DEF CursorPage, InCursorOrder, Earlier
    <3>5. sorted \in SetToSeqs(rest) /\ InCursorOrder(sorted)
      <4>1. Table(rest)
        BY TableOfPart DEF Rest
      <4> HIDE DEF rest
      <4>2. \E s \in SetToSeqs(rest) : InCursorOrder(s)
        BY <4>1, CursorOrderExists
      <4> QED BY <4>2
    <3>6. PICK s \in SetToSeqs(Rest(walk.filter, walk.cursor, listed)) :
             s = sorted /\ InCursorOrder(s)
      BY <3>5
    <3> HIDE DEF sorted, rest
    <3>7. walk' = [walk EXCEPT !.seen = @ \o Page(s, 0), !.done = ~(Len(s) > PageSize),
                      !.cursor = IF Len(s) > PageSize
                                 THEN [stamp |-> Last(Page(s, 0)).stamp,
                                       id |-> Last(Page(s, 0)).id] ELSE @]
      <4>1. PICK next : next = CursorPage(walk.filter, walk.cursor)
        OBVIOUS
      <4>2. walk' = [walk EXCEPT !.seen = @ \o next.page, !.done = ~next.more,
                        !.cursor = IF next.more THEN [stamp |-> Last(next.page).stamp,
                                                      id |-> Last(next.page).id] ELSE @]
        BY <2>5, <4>1 DEF NextCursorPage
      <4>3. next.page = Page(s, 0) /\ next.more = (Len(s) > PageSize)
        BY <3>4, <3>6, <4>1
      <4> QED BY <4>2, <4>3
    <3>8. /\ walk'.seen = walk.seen \o Page(s, 0) /\ walk'.done = ~(Len(s) > PageSize)
          /\ walk'.cursor = IF Len(s) > PageSize
                            THEN [stamp |-> Last(Page(s, 0)).stamp, id |-> Last(Page(s, 0)).id]
                            ELSE walk.cursor
          /\ walk'.began = walk.began /\ walk'.moved = walk.moved
          /\ walk'.filter = walk.filter /\ walk'.mode = walk.mode
      BY <3>2, <3>7 DEF WalkState
    <3>9. /\ CursorInv(walk', listed) /\ walk'.seen \in Seq(Rows)
          /\ walk'.cursor \in [stamp : Stamps \union {-1}, id : Nat]
      BY <3>1, <3>2, <3>6, <3>8, CursorStep
    <3>10. walk' \in WalkState
      <4>1. walk'.done \in BOOLEAN
        BY <3>8
      <4> QED BY <3>2, <3>7, <3>9, <4>1 DEF WalkState
    <3>11. Begun(walk', listed)
      BY <3>2, <3>8 DEF Begun
    <3>12. WalkInv(walk', listed)
      BY <3>1, <3>8, <3>9, <3>10, <3>11 DEF WalkInv
    <3> QED BY <3>1, <3>12
  <2>6. CASE CountRows
    <3>1. /\ walk.mode = "offset" /\ ~walk.done /\ listed' = listed /\ board' = board
          /\ walk' = [walk EXCEPT !.counted = TRUE, !.total = Cardinality(Matching(walk.filter))]
      BY <2>6 DEF CountRows
    <3>2. walk \in WalkState /\ Begun(walk, listed) /\ OffsetInv(walk, listed)
      BY <3>1 DEF WalkInv, NoWalk
    <3>3. Cardinality(Matching(walk.filter)) \in Nat
      BY FS_Subset, FS_CardinalityType DEF Matching, Table
    <3>4. walk' \in WalkState
      BY <3>1, <3>2, <3>3 DEF WalkState
    <3>5. /\ walk'.mode = walk.mode /\ walk'.filter = walk.filter /\ walk'.offset = walk.offset
          /\ walk'.seen = walk.seen /\ walk'.began = walk.began /\ walk'.moved = walk.moved
          /\ walk'.done = walk.done
      BY <3>1, <3>2 DEF WalkState
    <3>6. Begun(walk', listed) /\ OffsetInv(walk', listed)
      BY <3>1, <3>2, <3>5 DEF Begun, OffsetInv, InWalk
    <3>7. WalkInv(walk', listed)
      BY <3>1, <3>4, <3>5, <3>6 DEF WalkInv
    <3> QED BY <3>1, <3>7
  <2>7. CASE BeginBoard
    <3>1. /\ listed' = listed /\ walk' = walk
          /\ board' = [mode |-> "activity", read |-> 0, items |-> {}, began |-> Faces(listed),
                       shown |-> {}]
      BY <2>7 DEF BeginBoard
    <3>2. \A r \in Faces(listed) : 0 = Len(Feeds) => FALSE
      <4>1. ASSUME NEW r \in Faces(listed), 0 = Len(Feeds) PROVE FALSE
        <5>1. FeedOf[r.id] \in ToSet(Feeds)
          BY FacesAre, ReadModelsAssumption
        <5>2. DOMAIN Feeds = 1 .. Len(Feeds)
          BY ReadModelsAssumption
        <5> QED BY <4>1, <5>1, <5>2 DEF ToSet
      <4> QED BY <4>1
    <3>3. Len(Feeds) \in Nat
      BY ReadModelsAssumption
    <3>4. BoardInv(board', listed)
      BY <3>1, <3>2, <3>3 DEF BoardInv
    <3> QED BY <3>1, <3>4
  <2>8. CASE ReadFeed
    <3>1. /\ board.mode = "activity" /\ board.read < Len(Feeds) /\ listed' = listed /\ walk' = walk
      BY <2>8 DEF ReadFeed
    <3>2. PICK T, shown :
            /\ T \in Newest({q \in Faces(listed) : FeedOf[q.id] = Feeds[board.read + 1]}, PerFeed)
            /\ shown \in IF board.read + 1 = Len(Feeds)
                         THEN Newest(board.items \union T, ActivityLimit) ELSE {{}}
            /\ board' = [board EXCEPT !.read = @ + 1, !.items = @ \union T, !.shown = shown]
      BY <2>8 DEF ReadFeed
    <3>3. /\ board'.mode = board.mode /\ board'.read = board.read + 1
          /\ board'.items = board.items \union T /\ board'.began = board.began
          /\ board'.shown = shown
      BY <3>1, <3>2 DEF BoardInv, NoBoard
    <3>4. board'.read = Len(Feeds) => board'.shown \in Newest(board'.items, ActivityLimit)
      BY <3>2, <3>3
    <3>5. PICK v : v = board'
      OBVIOUS
    <3>6. BoardInv(v, listed)
      BY <3>1, <3>2, <3>3, <3>4, <3>5, BoardStep
    <3> QED BY <3>1, <3>5, <3>6
  <2>9. CASE UNCHANGED readVars
    BY <2>9 DEF readVars
  <2> QED BY <2>1, <2>2, <2>3, <2>4, <2>5, <2>6, <2>7, <2>8, <2>9 DEF ReadNext
<1> QED BY <1>1, <1>2, PTL DEF ReadSpec

\* "page_anomalies_by_cursor", the lists of the workspace and the dashboard: for
\* every page size and however many rows are added, change and commit out of
\* order between two pages, who reads by cursor gets each row once and all that
\* were there from the first page to the last; who reads by offset misses none
\* whose time is its own, as long as none leaves the list and fewer newer ones
\* are there than the last count counted; and the dashboard shows the newest of
\* what was there before its first query.
THEOREM ReadersGetAll == ReadSpec => []ReadersMissNothing
<1>1. ReadInv => ReadersMissNothing
  <2> SUFFICES ASSUME ReadInv PROVE ReadersMissNothing
    OBVIOUS
  <2>1. CursorWalkIsComplete
    <3> SUFFICES ASSUME walk.mode = "cursor", walk.done
                 PROVE  /\ Cardinality(SeenIds) = Len(walk.seen)
                        /\ {r.id : r \in walk.began} \ walk.moved \subseteq SeenIds
      BY DEF CursorWalkIsComplete
    <3>1. walk \in WalkState /\ CursorInv(walk, listed)
      BY DEF ReadInv, WalkInv, NoWalk
    <3>2. {r.id : r \in walk.began} \ walk.moved \subseteq SeenIds
      BY <3>1 DEF CursorInv, InWalk, SeenIds
    <3>3. PICK n \in Nat : n = Len(walk.seen) /\ DOMAIN walk.seen = 1 .. n
      BY <3>1 DEF WalkState
    <3> DEFINE f == [i \in 1 .. n |-> walk.seen[i].id]
    <3>4. f \in Bijection(1 .. n, SeenIds)
      BY <3>1, <3>3 DEF CursorInv, SeenIds, Bijection, Injection, Surjection, IsInjective
    <3>5. ExistsBijection(1 .. n, SeenIds)
      BY <3>4 DEF ExistsBijection
    <3>6. IsFiniteSet(1 .. n) /\ Cardinality(1 .. n) = n
      BY FirstPlaces
    <3>7. Cardinality(SeenIds) = n
      BY <3>5, <3>6, FS_Bijection
    <3> QED BY <3>2, <3>3, <3>7
  <2>2. OffsetWalkIsComplete
    <3> SUFFICES ASSUME walk.mode = "offset", walk.done, walk.moved = {}, NEW r \in walk.began,
                        \A q \in listed : q.stamp = r.stamp => q.id = r.id
                 PROVE  \/ r.id \in SeenIds
                        \/ Cardinality({q \in Matching(walk.filter) : q.stamp > r.stamp})
                              >= walk.total
      BY DEF OffsetWalkIsComplete
    <3>1. walk \in WalkState /\ OffsetInv(walk, listed)
      BY DEF ReadInv, WalkInv, NoWalk
    <3>2. \/ InWalk(walk, r.id)
          \/ Cardinality(Newer(r, walk.filter, listed)) >= walk.offset
      BY <3>1 DEF OffsetInv, Alone
    <3>3. walk.offset >= walk.total /\ walk.offset \in Nat /\ walk.total \in Nat
      BY <3>1 DEF OffsetInv, WalkState
    <3>4. Newer(r, walk.filter, listed) = {q \in Matching(walk.filter) : q.stamp > r.stamp}
      BY DEF Newer, Matching, Lists
    <3>5. Cardinality(Newer(r, walk.filter, listed)) \in Nat
      <4>1. Newer(r, walk.filter, listed) \subseteq listed /\ IsFiniteSet(listed)
        BY DEF Newer, ReadInv, Table
      <4> QED BY <4>1, FS_Subset, FS_CardinalityType
    <3> QED BY <3>2, <3>3, <3>4, <3>5 DEF InWalk, SeenIds
  <2>3. NewestAreShown
    <3>1. board.mode = "activity" => BoardInv(board, listed) /\ board # NoBoard
      BY DEF ReadInv, NoBoard
    <3> QED BY <3>1 DEF BoardInv, NewestAreShown, Few
  <2> QED BY <2>1, <2>2, <2>3 DEF ReadersMissNothing
<1> QED BY <1>1, ReadTyped, PTL

==============================================================================
