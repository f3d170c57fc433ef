--------------------------- MODULE DocumentIntake ----------------------------
(***************************************************************************)
(* Upload of documents (DocumentService, app/services/document_service.py; *)
(* LocalFileStorage, app/storage/local.py), their associations, and the    *)
(* assignment of rows without a tenant (app/identity/assign_legacy.py).    *)
(*                                                                         *)
(* The file and the row are written to two stores that share no            *)
(* transaction: the file first, under an id of its own, then the row,      *)
(* which a unique constraint on tenant and digest may refuse.  Content     *)
(* stands for its digest.                                                  *)
(***************************************************************************)
EXTENDS Naturals, FiniteSets, TenantScope

CONSTANTS
    Contents,
    Targets,        \* vendors, orders, receipts and invoices to associate with
    TargetsOf,      \* target -> its tenant, or NoTenant
    NoTarget,
    Legacy,         \* content of the document from before there were tenants
    LegacyTarget,   \* and what it is associated with
    Uploads,        \* requests
    MaxUploads,     \* bound: uploads that go as far as an id
    MaxIntakeFaults \* bound: failed writes, commits and deletions, and crashes

ASSUME IntakeAssumption ==
    /\ NoTarget \notin Targets /\ Legacy \in Contents
    /\ TargetsOf \in [Targets -> Tenants \union {NoTenant}]
    /\ LegacyTarget \in Targets /\ TargetsOf[LegacyTarget] = NoTenant
    /\ MaxUploads \in Nat /\ MaxIntakeFaults \in Nat

VARIABLES
    rows,       \* committed documents
    targets,    \* records a document can be associated with
    files,      \* the storage directory: ids, and whether the file is whole
    upload,     \* requests in progress
    told,       \* answers: to whom, for what content, which document
    leftover,   \* ids of files that a fault left behind
    ids,        \* ids given out
    intakeFaults

intakeVars == <<rows, targets, files, upload, told, leftover, ids, intakeFaults>>

Document == [id : Nat, tenant : Tenants \union {NoTenant}, content : Contents,
             target : Targets \union {NoTarget}]

Free == [pc |-> "free"]

IntakeTypeOK ==
    /\ rows \subseteq Document
    /\ {t.target : t \in targets} = Targets
    /\ files \subseteq [id : Nat, whole : BOOLEAN]
    /\ \A u \in Uploads : upload[u] = Free \/ /\ upload[u].pc \in {"save", "commit", "undo", "raise"}
                                              /\ upload[u].row \in Document
    /\ told \subseteq [tenant : Tenants, content : Contents, id : Nat]
    /\ leftover \subseteq 1..ids

IntakeInit ==
    /\ rows = {[id |-> 0, tenant |-> NoTenant, content |-> Legacy,
              target |-> LegacyTarget]}
    /\ targets = {[target |-> t, tenant |-> TargetsOf[t]] : t \in Targets}
    /\ files = {[id |-> 0, whole |-> TRUE]}
    /\ upload = [u \in Uploads |-> Free]
    /\ told = {} /\ leftover = {}
    /\ ids = 0 /\ intakeFaults = 0

Fault == intakeFaults < MaxIntakeFaults /\ intakeFaults' = intakeFaults + 1
NoFault == UNCHANGED intakeFaults

\* Mutant: a SELECT that the filter does not reach.
MayAssociateAny(tenant, target) ==
    target = NoTarget \/ \E t \in targets : t.target = target

\* _assert_association_targets.
MayAssociate(tenant, target) ==
    target = NoTarget \/ \E t \in Visible(tenant, targets) : t.target = target

\* The SELECT by digest.
SameContent(tenant, content) == {d \in Visible(tenant, rows) : d.content = content}

Tell(u, found) ==
    /\ told' = told \union {[tenant |-> upload[u].tenant, content |-> upload[u].row.content,
                             id |-> d.id] : d \in found}
    /\ upload' = [upload EXCEPT ![u] = Free]

\* upload, after validation: a known digest is answered with its document.
Begin(u, tenant, content, target) ==
    /\ upload[u] = Free
    /\ MayAssociate(tenant, target)
    /\ \/ /\ SameContent(tenant, content) # {}
          /\ told' = told \union {[tenant |-> tenant, content |-> content, id |-> d.id] :
                                     d \in SameContent(tenant, content)}
          /\ UNCHANGED <<upload, ids>>
       \/ /\ SameContent(tenant, content) = {}
          /\ ids < MaxUploads
          /\ ids' = ids + 1
          /\ upload' = [upload EXCEPT ![u] =
                [pc |-> "save", tenant |-> tenant,
                 row |-> [id |-> ids', tenant |-> NoTenant, content |-> content,
                          target |-> target]]]
          /\ UNCHANGED told
    /\ UNCHANGED <<rows, targets, files, leftover, intakeFaults>>

\* LocalFileStorage.save: a write that fails may leave the beginning of a file.
Save(u) ==
    LET id == upload[u].row.id
    IN  /\ upload[u].pc = "save"
        /\ \/ /\ files' = files \union {[id |-> id, whole |-> TRUE]}
              /\ upload' = [upload EXCEPT ![u].pc = "commit"]
              /\ NoFault /\ UNCHANGED leftover
           \/ /\ Fault
              /\ files' = files \union {[id |-> id, whole |-> FALSE]}
              /\ leftover' = leftover \union {id}
              /\ upload' = [upload EXCEPT ![u] = Free]
        /\ UNCHANGED <<rows, targets, told, ids>>

\* Mutant: the constraint is on the id alone.
TakenNever(row) == \E d \in rows : d.id = row.id

\* uq (tenant, sha256); NULL differs from NULL.
Taken(row) == \E d \in rows : d.tenant = row.tenant /\ d.content = row.content
                              /\ row.tenant # NoTenant

Commit(u) ==
    LET row == Stamped(upload[u].tenant, upload[u].row)
    IN  /\ upload[u].pc = "commit"
        /\ \/ /\ ~Taken(row)
              /\ rows' = rows \union {row}
              /\ Tell(u, {row})
              /\ NoFault
           \/ /\ Taken(row)                                     \* IntegrityError
              /\ upload' = [upload EXCEPT ![u].pc = "undo"]
              /\ NoFault /\ UNCHANGED <<rows, told>>
           \/ /\ Fault
              /\ upload' = [upload EXCEPT ![u].pc = "raise"]
              /\ UNCHANGED <<rows, told>>
        /\ UNCHANGED <<targets, files, leftover, ids>>

\* Mutant: the loser of a race removes the files of that content.
RemovedOfContent(u) ==
    {f \in files : \A d \in SameContent(upload[u].tenant, upload[u].row.content)
                               \union {upload[u].row} : f.id # d.id}

Removed(u) == {f \in files : f.id # upload[u].row.id}

\* After the rollback: delete the file, a failure of which is suppressed, and
\* answer with the winner's row or raise.
Undo(u) ==
    /\ upload[u].pc \in {"undo", "raise"}
    /\ \/ files' = Removed(u) /\ NoFault /\ UNCHANGED leftover
       \/ Fault /\ leftover' = leftover \union {upload[u].row.id} /\ UNCHANGED files
    /\ Tell(u, IF upload[u].pc = "raise" THEN {}
               ELSE SameContent(upload[u].tenant, upload[u].row.content))
    /\ UNCHANGED <<rows, targets, ids>>

\* The process dies; what is on disk stays.
Crash(u) ==
    /\ upload[u] # Free /\ Fault
    /\ leftover' = leftover \union ({f.id : f \in files} \intersect {upload[u].row.id})
    /\ upload' = [upload EXCEPT ![u] = Free]
    /\ UNCHANGED <<rows, targets, files, told, ids>>

\* update_associations.
Associate(tenant, id, target) ==
    /\ \E d \in Visible(tenant, rows) : d.id = id /\ d.target # target
    /\ MayAssociate(tenant, target)
    /\ rows' = {IF d.id = id THEN [d EXCEPT !.target = target] ELSE d : d \in rows}
    /\ UNCHANGED <<targets, files, upload, told, leftover, ids, intakeFaults>>

\* assign_legacy: one UPDATE per table in one transaction, which the constraint
\* on the digest refuses as a whole.
AssignLegacy(tenant) ==
    LET after == Assigned(tenant, rows)
    IN  /\ after # rows
        /\ \A d, e \in after : d.tenant = e.tenant /\ d.content = e.content => d = e
        /\ rows' = after
        /\ targets' = Assigned(tenant, targets)
        /\ UNCHANGED <<files, upload, told, leftover, ids, intakeFaults>>

IntakeNext ==
    \/ \E u \in Uploads, t \in Tenants, c \in Contents, g \in Targets \union {NoTarget} :
          Begin(u, t, c, g)
    \/ \E u \in Uploads : Save(u) \/ Commit(u) \/ Undo(u) \/ Crash(u)
    \/ \E t \in Tenants, d \in rows, g \in Targets \union {NoTarget} : Associate(t, d.id, g)
    \/ \E t \in Tenants : AssignLegacy(t)

IntakeSpec == IntakeInit /\ [][IntakeNext]_intakeVars

-----------------------------------------------------------------------------
(* Properties.                                                             *)

\* A document that is on record can be read: whatever fails or races, its file is
\* there and whole.  A file without a row is being uploaded, or was left by a
\* fault of the storage or of the process: the loser of a race cleans up.
EveryDocumentHasItsFile ==
    /\ IntakeTypeOK
    /\ \A d \in rows : [id |-> d.id, whole |-> TRUE] \in files
    /\ \A f \in files : \/ f.id \in {d.id : d \in rows} \union leftover
                        \/ \E u \in Uploads : upload[u] # Free /\ upload[u].row.id = f.id

\* "Exact content duplicates return the existing metadata row": all that one
\* tenant is ever told of one content names one document, and it is the tenant's.
OneDocumentPerContent ==
    \A a \in told :
        /\ \E d \in rows : d.id = a.id /\ d.tenant = a.tenant /\ d.content = a.content
        /\ \A b \in told : a.tenant = b.tenant /\ a.content = b.content => a = b

\* A document refers to records of its own tenant alone, also when rows get their
\* tenant while a request is under way.
LinksStayInside ==
    \A d \in rows : d.target # NoTarget =>
        \A t \in targets : t.target = d.target => t.tenant = d.tenant

=============================================================================
