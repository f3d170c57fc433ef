-------------------------- MODULE AnomalyScanProofs --------------------------
(***************************************************************************)
(* Theorems about AnomalyScan, for any scans, entities, rules and batch    *)
(* sizes, and any number of requests that run, resume and cancel scans at  *)
(* the same time.                                                          *)
(*                                                                         *)
(* Signals.  A run may skip a signal because the table has it, or because  *)
(* it has flushed it itself.  The table only grows, and what a run has     *)
(* flushed is committed together with the batch or rolled back together    *)
(* with it: so the entities of a batch have their signals in the table or  *)
(* among those flushed, until the batch is counted (ScanInv).              *)
(*                                                                         *)
(* Checkpoints.  Runs of one scan overwrite each other's cursor, so that   *)
(* it may go back as well as forth; what holds is that every cursor there  *)
(* is, in the table or in a session, has only entities behind it that are  *)
(* done, those of the scan's target.  A run's batch is made of the first   *)
(* entities after such a cursor: so the cursor it will leave is sound too, *)
(* the target being fixed and what is done only growing (Sound, Knows).    *)
(* The counters need more: that the row in the run's session is as it is   *)
(* stored, and that nothing done lies after the cursor, so that no entity  *)
(* is counted twice.  Both hold until two requests run one scan at once    *)
(* (Counted, KnowsAlone).                                                  *)
(***************************************************************************)
EXTENDS AnomalyScan, FiniteSetTheorems, FunctionTheorems, TLAPS

-----------------------------------------------------------------------------
(* The inductive invariant.                                                *)

Columns == {"pc", "scan", "row", "stage", "batch", "left", "pending", "bad"}

\* What a run has examined in its batch has its signals, among `known' or flushed.
Covered(state, known) ==
    /\ Columns \subseteq DOMAIN state
    /\ state.pc # "batch" => state.batch = {}
    /\ \A i \in state.batch \ (state.left \union state.bad) :
          Detects[state.stage][i] \subseteq known \union state.pending

ScanInv ==
    /\ DOMAIN runner = Runners /\ DOMAIN examined = Scans
    /\ \A r \in Runners : Covered(runner[r], signals)
    /\ ExaminedHasSignals

-----------------------------------------------------------------------------
(* Steps of a run.                                                         *)

LEMMA FreshIsCovered ==
    ASSUME NEW s, NEW p, NEW row, NEW known, p # "batch"
    PROVE  Covered([Fresh(s) EXCEPT !.pc = p, !.row = row], known)
BY DEF Covered, Fresh, Columns

LEMMA IdleIsCovered == \A known : Covered(Idle, known)
BY DEF Covered, Fresh, Idle, Columns

\* Nothing a run does on its own account disturbs the others: the table grows.
LEMMA RunGoesOn ==
    ASSUME ScanInv, NEW r \in Runners, NEW x, Goes(r, x), Covered(x, signals'),
           signals \subseteq signals', examined' = examined
    PROVE  ScanInv'
<1>1. /\ DOMAIN runner' = Runners /\ runner'[r] = x
      /\ \A q \in Runners : q # r => runner'[q] = runner[q]
  BY DEF ScanInv, Goes
<1>2. ASSUME NEW q \in Runners PROVE Covered(runner'[q], signals')
  <2>1. CASE q = r
    BY <1>1, <2>1
  <2>2. CASE q # r
    BY <1>1, <2>2 DEF ScanInv, Covered
  <2> QED  BY <2>1, <2>2
<1>3. ExaminedHasSignals'
  BY DEF ScanInv, ExaminedHasSignals
<1> QED  BY <1>1, <1>2, <1>3 DEF ScanInv

\* Between batches a run has none.
LEMMA NoBatch ==
    ASSUME ScanInv, NEW r \in Runners, runner[r].pc # "batch"
    PROVE  runner[r].batch = {} /\ Columns \subseteq DOMAIN runner[r]
BY DEF ScanInv, Covered

\* A run that looks again starts a batch of which nothing is examined yet, or none.
LEMMA InvLook ==
    ASSUME ScanInv, NEW r \in Runners, Look(r)
    PROVE  ScanInv'
<1>1. PICK x : Goes(r, x) /\ Covered(x, signals)
  <2> DEFINE row == scan[runner[r].scan]
             to(pc) == [runner[r] EXCEPT !.pc = pc, !.row = row]
  <2>1. runner[r].batch = {} /\ Columns \subseteq DOMAIN runner[r]
    BY NoBatch DEF Look
  <2>2. \A p \in {"look", "mark", "finish"} : Covered(to(p), signals)
                                           /\ Covered([to(p) EXCEPT !.stage = "vendor"], signals)
    BY <2>1 DEF Covered, Columns
  <2>3. ASSUME NEW ids
        PROVE  Covered([to("batch") EXCEPT !.batch = ids, !.left = ids, !.bad = {}], signals)
    <3> DEFINE x == [to("batch") EXCEPT !.batch = ids, !.left = ids, !.bad = {}]
    <3>1. Columns \subseteq DOMAIN x /\ x.pc = "batch" /\ x.batch = ids /\ x.left = ids
      BY <2>1 DEF Columns
    <3> HIDE DEF x
    <3> QED  BY <3>1 DEF Covered, x
  <2>4. Covered(Idle, signals)
    BY IdleIsCovered
  <2> QED  BY <2>2, <2>3, <2>4 DEF Look
<1>2. signals' = signals /\ examined' = examined
  BY DEF Look
<1> QED  BY <1>1, <1>2, RunGoesOn

\* One entity more is examined, or has failed; or the batch is given up.
LEMMA InvExamine ==
    ASSUME ScanInv, NEW r \in Runners, Examine(r)
    PROVE  ScanInv'
<1> DEFINE row == scan[runner[r].scan]
<1>1. Covered(runner[r], signals) /\ Columns \subseteq DOMAIN runner[r] /\ runner[r].pc = "batch"
      /\ signals' = signals /\ examined' = examined
  BY DEF ScanInv, Covered, Examine
<1>2. PICK i \in runner[r].left :
          \/ Goes(r, [runner[r] EXCEPT !.pc = "look", !.row = row, !.batch = {}, !.left = {},
                                       !.bad = {}])
          \/ Goes(r, [runner[r] EXCEPT !.row = row, !.left = @ \ {i},
                                       !.pending = @ \union New(r, i)])
          \/ Goes(r, [runner[r] EXCEPT !.row = row, !.left = @ \ {i}, !.bad = @ \union {i}])
  BY DEF Examine
<1>3. Covered([runner[r] EXCEPT !.pc = "look", !.row = row, !.batch = {}, !.left = {}, !.bad = {}],
              signals)
  BY <1>1 DEF Covered, Columns
<1>4. Covered([runner[r] EXCEPT !.row = row, !.left = @ \ {i}, !.pending = @ \union New(r, i)],
              signals)
  <2> DEFINE x == [runner[r] EXCEPT !.row = row, !.left = @ \ {i},
                                    !.pending = @ \union New(r, i)]
  <2>1. /\ Columns \subseteq DOMAIN x
        /\ x.pc = "batch" /\ x.batch = runner[r].batch /\ x.bad = runner[r].bad
        /\ x.stage = runner[r].stage /\ x.left = runner[r].left \ {i}
        /\ x.pending = runner[r].pending \union New(r, i)
    BY <1>1 DEF Columns
  <2>2. Detects[runner[r].stage][i] \subseteq signals \union x.pending
    BY <2>1 DEF New
  <2> HIDE DEF x
  <2>3. \A j \in x.batch \ (x.left \union x.bad) :
            Detects[x.stage][j] \subseteq signals \union x.pending
    BY <1>1, <2>1, <2>2 DEF Covered
  <2> QED  BY <2>1, <2>3 DEF Covered, x
<1>5. Covered([runner[r] EXCEPT !.row = row, !.left = @ \ {i}, !.bad = @ \union {i}], signals)
  BY <1>1 DEF Covered, Columns
<1> QED  BY <1>1, <1>2, <1>3, <1>4, <1>5, RunGoesOn

\* A batch is counted with the signals flushed for it.
LEMMA InvCommitBatch ==
    ASSUME ScanInv, NEW r \in Runners, CommitBatch(r)
    PROVE  ScanInv'
<1> DEFINE s == runner[r].scan
           k == runner[r].stage
           more == {<<k, i>> : i \in runner[r].batch \ runner[r].bad}
           x == [runner[r] EXCEPT !.pc = "look", !.row = Advanced(r), !.batch = {},
                                  !.pending = {}, !.bad = {}]
<1>1. /\ runner[r].left = {} /\ signals' = signals \union runner[r].pending
      /\ examined' = [examined EXCEPT ![s] = @ \union more]
      /\ runner' = [runner EXCEPT ![r] = x]
  BY DEF CommitBatch, Goes
<1>2. Covered(x, signals')
  BY DEF ScanInv, Covered, Columns
<1>3. \A i \in runner[r].batch \ runner[r].bad : Detects[k][i] \subseteq signals'
  BY <1>1 DEF ScanInv, Covered
<1> HIDE DEF x
<1>4. ASSUME NEW q \in Runners PROVE Covered(runner'[q], signals')
  <2>1. CASE q = r
    BY <1>1, <1>2, <2>1 DEF ScanInv
  <2>2. CASE q # r
    BY <1>1, <2>2 DEF ScanInv, Covered
  <2> QED  BY <2>1, <2>2
<1>5. ASSUME NEW t \in Scans, NEW e \in examined'[t]
      PROVE  Detects[e[1]][e[2]] \subseteq signals'
  <2>1. CASE e \in examined[t]
    BY <1>1, <2>1 DEF ScanInv, ExaminedHasSignals
  <2>2. CASE e \notin examined[t]
    <3>1. e \in more
      BY <1>1, <1>5, <2>2 DEF ScanInv
    <3> QED  BY <1>3, <3>1
  <2> QED  BY <2>1, <2>2
<1> QED  BY <1>1, <1>4, <1>5 DEF ScanInv, ExaminedHasSignals

\* The other steps of a run have no batch.
LEMMA InvOtherSteps ==
    ASSUME ScanInv, NEW r \in Runners,
           \/ CommitResume(r) \/ RunResumed(r) \/ StartRun(r) \/ MarkPhaseDone(r)
           \/ Finish(r) \/ Deadlocked(r) \/ FailRun(r) \/ DatabaseFails(r) \/ Crash(r)
    PROVE  ScanInv'
<1>1. CASE CommitResume(r)
  <2>1. Goes(r, [runner[r] EXCEPT !.pc = "resumed"]) /\ signals' = signals /\ examined' = examined
        /\ runner[r].pc # "batch"
    BY <1>1 DEF CommitResume
  <2>2. Covered([runner[r] EXCEPT !.pc = "resumed"], signals)
    BY <2>1, NoBatch DEF Covered, Columns
  <2> QED  BY <2>1, <2>2, RunGoesOn
<1>2. CASE RunResumed(r)
  <2> DEFINE s == runner[r].scan
  <2>1. /\ \/ Goes(r, [Fresh(s) EXCEPT !.pc = "start", !.row = scan[s]])
           \/ Goes(r, Idle)
        /\ signals' = signals /\ examined' = examined
    BY <1>2 DEF RunResumed
  <2>2. Covered([Fresh(s) EXCEPT !.pc = "start", !.row = scan[s]], signals) /\ Covered(Idle, signals)
    BY FreshIsCovered, IdleIsCovered
  <2> QED  BY <2>1, <2>2, RunGoesOn
<1>3. CASE StartRun(r)
  <2>1. PICK row, stage :
            /\ Goes(r, [runner[r] EXCEPT !.pc = "look", !.row = row, !.stage = stage])
            /\ signals' = signals /\ examined' = examined /\ runner[r].pc # "batch"
    BY <1>3 DEF StartRun
  <2>2. Covered([runner[r] EXCEPT !.pc = "look", !.row = row, !.stage = stage], signals)
    BY <2>1, NoBatch DEF Covered, Columns
  <2> QED  BY <2>1, <2>2, RunGoesOn
<1>4. CASE MarkPhaseDone(r)
  <2> DEFINE row == [runner[r].row EXCEPT !.cursor = [phase |-> runner[r].stage, after |-> 0,
                                                       done |-> TRUE]]
             p == IF runner[r].stage = "vendor" THEN "finish" ELSE "look"
             x == [runner[r] EXCEPT !.row = row, !.pending = {}, !.stage = "vendor", !.pc = p]
  <2>1. /\ Goes(r, x)
        /\ signals \subseteq signals' /\ examined' = examined /\ runner[r].pc # "batch"
    BY <1>4 DEF MarkPhaseDone
  <2>2. Covered(x, signals')
    BY <2>1, NoBatch DEF Covered, Columns
  <2> HIDE DEF x
  <2> QED  BY <2>1, <2>2, RunGoesOn
<1>5. CASE Finish(r) \/ FailRun(r) \/ Crash(r)
  <2>1. Goes(r, Idle) /\ signals \subseteq signals' /\ examined' = examined
    <3>1. CASE Finish(r)
      BY <3>1 DEF Finish
    <3>2. CASE FailRun(r)
      BY <3>2 DEF FailRun
    <3>3. CASE Crash(r)
      BY <3>3 DEF Crash
    <3> QED  BY <1>5, <3>1, <3>2, <3>3
  <2> QED  BY <2>1, IdleIsCovered, RunGoesOn
<1>6. CASE Deadlocked(r) \/ DatabaseFails(r)
  <2>1. Goes(r, RolledBack(r)) /\ signals' = signals /\ examined' = examined
    BY <1>6 DEF Deadlocked, DatabaseFails
  <2>2. Covered(RolledBack(r), signals)
    BY DEF RolledBack, Covered, Fresh, Columns
  <2> QED  BY <2>1, <2>2, RunGoesOn
<1> QED  BY <1>1, <1>2, <1>3, <1>4, <1>5, <1>6

-----------------------------------------------------------------------------
(* All steps.                                                              *)

LEMMA InvInit == ScanInit => ScanInv
<1> SUFFICES ASSUME ScanInit PROVE ScanInv
  OBVIOUS
<1>1. runner = [r \in Runners |-> Idle] /\ examined = [s \in Scans |-> {}]
  BY DEF ScanInit
<1>2. Covered(Idle, signals)
  BY IdleIsCovered
<1> QED  BY <1>1, <1>2 DEF ScanInv, ExaminedHasSignals

LEMMA InvQuiet ==
    ASSUME ScanInv, UNCHANGED <<signals, runner, examined>>
    PROVE  ScanInv'
BY DEF ScanInv, Covered, ExaminedHasSignals

LEMMA InvStep == ScanInv /\ [ScanNext]_vars => ScanInv'
<1> SUFFICES ASSUME ScanInv, [ScanNext]_vars PROVE ScanInv'
  OBVIOUS
<1>1. ASSUME NEW k \in Kinds, NEW i \in Ids, Record(k, i) PROVE ScanInv'
  BY <1>1, InvQuiet DEF Record
<1>2. ASSUME NEW s \in Scans, NEW type \in ScanTypes, CreateScan(s, type) PROVE ScanInv'
  BY <1>2, InvQuiet DEF CreateScan
<1>3. ASSUME NEW c \in Cancellers, NEW s \in Scans, BeginCancel(c, s) PROVE ScanInv'
  BY <1>3, InvQuiet DEF BeginCancel
<1>4. ASSUME NEW c \in Cancellers, CommitCancel(c) PROVE ScanInv'
  BY <1>4, InvQuiet DEF CommitCancel
<1>5. ASSUME NEW r \in Runners, NEW s \in Scans, BeginRun(r, s) \/ BeginResume(r, s)
      PROVE  ScanInv'
  <2>1. PICK p \in {"start", "resume"} :
            /\ Goes(r, [Fresh(s) EXCEPT !.pc = p, !.row = scan[s]])
            /\ signals' = signals /\ examined' = examined
    BY <1>5 DEF BeginRun, BeginResume
  <2> QED  BY <2>1, FreshIsCovered, RunGoesOn
<1>6. ASSUME NEW r \in Runners, RunStep(r) \/ DatabaseFails(r) \/ Crash(r) PROVE ScanInv'
  BY <1>6, InvLook, InvExamine, InvCommitBatch, InvOtherSteps DEF RunStep
<1>7. CASE UNCHANGED vars
  BY <1>7, InvQuiet DEF vars
<1> QED  BY <1>1, <1>2, <1>3, <1>4, <1>5, <1>6, <1>7 DEF ScanNext

\* What AnomalyScanService counts as examined has its signals in the table, whatever
\* runs of the same or of other scans, cancellations, failures and crashes it raced
\* with: none is lost with a batch that is rolled back.
THEOREM SignalsAreKept == ScanSpec => []ExaminedHasSignals
<1>1. ScanInv => ExaminedHasSignals
  BY DEF ScanInv
<1> QED  BY <1>1, InvInit, InvStep, PTL DEF ScanSpec

-----------------------------------------------------------------------------
(* Finite sets of numbers, and the order in which a run takes entities.     *)

\* A finite set of numbers that has one has a last one ...
LEMMA FiniteHasLast ==
    ASSUME NEW B \in SUBSET Nat, IsFiniteSet(B), B # {}
    PROVE  \E i \in B : \A j \in B : j <= i
<1> DEFINE above(i) == {j \in B : i < j}
           T == {above(i) : i \in B}
<1>0. \A i \in B : above(i) \in SUBSET B /\ IsFiniteSet(above(i))
  BY FS_Subset
<1>1. T \subseteq FiniteSubsetsOf(B) /\ T # {}
  BY <1>0 DEF FiniteSubsetsOf
<1>2. PICK a \in T : \A c \in T : ~(<<c, a>> \in StrictSubsetOrdering(B))
  BY <1>1, FS_StrictSubsetOrderingWellFounded, WFMin
<1>3. PICK i \in B : a = above(i)
  OBVIOUS
<1>4. ASSUME NEW j \in B, i < j PROVE FALSE
  <2>1. i \in Nat /\ j \in Nat /\ \A n \in B : n \in Nat
    BY <1>3
  <2>2. ASSUME NEW n \in above(j) PROVE n \in above(i)
    BY <1>4, <2>1
  <2>3. j \in above(i) /\ j \notin above(j)
    BY <1>4, <2>1
  <2>4. above(j) \subseteq above(i)
    BY <2>2
  <2>5. <<above(j), above(i)>> \in StrictSubsetOrdering(B)
    BY <1>0, <2>3, <2>4 DEF StrictSubsetOrdering
  <2> QED  BY <1>2, <1>3, <2>5
<1> QED  BY <1>4

\* ... and a first one.
LEMMA FiniteHasFirst ==
    ASSUME NEW B \in SUBSET Nat, IsFiniteSet(B), B # {}
    PROVE  \E i \in B : \A j \in B : i <= j
<1> DEFINE below(i) == {j \in B : j < i}
           T == {below(i) : i \in B}
<1>0. \A i \in B : below(i) \in SUBSET B /\ IsFiniteSet(below(i))
  BY FS_Subset
<1>1. T \subseteq FiniteSubsetsOf(B) /\ T # {}
  BY <1>0 DEF FiniteSubsetsOf
<1>2. PICK a \in T : \A c \in T : ~(<<c, a>> \in StrictSubsetOrdering(B))
  BY <1>1, FS_StrictSubsetOrderingWellFounded, WFMin
<1>3. PICK i \in B : a = below(i)
  OBVIOUS
<1>4. ASSUME NEW j \in B, j < i PROVE FALSE
  <2>1. i \in Nat /\ j \in Nat /\ \A n \in B : n \in Nat
    BY <1>3
  <2>2. ASSUME NEW n \in below(j) PROVE n \in below(i)
    BY <1>4, <2>1
  <2>3. j \in below(i) /\ j \notin below(j)
    BY <1>4, <2>1
  <2>4. below(j) \subseteq below(i)
    BY <2>2
  <2>5. <<below(j), below(i)>> \in StrictSubsetOrdering(B)
    BY <1>0, <2>3, <2>4 DEF StrictSubsetOrdering
  <2> QED  BY <1>2, <1>3, <2>5
<1> QED  BY <1>4

\* A batch is made of the first entities after the cursor: one in front of a member
\* is a member, and there is none only when nothing is left.
LEMMA BatchIsNext ==
    ASSUME present \in [Kinds -> SUBSET Ids], NEW k \in Kinds, NEW after \in Nat
    PROVE  /\ NextIds(k, after) \subseteq present[k] /\ IsFiniteSet(NextIds(k, after))
           /\ NextIds(k, after) \subseteq Nat
           /\ \A i \in NextIds(k, after) : i > after
           /\ \A i \in NextIds(k, after), j \in present[k] :
                 j > after /\ j < i => j \in NextIds(k, after)
           /\ NextIds(k, after) = {} => \A j \in present[k] : j <= after
<1> DEFINE rest == {i \in present[k] : i > after}
           below(i) == {j \in rest : j < i}
<1> USE AnomalyScanAssumption
<1>0. \A i \in present[k] : i \in Nat
  OBVIOUS
<1>1. rest \subseteq Ids /\ Ids \subseteq Nat /\ IsFiniteSet(rest) /\ rest \subseteq Nat
  BY FS_Subset
<1>2. \A i : IsFiniteSet(below(i)) /\ Cardinality(below(i)) \in Nat
  BY <1>1, FS_Subset, FS_CardinalityType
<1>3. NextIds(k, after) = {i \in rest : Cardinality(below(i)) < BatchSize}
  BY DEF NextIds
<1>4. ASSUME NEW i \in NextIds(k, after), NEW j \in present[k], j > after, j < i
      PROVE  j \in NextIds(k, after)
  <2>0. BatchSize \in Nat
    OBVIOUS
  <2>1. below(j) \subseteq below(i)
    BY <1>1, <1>3, <1>4
  <2>2. Cardinality(below(j)) <= Cardinality(below(i))
    BY <1>2, <2>1, FS_Subset
  <2>3. Cardinality(below(i)) < BatchSize /\ j \in rest
    BY <1>3, <1>4
  <2> HIDE DEF below
  <2>4. Cardinality(below(j)) < BatchSize
    BY <1>2, <2>0, <2>2, <2>3
  <2> QED  BY <1>3, <2>3, <2>4
<1>5. ASSUME rest # {} PROVE NextIds(k, after) # {}
  <2>1. PICK i \in rest : \A j \in rest : i <= j
    BY <1>1, <1>5, FiniteHasFirst
  <2>2. below(i) = {}
    BY <1>1, <2>1
  <2>3. Cardinality(below(i)) = 0
    BY <2>2, FS_EmptySet
  <2> QED  BY <1>3, <2>3
<1>6. IsFiniteSet(NextIds(k, after))
  BY <1>1, <1>3, FS_Subset
<1>7. ASSUME NextIds(k, after) = {}, NEW j \in present[k] PROVE j <= after
  <2>1. j \notin rest /\ j \in Nat
    BY <1>0, <1>5, <1>7
  <2> QED  BY <2>1
<1> QED  BY <1>1, <1>3, <1>4, <1>6, <1>7

-----------------------------------------------------------------------------
(* The checkpoint: what a row and a run say of the entities behind them.    *)

\* What the cursor of a scan of this type has passed.
PassedBy(type, c) ==
    {e \in Kinds \X Ids :
        /\ e[1] \in Phases[type]
        /\ \/ e[1] = c.phase /\ (c.done \/ e[2] <= c.after)
           \/ e[1] = "invoice" /\ c.phase = "vendor"}

\* A scan of one kind stays in its phase.
Fits(type, c) == c.phase \in Phases[type] /\ (c.done => type = "FULL")

Inside == {"look", "mark", "batch", "finish"}

\* What a run knows of the entities its scan is for, those in `done' being behind it:
\* `tgt' holds for good, `done' grows.
Knows(x, type, tgt, done) ==
    /\ x.row.type = type /\ Fits(type, x.row.cursor)
    /\ tgt \intersect PassedBy(type, x.row.cursor) \subseteq done
    /\ x.pc \in Inside =>
          /\ x.stage \in Phases[type]
          /\ x.stage = "vendor" => \A e \in tgt : e[1] = "invoice" => e \in done
    /\ x.pc = "mark" => type = "FULL" /\ \A e \in tgt : e[1] = x.stage => e \in done
    /\ x.pc = "batch" =>
          /\ x.batch # {}
          /\ \A e \in tgt : e[1] = x.stage =>
                e \in done \/ e[2] \in x.batch \/ \A i \in x.batch : i < e[2]
    /\ x.pc = "finish" => tgt \subseteq done

\* What a run knows besides as long as no other ran its scan at the same time: the
\* row is as it loaded or left it, and the entities counted lie behind its batch.
KnowsAlone(x, row, done) ==
    /\ x.row.cursor = row.cursor
    /\ x.row.processed = row.processed /\ x.row.errors = row.errors
    /\ x.pc \in Inside /\ x.stage = "vendor" => PhaseOf(row.cursor) = "vendor"
    /\ x.pc = "mark" => \A e \in done : e[1] = x.stage \/ x.stage = "vendor"
    /\ x.pc = "batch" => \A e \in done :
          \/ e[1] = x.stage /\ \A i \in x.batch : e[2] < i
          \/ e[1] = "invoice" /\ x.stage = "vendor"

Done(s) == examined[s] \union failed[s]
Runs(r, s) == Running(r) /\ runner[r].scan = s

\* A row of which nothing is behind the cursor that is not done.
Sound(row, tgt, done) ==
    /\ Fits(row.type, row.cursor)
    /\ tgt \intersect PassedBy(row.type, row.cursor) \subseteq done
    /\ row.status = "COMPLETED" => tgt \subseteq done

\* A row whose counters are those of the entities behind its cursor.
Counted(row, done, bad) ==
    /\ row.processed = Cardinality(done) /\ row.errors = Cardinality(bad)
    /\ done \subseteq PassedBy(row.type, row.cursor)

TargetInv ==
    \A s \in Scans : \A e \in target[s] : e[1] \in Phases[scan[s].type] /\ e[2] \in present[e[1]]

\* A row that is not there yet is nobody's.
AbsentInv ==
    \A s \in Scans : scan[s].status = "ABSENT" =>
        /\ target[s] = {} /\ Done(s) = {}
        /\ \A r \in Runners : ~Runs(r, s)
        /\ \A c \in Cancellers : ~(canceller[c].busy /\ canceller[c].scan = s)

CursorInv == \A s \in Scans : Sound(scan[s], target[s], Done(s))

RunsInv ==
    \A r \in Runners : LET s == runner[r].scan
                       IN  Running(r) => Knows(runner[r], scan[s].type, target[s], Done(s))

CountInv ==
    \A s \in Scans : alone[s] =>
        /\ Counted(scan[s], Done(s), failed[s])
        /\ \A r, q \in Runners : Runs(r, s) /\ Runs(q, s) => r = q
        /\ \A r \in Runners : Runs(r, s) => KnowsAlone(runner[r], scan[s], Done(s))

CheckpointInv ==
    ScanTypeOK /\ TargetInv /\ AbsentInv /\ CursorInv /\ RunsInv /\ CountInv

-----------------------------------------------------------------------------
(* A step of a run, reduced to what it leaves of its row and its tables.    *)

\* A row after a commit has each column from the session that changed it, or as stored.
LEMMA FlushedRow ==
    ASSUME NEW stored \in ScanRow, NEW loaded \in ScanRow, NEW assigned \in ScanRow
    PROVE  /\ Flush(stored, loaded, assigned) \in ScanRow
           /\ \A f \in {"status", "type", "cursor", "processed", "errors"} :
                 Flush(stored, loaded, assigned)[f] =
                    IF assigned[f] = loaded[f] THEN stored[f] ELSE assigned[f]
<1>1. DOMAIN stored = {"status", "type", "cursor", "processed", "errors"}
  BY DEF ScanRow
<1>2. Flush(stored, loaded, assigned) =
        [f \in {"status", "type", "cursor", "processed", "errors"} |->
            IF assigned[f] = loaded[f] THEN stored[f] ELSE assigned[f]]
  BY <1>1 DEF Flush
<1>3. Flush(stored, loaded, assigned) =
        [status |-> IF assigned.status = loaded.status THEN stored.status ELSE assigned.status,
         type |-> IF assigned.type = loaded.type THEN stored.type ELSE assigned.type,
         cursor |-> IF assigned.cursor = loaded.cursor THEN stored.cursor ELSE assigned.cursor,
         processed |-> IF assigned.processed = loaded.processed THEN stored.processed
                       ELSE assigned.processed,
         errors |-> IF assigned.errors = loaded.errors THEN stored.errors ELSE assigned.errors]
  BY <1>2
<1>4. Flush(stored, loaded, assigned) \in ScanRow
  BY <1>3 DEF ScanRow
<1> QED  BY <1>2, <1>4

\* What a run knows stays true as more entities are done.
LEMMA KnowsStill ==
    ASSUME NEW x, NEW type, NEW tgt, NEW done, NEW more,
           Knows(x, type, tgt, done), done \subseteq more
    PROVE  Knows(x, type, tgt, more)
BY DEF Knows

Tidy(x) ==
    /\ x \in RunnerState
    /\ x.left \union x.bad \subseteq x.batch
    /\ x.pc \in {"idle", "resume", "resumed", "start", "fail"} => x.pending = {}

\* A run goes on as `x', or ends, and leaves the row `row' and the entities `ex' and
\* `fl' of its scan.
StepTo(r, x, row, ex, fl) ==
    LET s == runner[r].scan
    IN  /\ Goes(r, x) /\ Tidy(x)
        /\ x.pc # "idle" => /\ x.scan = s
                            /\ Knows(x, scan[s].type, target[s], ex \union fl)
                            /\ alone[s] => KnowsAlone(x, row, ex \union fl)
        /\ row \in ScanRow /\ scan' = [scan EXCEPT ![s] = row]
        /\ row.type = scan[s].type /\ row.status # "ABSENT"
        /\ Sound(row, target[s], ex \union fl)
        /\ alone[s] => Counted(row, ex \union fl, fl)
        /\ ex \subseteq Kinds \X Ids /\ examined' = [examined EXCEPT ![s] = ex]
        /\ fl \subseteq Kinds \X Ids /\ failed' = [failed EXCEPT ![s] = fl]
        /\ Done(s) \subseteq ex \union fl
        /\ signals' \subseteq Fingerprints /\ faults' \in Nat
        /\ present' = present /\ canceller' = canceller /\ target' = target
        /\ alone' = alone /\ calls' = calls

LEMMA RunStepKeeps ==
    ASSUME CheckpointInv, NEW r \in Runners, Running(r), NEW x, NEW row, NEW ex, NEW fl,
           StepTo(r, x, row, ex, fl)
    PROVE  CheckpointInv'
<1> USE DEF CheckpointInv
<1>0. PICK s \in Scans :
      /\ s = runner[r].scan
      /\ runner' = [runner EXCEPT ![r] = x] /\ Tidy(x)
      /\ x.pc # "idle" => /\ x.scan = s
                          /\ Knows(x, scan[s].type, target[s], ex \union fl)
                          /\ alone[s] => KnowsAlone(x, row, ex \union fl)
      /\ row \in ScanRow /\ scan' = [scan EXCEPT ![s] = row]
      /\ row.type = scan[s].type /\ row.status # "ABSENT"
      /\ Sound(row, target[s], ex \union fl)
      /\ alone[s] => Counted(row, ex \union fl, fl)
      /\ ex \subseteq Kinds \X Ids /\ examined' = [examined EXCEPT ![s] = ex]
      /\ fl \subseteq Kinds \X Ids /\ failed' = [failed EXCEPT ![s] = fl]
      /\ Done(s) \subseteq ex \union fl
      /\ signals' \subseteq Fingerprints /\ faults' \in Nat
      /\ present' = present /\ canceller' = canceller /\ target' = target
      /\ alone' = alone /\ calls' = calls
  BY DEF StepTo, Goes, ScanTypeOK, RunnerState
<1>1. /\ runner'[r] = x /\ \A q \in Runners : q # r => runner'[q] = runner[q]
      /\ scan'[s] = row /\ \A t \in Scans : t # s => scan'[t] = scan[t]
      /\ Done(s)' = ex \union fl /\ \A t \in Scans : t # s => Done(t)' = Done(t)
      /\ failed'[s] = fl /\ \A t \in Scans : t # s => failed'[t] = failed[t]
  BY <1>0 DEF ScanTypeOK, Done
<1>2. ScanTypeOK'
  BY <1>0, <1>1 DEF ScanTypeOK, Tidy
<1>3. \A t \in Scans : scan'[t].type = scan[t].type /\ Done(t) \subseteq Done(t)'
  BY <1>0, <1>1
<1>4. TargetInv'
  BY <1>0, <1>3 DEF TargetInv
<1>5. Runs(r, s) /\ scan[s].status # "ABSENT"
  BY <1>0 DEF AbsentInv, Runs
<1>6. \A t \in Scans, q \in Runners : Runs(q, t)' => Runs(q, t)
  BY <1>0, <1>1 DEF Runs, Running
<1>7. AbsentInv'
  <2> SUFFICES ASSUME NEW t \in Scans, scan'[t].status = "ABSENT"
               PROVE  /\ target'[t] = {} /\ Done(t)' = {}
                      /\ \A q \in Runners : ~Runs(q, t)'
                      /\ \A c \in Cancellers : ~(canceller'[c].busy /\ canceller'[c].scan = t)
    BY DEF AbsentInv
  <2>1. t # s /\ scan[t].status = "ABSENT"
    BY <1>0, <1>1
  <2> QED  BY <1>0, <1>1, <1>6, <2>1 DEF AbsentInv
<1>8. CursorInv'
  BY <1>0, <1>1 DEF CursorInv
<1>9. RunsInv'
  <2> SUFFICES ASSUME NEW q \in Runners, Running(q)'
               PROVE  Knows(runner[q], scan[runner[q].scan].type, target[runner[q].scan],
                            Done(runner[q].scan))'
    BY DEF RunsInv
  <2>1. CASE q = r
    <3>1. x.scan = s /\ Knows(x, scan[s].type, target[s], ex \union fl)
      BY <1>0, <1>1, <2>1 DEF Running
    <3>2. /\ runner'[q] = x /\ scan'[s].type = scan[s].type /\ target'[s] = target[s]
          /\ examined'[s] = ex /\ failed'[s] = fl
      BY <1>0, <1>1, <2>1 DEF ScanTypeOK
    <3> QED  BY <3>1, <3>2 DEF Done
  <2>2. CASE q # r
    <3>1. runner'[q] = runner[q] /\ Running(q) /\ runner[q].scan \in Scans
      BY <1>0, <1>1, <2>2 DEF Running, ScanTypeOK, RunnerState
    <3>2. Knows(runner[q], scan[runner[q].scan].type, target[runner[q].scan], Done(runner[q].scan))
      BY <3>1 DEF RunsInv
    <3> DEFINE t == runner[q].scan
    <3>3. Knows(runner[q], scan[t].type, target[t], Done(t)')
      BY <1>0, <1>3, <3>1, <3>2, KnowsStill
    <3> QED  BY <1>0, <1>3, <3>1, <3>3
  <2> QED  BY <2>1, <2>2
<1>10. CountInv'
  <2> SUFFICES ASSUME NEW t \in Scans, alone[t]
               PROVE  /\ Counted(scan'[t], Done(t)', failed'[t])
                      /\ \A p, q \in Runners : Runs(p, t)' /\ Runs(q, t)' => p = q
                      /\ \A q \in Runners : Runs(q, t)' =>
                            KnowsAlone(runner'[q], scan'[t], Done(t)')
    BY <1>0 DEF CountInv
  <2>1. \A p, q \in Runners : Runs(p, t)' /\ Runs(q, t)' => p = q
    BY <1>0, <1>6 DEF CountInv
  <2>2. CASE t = s
    <3>2. ASSUME NEW q \in Runners, Runs(q, t)' PROVE q = r
      BY <1>0, <1>5, <1>6, <2>2, <3>2 DEF CountInv
    <3>0. scan'[t] = row /\ Done(t)' = ex \union fl /\ failed'[t] = fl
      BY <1>1, <2>2 DEF Done
    <3>1. Counted(row, ex \union fl, fl)
      BY <1>0, <2>2
    <3>3. Counted(scan'[t], Done(t)', failed'[t])
      BY <3>0, <3>1
    <3>4. ASSUME NEW q \in Runners, Runs(q, t)'
          PROVE  KnowsAlone(runner'[q], scan'[t], Done(t)')
      <4>1. q = r /\ x.pc # "idle"
        BY <1>1, <3>2, <3>4 DEF Runs, Running
      <4>2. KnowsAlone(x, row, ex \union fl)
        BY <1>0, <2>2, <4>1
      <4> QED  BY <1>1, <3>0, <4>1, <4>2
    <3> QED  BY <2>1, <3>3, <3>4
  <2>3. CASE t # s
    <3>1. ASSUME NEW q \in Runners, Runs(q, t)' PROVE runner'[q] = runner[q] /\ Runs(q, t)
      BY <1>0, <1>1, <1>6, <2>3, <3>1 DEF Runs, Running
    <3> QED  BY <1>0, <1>1, <2>1, <2>3, <3>1 DEF CountInv
  <2> QED  BY <2>2, <2>3
<1> QED  BY <1>2, <1>4, <1>7, <1>8, <1>9, <1>10

\* A step that leaves the tables, and of the row changes the status at most.
StatusStep(r, x, row) ==
    LET s == runner[r].scan
    IN  /\ Goes(r, x) /\ Tidy(x)
        /\ x.pc # "idle" => /\ x.scan = s
                            /\ Knows(x, scan[s].type, target[s], Done(s))
                            /\ alone[s] => KnowsAlone(x, scan[s], Done(s))
        /\ row \in ScanRow /\ scan' = [scan EXCEPT ![s] = row]
        /\ row.type = scan[s].type /\ row.cursor = scan[s].cursor
        /\ row.processed = scan[s].processed /\ row.errors = scan[s].errors
        /\ row.status # "ABSENT"
        /\ row.status = "COMPLETED" => target[s] \subseteq Done(s)
        /\ signals' \subseteq Fingerprints /\ faults' \in Nat
        /\ present' = present /\ canceller' = canceller /\ target' = target
        /\ alone' = alone /\ calls' = calls /\ examined' = examined /\ failed' = failed

LEMMA StatusStepKeeps ==
    ASSUME CheckpointInv, NEW r \in Runners, Running(r), NEW x, NEW row, StatusStep(r, x, row)
    PROVE  CheckpointInv'
<1> DEFINE s == runner[r].scan
           ex == examined[s]
           fl == failed[s]
<1>1. s \in Scans
  BY DEF CheckpointInv, ScanTypeOK, RunnerState
<1>2. /\ ex \subseteq Kinds \X Ids /\ fl \subseteq Kinds \X Ids
      /\ examined' = [examined EXCEPT ![s] = ex] /\ failed' = [failed EXCEPT ![s] = fl]
      /\ Done(s) = ex \union fl
  BY <1>1 DEF CheckpointInv, ScanTypeOK, Done, StatusStep
<1>3. Sound(row, target[s], Done(s))
  BY <1>1 DEF CheckpointInv, CursorInv, Sound, StatusStep
<1>4. alone[s] => Counted(row, Done(s), fl)
  BY <1>1 DEF CheckpointInv, CountInv, Counted, StatusStep
<1>5. alone[s] /\ x.pc # "idle" => KnowsAlone(x, row, Done(s))
  BY DEF KnowsAlone, StatusStep
<1> HIDE DEF ex, fl
<1>6. /\ Sound(row, target[s], ex \union fl)
      /\ alone[s] => Counted(row, ex \union fl, fl)
      /\ x.pc # "idle" => /\ x.scan = s
                          /\ Knows(x, scan[s].type, target[s], ex \union fl)
                          /\ alone[s] => KnowsAlone(x, row, ex \union fl)
  BY <1>2, <1>3, <1>4, <1>5 DEF StatusStep
<1>7. StepTo(r, x, row, ex, fl)
  BY <1>2, <1>6 DEF StepTo, StatusStep
<1> QED  BY <1>7, RunStepKeeps

\* What a run that is on has: a scan, a row, and what it knows.
LEMMA RunKnows ==
    ASSUME CheckpointInv, NEW r \in Runners, Running(r)
    PROVE  LET s == runner[r].scan
           IN  /\ runner[r] \in RunnerState /\ s \in Scans
               /\ runner[r].row \in ScanRow /\ scan[s] \in ScanRow
               /\ scan[s] = [scan[s] EXCEPT !.status = scan[s].status]
               /\ scan = [scan EXCEPT ![s] = scan[s]]
               /\ scan[s].status # "ABSENT"
               /\ Knows(runner[r], scan[s].type, target[s], Done(s))
               /\ alone[s] => KnowsAlone(runner[r], scan[s], Done(s))
               /\ scan[s].status = "COMPLETED" => target[s] \subseteq Done(s)
<1> DEFINE s == runner[r].scan
<1>1. /\ runner[r] \in RunnerState /\ s \in Scans /\ runner[r].row \in ScanRow
      /\ scan[s] \in ScanRow /\ scan = [scan EXCEPT ![s] = scan[s]]
      /\ scan[s] = [scan[s] EXCEPT !.status = scan[s].status]
  BY DEF CheckpointInv, ScanTypeOK, RunnerState, ScanRow
<1>2. scan[s].status # "ABSENT"
  BY <1>1 DEF CheckpointInv, AbsentInv, Runs
<1>3. Knows(runner[r], scan[s].type, target[s], Done(s))
  BY DEF CheckpointInv, RunsInv
<1>4. alone[s] => KnowsAlone(runner[r], scan[s], Done(s))
  BY <1>1 DEF CheckpointInv, CountInv, Runs
<1>5. scan[s].status = "COMPLETED" => target[s] \subseteq Done(s)
  BY <1>1 DEF CheckpointInv, CursorInv, Sound
<1> QED  BY <1>1, <1>2, <1>3, <1>4, <1>5

\* A commit of a status alone.
LEMMA StatusFlush ==
    ASSUME NEW stored \in ScanRow, NEW loaded \in ScanRow,
           NEW status \in Statuses \ {"ABSENT"}, stored.status # "ABSENT"
    PROVE  LET row == Flush(stored, loaded, [loaded EXCEPT !.status = status])
           IN  /\ row \in ScanRow
               /\ row.type = stored.type /\ row.cursor = stored.cursor
               /\ row.processed = stored.processed /\ row.errors = stored.errors
               /\ row.status = IF status = loaded.status THEN stored.status ELSE status
               /\ row.status # "ABSENT"
<1> DEFINE assigned == [loaded EXCEPT !.status = status]
<1>1. /\ assigned \in ScanRow /\ assigned.status = status
      /\ assigned.type = loaded.type /\ assigned.cursor = loaded.cursor
      /\ assigned.processed = loaded.processed /\ assigned.errors = loaded.errors
  BY DEF ScanRow
<1> HIDE DEF assigned
<1>2. /\ Flush(stored, loaded, assigned) \in ScanRow
      /\ \A f \in {"status", "type", "cursor", "processed", "errors"} :
            Flush(stored, loaded, assigned)[f] =
               IF assigned[f] = loaded[f] THEN stored[f] ELSE assigned[f]
  BY <1>1, FlushedRow
<1>3. /\ Flush(stored, loaded, assigned).status =
            IF status = loaded.status THEN stored.status ELSE status
      /\ Flush(stored, loaded, assigned).type = stored.type
      /\ Flush(stored, loaded, assigned).cursor = stored.cursor
      /\ Flush(stored, loaded, assigned).processed = stored.processed
      /\ Flush(stored, loaded, assigned).errors = stored.errors
  BY <1>1, <1>2
<1> QED  BY <1>2, <1>3 DEF assigned

-----------------------------------------------------------------------------
(* The steps of a run, one by one.                                         *)

\* Requests that have just loaded a row, and those that have ended.
LEMMA IdleIsTyped ==
    Tidy(Idle) /\ Idle.pc = "idle"
<1>1. NoScan \in ScanRow /\ AnyScan \in Scans
  BY AnomalyScanAssumption DEF NoScan, ScanRow, Statuses, Phases, Cursor, NoCursor, Kinds, AnyScan
<1> QED  BY <1>1 DEF Idle, Fresh, RunnerState, Kinds, Tidy

Loaded(s, p) == [Fresh(s) EXCEPT !.pc = p, !.row = scan[s]]

LEMMA LoadedKnows ==
    ASSUME CheckpointInv, NEW s \in Scans, NEW p \in {"start", "resume", "fail"},
           scan[s].status # "ABSENT"
    PROVE  /\ Tidy(Loaded(s, p)) /\ Loaded(s, p).scan = s
           /\ Knows(Loaded(s, p), scan[s].type, target[s], Done(s))
           /\ KnowsAlone(Loaded(s, p), scan[s], Done(s))
<1> DEFINE x == Loaded(s, p)
<1>1. scan[s] \in ScanRow
  BY DEF CheckpointInv, ScanTypeOK
<1>2. x \in RunnerState
  BY <1>1 DEF Loaded, Fresh, RunnerState, Kinds
<1>3. /\ x.pc = p /\ x.scan = s /\ x.row = scan[s]
      /\ x.batch = {} /\ x.left = {} /\ x.pending = {} /\ x.bad = {}
  BY DEF Loaded, Fresh
<1> HIDE DEF x
<1>4. Tidy(x)
  BY <1>2, <1>3 DEF Tidy
<1>5. Knows(x, scan[s].type, target[s], Done(s))
  BY <1>3 DEF Knows, CheckpointInv, CursorInv, Sound, Inside
<1>6. KnowsAlone(x, scan[s], Done(s))
  BY <1>3 DEF KnowsAlone, Inside
<1> QED  BY <1>3, <1>4, <1>5, <1>6 DEF x

\* A run returns, having written nothing: it died, or its scan was cancelled.
LEMMA RunEnds ==
    ASSUME CheckpointInv, NEW r \in Runners, Running(r), Goes(r, Idle), faults' \in Nat,
           UNCHANGED <<present, scan, signals, canceller, target, alone, calls, examined, failed>>
    PROVE  CheckpointInv'
<1> DEFINE s == runner[r].scan
<1>1. signals' \subseteq Fingerprints
  BY DEF CheckpointInv, ScanTypeOK
<1>2. /\ scan[s] \in ScanRow /\ scan' = [scan EXCEPT ![s] = scan[s]]
      /\ scan[s].status # "ABSENT"
      /\ scan[s].status = "COMPLETED" => target[s] \subseteq Done(s)
  BY RunKnows
<1>3. StatusStep(r, Idle, scan[s])
  BY <1>1, <1>2, IdleIsTyped DEF StatusStep
<1> QED  BY <1>3, StatusStepKeeps

\* Loading, dying and failing.
LEMMA CheckpointInvRestarts ==
    ASSUME CheckpointInv, NEW r \in Runners,
           RunResumed(r) \/ Deadlocked(r) \/ DatabaseFails(r) \/ Crash(r)
    PROVE  CheckpointInv'
<1> DEFINE s == runner[r].scan
<1>1. Running(r)
  BY DEF RunResumed, Deadlocked, DatabaseFails, Crash, Running, Waits
<1>2. /\ UNCHANGED <<present, scan, signals, canceller, target, alone, calls, examined, failed>>
      /\ faults' \in Nat /\ signals' \subseteq Fingerprints
  BY DEF RunResumed, Deadlocked, DatabaseFails, Crash, CheckpointInv, ScanTypeOK, ghosts
<1>3. \/ Goes(r, Idle)
      \/ \E p \in {"start", "fail"} : Goes(r, Loaded(s, p))
  BY DEF RunResumed, Deadlocked, DatabaseFails, Crash, RolledBack, Loaded
<1>4. CASE Goes(r, Idle)
  BY <1>1, <1>2, <1>4, RunEnds
<1>5. ASSUME NEW p \in {"start", "fail"}, Goes(r, Loaded(s, p))
      PROVE  CheckpointInv'
  <2>1. /\ s \in Scans /\ scan[s] \in ScanRow /\ scan = [scan EXCEPT ![s] = scan[s]]
        /\ scan[s].status # "ABSENT"
        /\ scan[s].status = "COMPLETED" => target[s] \subseteq Done(s)
    BY <1>1, RunKnows
  <2>2. /\ Tidy(Loaded(s, p)) /\ Loaded(s, p).scan = s
        /\ Knows(Loaded(s, p), scan[s].type, target[s], Done(s))
        /\ KnowsAlone(Loaded(s, p), scan[s], Done(s))
    BY <2>1, LoadedKnows
  <2>3. StatusStep(r, Loaded(s, p), scan[s])
    BY <1>2, <1>5, <2>1, <2>2 DEF StatusStep
  <2> QED  BY <1>1, <2>3, StatusStepKeeps
<1> QED  BY <1>3, <1>4, <1>5

\* Commits of a status: a run that resumes or starts, and one that ends.
LEMMA CheckpointInvCommitResume ==
    ASSUME CheckpointInv, NEW r \in Runners, CommitResume(r)
    PROVE  CheckpointInv'
<1> DEFINE s == runner[r].scan
           x == [runner[r] EXCEPT !.pc = "resumed"]
           row == Flush(scan[s], runner[r].row, [runner[r].row EXCEPT !.status = "PENDING"])
<1>1. Running(r) /\ runner[r].pc = "resume"
  BY DEF CommitResume, Running
<1>2. /\ runner[r] \in RunnerState /\ s \in Scans /\ runner[r].row \in ScanRow
      /\ scan[s] \in ScanRow /\ scan[s].status # "ABSENT"
      /\ Knows(runner[r], scan[s].type, target[s], Done(s))
      /\ alone[s] => KnowsAlone(runner[r], scan[s], Done(s))
      /\ scan[s].status = "COMPLETED" => target[s] \subseteq Done(s)
  BY <1>1, RunKnows
<1>3. /\ row \in ScanRow
      /\ row.type = scan[s].type /\ row.cursor = scan[s].cursor
      /\ row.processed = scan[s].processed /\ row.errors = scan[s].errors
      /\ row.status # "ABSENT"
      /\ row.status \in {scan[s].status, "PENDING"}
  BY <1>2, StatusFlush DEF Statuses, Active
<1>4. /\ Tidy(x) /\ x.pc = "resumed" /\ x.scan = s /\ x.row = runner[r].row
  BY <1>1, <1>2 DEF RunnerState, CheckpointInv, ScanTypeOK, Tidy
<1>5. /\ Knows(x, scan[s].type, target[s], Done(s))
      /\ alone[s] => KnowsAlone(x, scan[s], Done(s))
  BY <1>2, <1>4 DEF Knows, KnowsAlone, Inside
<1>6. /\ scan' = [scan EXCEPT ![s] = row] /\ Goes(r, x)
      /\ signals' \subseteq Fingerprints /\ faults' \in Nat
      /\ UNCHANGED <<present, canceller, target, alone, calls, examined, failed>>
  BY DEF CommitResume, Commits, CheckpointInv, ScanTypeOK, ghosts
<1> HIDE DEF x, row
<1>7. StatusStep(r, x, row)
  BY <1>2, <1>3, <1>4, <1>5, <1>6 DEF StatusStep
<1> QED  BY <1>1, <1>7, StatusStepKeeps

LEMMA CheckpointInvStartRun ==
    ASSUME CheckpointInv, NEW r \in Runners, StartRun(r)
    PROVE  CheckpointInv'
<1> DEFINE s == runner[r].scan
           loaded == [runner[r].row EXCEPT !.status = "RUNNING"]
           x == [runner[r] EXCEPT !.pc = "look", !.row = loaded, !.stage = PhaseOf(loaded.cursor)]
           row == Flush(scan[s], runner[r].row, loaded)
<1>1. Running(r) /\ runner[r].pc = "start"
  BY DEF StartRun, Running
<1>2. /\ runner[r] \in RunnerState /\ s \in Scans /\ runner[r].row \in ScanRow
      /\ scan[s] \in ScanRow /\ scan[s].status # "ABSENT"
      /\ Knows(runner[r], scan[s].type, target[s], Done(s))
      /\ alone[s] => KnowsAlone(runner[r], scan[s], Done(s))
      /\ scan[s].status = "COMPLETED" => target[s] \subseteq Done(s)
  BY <1>1, RunKnows
<1>3. /\ row \in ScanRow
      /\ row.type = scan[s].type /\ row.cursor = scan[s].cursor
      /\ row.processed = scan[s].processed /\ row.errors = scan[s].errors
      /\ row.status # "ABSENT"
      /\ row.status \in {scan[s].status, "RUNNING"}
  BY <1>2, StatusFlush DEF Statuses, Active
<1>4. /\ loaded \in ScanRow /\ loaded.type = runner[r].row.type
      /\ loaded.cursor = runner[r].row.cursor /\ loaded.cursor \in Cursor
      /\ loaded.processed = runner[r].row.processed /\ loaded.errors = runner[r].row.errors
  BY <1>2 DEF ScanRow, Statuses, Active
<1>5. PhaseOf(loaded.cursor) \in Kinds
  BY <1>4 DEF PhaseOf, Cursor, Kinds
<1> HIDE DEF loaded
<1>6. /\ Tidy(x) /\ x.pc = "look" /\ x.scan = s /\ x.row = loaded
      /\ x.stage = PhaseOf(loaded.cursor)
  <2>1. runner[r].left \union runner[r].bad \subseteq runner[r].batch
    BY DEF CheckpointInv, ScanTypeOK
  <2> QED  BY <1>2, <1>4, <1>5, <2>1 DEF RunnerState, Tidy
<1>7. Knows(x, scan[s].type, target[s], Done(s))
  <2>1. /\ Fits(scan[s].type, loaded.cursor) /\ loaded.type = scan[s].type
        /\ target[s] \intersect PassedBy(scan[s].type, loaded.cursor) \subseteq Done(s)
    BY <1>2, <1>4 DEF Knows
  <2>2. PhaseOf(loaded.cursor) \in Phases[scan[s].type]
    BY <2>1 DEF PhaseOf, Fits, Phases, Kinds
  <2>3. ASSUME PhaseOf(loaded.cursor) = "vendor", NEW e \in target[s], e[1] = "invoice"
        PROVE  e \in Done(s)
    <3>1. e \in Kinds \X Ids /\ e[1] \in Phases[scan[s].type]
      BY <1>2 DEF CheckpointInv, ScanTypeOK, TargetInv
    <3>2. loaded.cursor.phase = "vendor" \/ (loaded.cursor.done /\ loaded.cursor.phase = "invoice")
      BY <1>4, <2>3 DEF PhaseOf, Cursor, Kinds
    <3>3. e \in PassedBy(scan[s].type, loaded.cursor)
      BY <2>3, <3>1, <3>2 DEF PassedBy
    <3> QED  BY <2>1, <3>3
  <2> QED  BY <1>6, <2>1, <2>2, <2>3 DEF Knows, Inside
<1>8. alone[s] => KnowsAlone(x, scan[s], Done(s))
  BY <1>2, <1>4, <1>6 DEF KnowsAlone, Inside
<1>9. /\ scan' = [scan EXCEPT ![s] = row] /\ Goes(r, x)
      /\ signals' \subseteq Fingerprints /\ faults' \in Nat
      /\ UNCHANGED <<present, canceller, target, alone, calls, examined, failed>>
  BY DEF StartRun, Commits, CheckpointInv, ScanTypeOK, ghosts, loaded
<1> HIDE DEF x, row
<1>10. StatusStep(r, x, row)
  BY <1>2, <1>3, <1>6, <1>7, <1>8, <1>9 DEF StatusStep
<1> QED  BY <1>1, <1>10, StatusStepKeeps

\* A run ends as COMPLETED when it knows that all is done, or as FAILED.
LEMMA CheckpointInvEnds ==
    ASSUME CheckpointInv, NEW r \in Runners, Finish(r) \/ FailRun(r)
    PROVE  CheckpointInv'
<1> DEFINE s == runner[r].scan
<1>1. Running(r)
  BY DEF Finish, FailRun, Running
<1>2. /\ runner[r] \in RunnerState /\ s \in Scans /\ runner[r].row \in ScanRow
      /\ scan[s] \in ScanRow /\ scan[s].status # "ABSENT"
      /\ scan = [scan EXCEPT ![s] = scan[s]]
      /\ Knows(runner[r], scan[s].type, target[s], Done(s))
      /\ scan[s].status = "COMPLETED" => target[s] \subseteq Done(s)
  BY <1>1, RunKnows
<1>3. /\ Goes(r, Idle) /\ signals' \subseteq Fingerprints /\ faults' \in Nat
      /\ UNCHANGED <<present, canceller, target, alone, calls, examined, failed>>
  BY <1>2 DEF Finish, FailRun, CheckpointInv, ScanTypeOK, ghosts, RunnerState
<1>4. ASSUME NEW status \in {"COMPLETED", "FAILED"},
             status = "COMPLETED" => target[s] \subseteq Done(s),
             Commits(r, [runner[r].row EXCEPT !.status = status])
      PROVE  CheckpointInv'
  <2> DEFINE row == Flush(scan[s], runner[r].row, [runner[r].row EXCEPT !.status = status])
  <2>0. status \in Statuses \ {"ABSENT"}
    BY DEF Statuses
  <2>1. /\ row \in ScanRow
        /\ row.type = scan[s].type /\ row.cursor = scan[s].cursor
        /\ row.processed = scan[s].processed /\ row.errors = scan[s].errors
        /\ row.status # "ABSENT"
        /\ row.status \in {scan[s].status, status}
    BY <1>2, <2>0, StatusFlush
  <2>2. scan' = [scan EXCEPT ![s] = row]
    BY <1>4 DEF Commits
  <2> HIDE DEF row
  <2>3. StatusStep(r, Idle, row)
    BY <1>2, <1>3, <1>4, <2>1, <2>2, IdleIsTyped DEF StatusStep
  <2> QED  BY <1>1, <2>3, StatusStepKeeps
<1>5. CASE Finish(r)
  <2>1. target[s] \subseteq Done(s)
    BY <1>2, <1>5 DEF Finish, Knows
  <2>2. CASE runner[r].row.status = "RUNNING"
    BY <1>4, <1>5, <2>1, <2>2 DEF Finish
  <2>3. CASE runner[r].row.status # "RUNNING"
    <3>1. UNCHANGED <<scan, signals>>
      BY <1>5, <2>3 DEF Finish
    <3> QED  BY <1>1, <1>3, <3>1, RunEnds
  <2> QED  BY <2>2, <2>3
<1>6. CASE FailRun(r)
  BY <1>4, <1>6 DEF FailRun
<1> QED  BY <1>5, <1>6

\* One entity more is examined: what the run knows of its batch it still knows.
LEMMA CheckpointInvExamine ==
    ASSUME CheckpointInv, NEW r \in Runners, Examine(r)
    PROVE  CheckpointInv'
<1> DEFINE s == runner[r].scan
<1>1. Running(r) /\ runner[r].pc = "batch"
  BY DEF Examine, Running
<1>2. /\ runner[r] \in RunnerState /\ s \in Scans
      /\ scan[s] \in ScanRow /\ scan[s].status # "ABSENT"
      /\ scan = [scan EXCEPT ![s] = scan[s]]
      /\ Knows(runner[r], scan[s].type, target[s], Done(s))
      /\ alone[s] => KnowsAlone(runner[r], scan[s], Done(s))
      /\ scan[s].status = "COMPLETED" => target[s] \subseteq Done(s)
      /\ runner[r].left \union runner[r].bad \subseteq runner[r].batch
  BY <1>1, RunKnows DEF CheckpointInv, ScanTypeOK
<1>3. /\ signals' \subseteq Fingerprints /\ faults' \in Nat
      /\ scan' = scan
      /\ UNCHANGED <<present, canceller, target, alone, calls, examined, failed>>
  BY DEF Examine, CheckpointInv, ScanTypeOK, ghosts
<1>4. Sound(scan[s], target[s], Done(s))
  BY <1>2 DEF CheckpointInv, CursorInv
<1>5. ASSUME NEW x, Goes(r, x), Tidy(x), x.pc \in {"look", "batch"}, x.scan = s,
             x.row = scan[s], x.stage = runner[r].stage,
             x.pc = "batch" => x.batch = runner[r].batch
      PROVE  CheckpointInv'
  <2>1. Knows(x, scan[s].type, target[s], Done(s))
    BY <1>1, <1>2, <1>4, <1>5 DEF Knows, Sound, Inside
  <2>2. alone[s] => KnowsAlone(x, scan[s], Done(s))
    BY <1>1, <1>2, <1>5 DEF KnowsAlone, Inside
  <2>3. StatusStep(r, x, scan[s])
    BY <1>2, <1>3, <1>5, <2>1, <2>2 DEF StatusStep
  <2> QED  BY <1>1, <2>3, StatusStepKeeps
<1>6. PICK i \in runner[r].left :
          \/ Goes(r, [runner[r] EXCEPT !.pc = "look", !.row = scan[s], !.batch = {}, !.left = {},
                                       !.bad = {}])
          \/ Goes(r, [runner[r] EXCEPT !.row = scan[s], !.left = @ \ {i},
                                       !.pending = @ \union New(r, i)])
          \/ Goes(r, [runner[r] EXCEPT !.row = scan[s], !.left = @ \ {i}, !.bad = @ \union {i}])
  BY DEF Examine
<1>7. CASE Goes(r, [runner[r] EXCEPT !.pc = "look", !.row = scan[s], !.batch = {}, !.left = {},
                                     !.bad = {}])
  <2> DEFINE x == [runner[r] EXCEPT !.pc = "look", !.row = scan[s], !.batch = {}, !.left = {},
                                    !.bad = {}]
  <2>1. /\ x \in RunnerState /\ x.pc = "look" /\ x.scan = s /\ x.row = scan[s]
        /\ x.stage = runner[r].stage /\ x.batch = {} /\ x.left = {} /\ x.bad = {}
    BY <1>2 DEF RunnerState
  <2>2. Goes(r, x)
    BY <1>7
  <2> HIDE DEF x
  <2>3. Tidy(x)
    BY <2>1 DEF Tidy
  <2> QED  BY <1>5, <2>1, <2>2, <2>3
<1>8. CASE Goes(r, [runner[r] EXCEPT !.row = scan[s], !.left = @ \ {i},
                                     !.pending = @ \union New(r, i)])
  <2> DEFINE x == [runner[r] EXCEPT !.row = scan[s], !.left = @ \ {i},
                                    !.pending = @ \union New(r, i)]
  <2>1. New(r, i) \subseteq Fingerprints
    BY <1>2 DEF New, Fingerprints, RunnerState
  <2>2. /\ x \in RunnerState /\ x.pc = "batch" /\ x.scan = s /\ x.row = scan[s]
        /\ x.stage = runner[r].stage /\ x.batch = runner[r].batch
        /\ x.left \subseteq runner[r].left /\ x.bad = runner[r].bad
    BY <1>1, <1>2, <2>1 DEF RunnerState
  <2>3. Goes(r, x)
    BY <1>8
  <2> HIDE DEF x
  <2>4. Tidy(x)
    BY <1>2, <2>2 DEF Tidy
  <2> QED  BY <1>5, <2>2, <2>3, <2>4
<1>9. CASE Goes(r, [runner[r] EXCEPT !.row = scan[s], !.left = @ \ {i}, !.bad = @ \union {i}])
  <2> DEFINE x == [runner[r] EXCEPT !.row = scan[s], !.left = @ \ {i}, !.bad = @ \union {i}]
  <2>1. /\ x \in RunnerState /\ x.pc = "batch" /\ x.scan = s /\ x.row = scan[s]
        /\ x.stage = runner[r].stage /\ x.batch = runner[r].batch
        /\ x.left \subseteq runner[r].left /\ x.bad = runner[r].bad \union {i}
    BY <1>1, <1>2 DEF RunnerState
  <2>2. Goes(r, x)
    BY <1>9
  <2> HIDE DEF x
  <2>3. Tidy(x)
    BY <1>2, <2>1 DEF Tidy
  <2> QED  BY <1>5, <2>1, <2>2, <2>3
<1> QED  BY <1>6, <1>7, <1>8, <1>9

\* A set of pairs with one first member has as many as there are second members.
LEMMA PairsCount ==
    ASSUME NEW k, NEW B, IsFiniteSet(B)
    PROVE  /\ IsFiniteSet({<<k, i>> : i \in B})
           /\ Cardinality({<<k, i>> : i \in B}) = Cardinality(B)
<1> DEFINE P == {<<k, i>> : i \in B}
           f == [i \in B |-> <<k, i>>]
<1>1. f \in [B -> P]
  OBVIOUS
<1>2. \A a, b \in B : f[a] = f[b] => a = b
  OBVIOUS
<1>3. \A p \in P : \E i \in B : f[i] = p
  OBVIOUS
<1> HIDE DEF f, P
<1>4. f \in Bijection(B, P)
  BY <1>1, <1>2, <1>3, Fun_IsBij
<1>5. ExistsBijection(B, P)
  BY <1>4 DEF ExistsBijection
<1> QED  BY <1>5, FS_Bijection DEF P

\* Counting disjoint sets.
LEMMA DisjointCount ==
    ASSUME NEW S, NEW T, IsFiniteSet(S), IsFiniteSet(T), S \intersect T = {}
    PROVE  Cardinality(S \union T) = Cardinality(S) + Cardinality(T)
<1>1. Cardinality(S) \in Nat /\ Cardinality(T) \in Nat /\ Cardinality(S \intersect T) = 0
  BY FS_CardinalityType, FS_EmptySet
<1>2. Cardinality(S \union T) = Cardinality(S) + Cardinality(T) - Cardinality(S \intersect T)
  BY FS_Union
<1> QED  BY <1>1, <1>2

\* A phase is marked as done by a run that found nothing more in it.
LEMMA CheckpointInvMark ==
    ASSUME CheckpointInv, NEW r \in Runners, MarkPhaseDone(r)
    PROVE  CheckpointInv'
<1> DEFINE s == runner[r].scan
           k == runner[r].stage
           mark == [phase |-> k, after |-> 0, done |-> TRUE]
           old == runner[r].row
           new == [runner[r].row EXCEPT !.cursor = mark]
           x == [runner[r] EXCEPT !.row = new, !.pending = {}, !.stage = "vendor",
                                  !.pc = IF k = "vendor" THEN "finish" ELSE "look"]
           row == Flush(scan[s], old, new)
           ex == examined[s]
           fl == failed[s]
<1>1. Running(r) /\ runner[r].pc = "mark"
  BY DEF MarkPhaseDone, Running
<1>2. /\ runner[r] \in RunnerState /\ s \in Scans /\ old \in ScanRow
      /\ scan[s] \in ScanRow /\ scan[s].status # "ABSENT"
      /\ Knows(runner[r], scan[s].type, target[s], Done(s))
      /\ alone[s] => KnowsAlone(runner[r], scan[s], Done(s))
      /\ scan[s].status = "COMPLETED" => target[s] \subseteq Done(s)
  BY <1>1, RunKnows
<1>3. /\ runner[r].left \union runner[r].bad \subseteq runner[r].batch
      /\ ex \subseteq Kinds \X Ids /\ fl \subseteq Kinds \X Ids
      /\ examined' = [examined EXCEPT ![s] = ex] /\ failed' = [failed EXCEPT ![s] = fl]
      /\ Done(s) = ex \union fl
      /\ runner[r].pending \subseteq Fingerprints
  BY <1>2 DEF CheckpointInv, ScanTypeOK, MarkPhaseDone, Done, RunnerState
<1>4. /\ k \in Kinds /\ mark \in Cursor /\ new \in ScanRow
      /\ mark.phase = k /\ mark.done = TRUE
      /\ new.cursor = mark /\ new.type = old.type /\ new.status = old.status
      /\ new.processed = old.processed /\ new.errors = old.errors
  BY <1>2 DEF RunnerState, Cursor, ScanRow
<1> HIDE DEF new, mark, old
<1>5. /\ row \in ScanRow /\ row.type = scan[s].type /\ row.status = scan[s].status
      /\ row.processed = scan[s].processed /\ row.errors = scan[s].errors
      /\ row.cursor = IF mark = old.cursor THEN scan[s].cursor ELSE mark
  BY <1>2, <1>4, FlushedRow
<1> HIDE DEF row
<1>6. Tidy(x)
  BY <1>2, <1>3, <1>4 DEF RunnerState, Tidy, Kinds
<1>7. /\ x.pc \in {"look", "finish"}
      /\ x.pc = "finish" => k = "vendor"
      /\ x.scan = s /\ x.row = new /\ x.stage = "vendor"
  BY <1>2 DEF RunnerState
<1> HIDE DEF x
\* All of the phase is done, and the phase before it.
<1>8. /\ scan[s].type = "FULL" /\ old.type = "FULL"
      /\ \A e \in target[s] : e[1] = k => e \in Done(s)
      /\ k = "vendor" => \A e \in target[s] : e[1] = "invoice" => e \in Done(s)
  BY <1>1, <1>2 DEF Knows, Inside, old
<1>9. target[s] \intersect PassedBy("FULL", mark) \subseteq Done(s)
  BY <1>4, <1>8 DEF PassedBy
<1>10. Fits("FULL", mark)
  BY <1>4 DEF Fits, Phases, Kinds
<1>11. \A e \in target[s] : e[1] = "invoice" => e \in Done(s)
  BY <1>4, <1>8 DEF Kinds
<1>12. k = "vendor" => target[s] \subseteq Done(s)
  <2>1. \A e \in target[s] : e[1] \in Kinds
    BY <1>2 DEF CheckpointInv, ScanTypeOK
  <2> QED  BY <1>8, <2>1 DEF Kinds
<1>13. Knows(x, scan[s].type, target[s], Done(s))
  <2>1. x.pc # "mark" /\ x.pc # "batch"
    BY <1>7
  <2> QED  BY <1>4, <1>7, <1>8, <1>9, <1>10, <1>11, <1>12, <2>1 DEF Knows, Inside, Phases, Kinds
<1>14. Sound(row, target[s], Done(s))
  <2>1. Sound(scan[s], target[s], Done(s))
    BY <1>2 DEF CheckpointInv, CursorInv
  <2> QED  BY <1>5, <1>8, <1>9, <1>10, <2>1 DEF Sound
<1>15. ASSUME alone[s] PROVE Counted(row, Done(s), fl) /\ KnowsAlone(x, row, Done(s))
  <2>1. Counted(scan[s], Done(s), fl) /\ KnowsAlone(runner[r], scan[s], Done(s))
    BY <1>2, <1>15 DEF CheckpointInv, CountInv
  <2>2. /\ row.cursor = mark
        /\ row.processed = old.processed /\ row.errors = old.errors
    BY <1>5, <2>1 DEF KnowsAlone, old
  <2>3. ASSUME NEW e \in Done(s) PROVE e \in PassedBy("FULL", mark)
    <3>1. e \in Kinds \X Ids /\ (e[1] = k \/ k = "vendor")
      BY <1>1, <1>3, <2>1 DEF KnowsAlone
    <3> QED  BY <1>4, <3>1 DEF PassedBy, Kinds, Phases
  <2>4. Counted(row, Done(s), fl)
    BY <1>5, <1>8, <2>1, <2>2, <2>3 DEF Counted
  <2>5. PhaseOf(row.cursor) = "vendor"
    BY <1>4, <2>2 DEF PhaseOf
  <2>6. KnowsAlone(x, row, Done(s))
    BY <1>4, <1>7, <2>2, <2>5 DEF KnowsAlone
  <2> QED  BY <2>4, <2>6
<1>16. /\ Goes(r, x) /\ scan' = [scan EXCEPT ![s] = row]
       /\ signals' \subseteq Fingerprints /\ faults' \in Nat
       /\ present' = present /\ canceller' = canceller /\ target' = target
       /\ alone' = alone /\ calls' = calls
  BY <1>3 DEF MarkPhaseDone, Commits, CheckpointInv, ScanTypeOK, ghosts, x, row, new, mark, old
<1> HIDE DEF ex, fl
<1>17. StepTo(r, x, row, ex, fl)
  BY <1>2, <1>3, <1>5, <1>6, <1>7, <1>13, <1>14, <1>15, <1>16 DEF StepTo
<1> QED  BY <1>1, <1>17, RunStepKeeps

\* A batch is counted: its entities lie behind the cursor it leaves, and all that lies
\* behind that was done before or is in the batch.
LEMMA CheckpointInvCommitBatch ==
    ASSUME CheckpointInv, NEW r \in Runners, CommitBatch(r)
    PROVE  CheckpointInv'
<1> DEFINE s == runner[r].scan
           k == runner[r].stage
           b == runner[r].batch
           bad == runner[r].bad
           old == runner[r].row
           last == CHOOSE i \in b : \A j \in b : j <= i
           point == [phase |-> k, after |-> last, done |-> FALSE]
           new == Advanced(r)
           x == [runner[r] EXCEPT !.pc = "look", !.row = new, !.batch = {}, !.pending = {},
                                  !.bad = {}]
           row == Flush(scan[s], old, new)
           ex == examined[s] \union {<<k, i>> : i \in b \ bad}
           fl == failed[s] \union {<<k, i>> : i \in bad}
           counted == {<<k, i>> : i \in b}
<1>1. Running(r) /\ runner[r].pc = "batch" /\ runner[r].left = {}
  BY DEF CommitBatch, Running
<1>2. /\ runner[r] \in RunnerState /\ s \in Scans /\ old \in ScanRow
      /\ scan[s] \in ScanRow /\ scan[s].status # "ABSENT"
      /\ Knows(runner[r], scan[s].type, target[s], Done(s))
      /\ alone[s] => KnowsAlone(runner[r], scan[s], Done(s))
      /\ scan[s].status = "COMPLETED" => target[s] \subseteq Done(s)
  BY <1>1, RunKnows
<1>3. /\ k \in Kinds /\ b \subseteq Ids /\ bad \subseteq b /\ b # {}
      /\ runner[r].pending \subseteq Fingerprints
  BY <1>1, <1>2 DEF RunnerState, Knows, CheckpointInv, ScanTypeOK
<1>4. /\ IsFiniteSet(b) /\ IsFiniteSet(bad) /\ b \subseteq Nat \ {0}
      /\ Cardinality(b) \in Nat \ {0} /\ Cardinality(bad) \in Nat
  <2>1. IsFiniteSet(b) /\ b \subseteq Nat \ {0}
    BY <1>3, FS_Subset, AnomalyScanAssumption
  <2>2. IsFiniteSet(bad)
    BY <1>3, <2>1, FS_Subset
  <2>3. Cardinality(b) \in Nat /\ Cardinality(bad) \in Nat
    BY <2>1, <2>2, FS_CardinalityType
  <2>4. Cardinality(b) # 0
    BY <1>3, <2>1, FS_EmptySet
  <2> QED  BY <2>1, <2>2, <2>3, <2>4
<1>5. last \in b /\ \A j \in b : j <= last
  <2>1. \E i \in b : \A j \in b : j <= i
    BY <1>3, <1>4, FiniteHasLast
  <2> QED  BY <2>1
<1>6. /\ new \in ScanRow /\ new.cursor = point /\ point \in Cursor
      /\ new.type = old.type /\ new.status = old.status
      /\ new.processed = old.processed + Cardinality(b)
      /\ new.errors = old.errors + Cardinality(bad)
  <2>1. last \in Nat
    BY <1>4, <1>5
  <2>2. point \in Cursor
    BY <1>3, <2>1 DEF Cursor
  <2>3. old.processed \in Nat /\ old.errors \in Nat
    BY <1>2 DEF ScanRow
  <2>4. new = [old EXCEPT !.cursor = point, !.processed = @ + Cardinality(b),
                          !.errors = @ + Cardinality(bad)]
    BY DEF Advanced
  <2> HIDE DEF point, new, old
  <2>5. new \in ScanRow
    <3>1. /\ old.processed + Cardinality(b) \in Nat
          /\ old.errors + Cardinality(bad) \in Nat
      BY <1>4, <2>3
    <3> QED  BY <1>2, <2>2, <2>4, <3>1 DEF ScanRow
  <2>6. /\ new.cursor = point /\ new.type = old.type /\ new.status = old.status
        /\ new.processed = old.processed + Cardinality(b)
        /\ new.errors = old.errors + Cardinality(bad)
    BY <1>2, <2>4 DEF ScanRow
  <2> QED  BY <2>2, <2>5, <2>6
<1>7. point.phase = k /\ point.after = last /\ point.done = FALSE
  OBVIOUS
<1> HIDE DEF new, point, old, last
<1>8. /\ row \in ScanRow /\ row.type = scan[s].type /\ row.status = scan[s].status
      /\ row.processed = IF new.processed = old.processed THEN scan[s].processed
                         ELSE new.processed
      /\ row.errors = IF new.errors = old.errors THEN scan[s].errors ELSE new.errors
      /\ row.cursor = IF point = old.cursor THEN scan[s].cursor ELSE point
  BY <1>2, <1>6, FlushedRow
<1> HIDE DEF row
<1>9. /\ x \in RunnerState
      /\ x.pc = "look" /\ x.scan = s /\ x.row = new /\ x.stage = k
      /\ x.batch = {} /\ x.left = {} /\ x.bad = {}
  BY <1>1, <1>2, <1>6 DEF RunnerState
<1> HIDE DEF x
<1>10. Tidy(x)
  BY <1>9 DEF Tidy
<1>11. ex \union fl = Done(s) \union counted
  BY <1>3 DEF Done
<1>12. /\ ex \subseteq Kinds \X Ids /\ fl \subseteq Kinds \X Ids
       /\ Done(s) \subseteq Kinds \X Ids
  BY <1>2, <1>3 DEF CheckpointInv, ScanTypeOK, Done
<1>13. /\ Goes(r, x) /\ scan' = [scan EXCEPT ![s] = row]
       /\ examined' = [examined EXCEPT ![s] = ex] /\ failed' = [failed EXCEPT ![s] = fl]
       /\ signals' \subseteq Fingerprints /\ faults' \in Nat
       /\ present' = present /\ canceller' = canceller /\ target' = target
       /\ alone' = alone /\ calls' = calls
  BY <1>3 DEF CommitBatch, Commits, CheckpointInv, ScanTypeOK, ghosts, x, row, new, old
<1> HIDE DEF ex, fl
\* What the run knew of its batch.
<1>14. /\ old.type = scan[s].type /\ k \in Phases[scan[s].type]
       /\ k = "vendor" => \A e \in target[s] : e[1] = "invoice" => e \in Done(s)
       /\ \A e \in target[s] : e[1] = k =>
             e \in Done(s) \/ e[2] \in b \/ \A i \in b : i < e[2]
  BY <1>1, <1>2 DEF Knows, Inside, old
<1>15. target[s] \intersect PassedBy(scan[s].type, point) \subseteq Done(s) \union counted
  <2> SUFFICES ASSUME NEW e \in target[s], e \in PassedBy(scan[s].type, point), e \notin Done(s)
               PROVE  e \in counted
    OBVIOUS
  <2>1. /\ e \in Kinds \X Ids
        /\ (e[1] = k /\ e[2] <= last) \/ (e[1] = "invoice" /\ k = "vendor")
    BY <1>7 DEF PassedBy
  <2>2. e[1] = k /\ e[2] <= last
    BY <1>14, <2>1
  <2>3. e[2] \in b
    <3>1. ~(last < e[2])
      <4>1. e[2] \in Nat /\ last \in Nat
        BY <1>4, <1>5, <2>1, AnomalyScanAssumption
      <4> QED  BY <2>2, <4>1
    <3> QED  BY <1>5, <1>14, <2>2, <3>1
  <2>4. e = <<k, e[2]>>
    BY <2>1, <2>2
  <2> QED  BY <2>3, <2>4
<1>16. Fits(scan[s].type, point)
  BY <1>7, <1>14 DEF Fits
<1>17. Knows(x, scan[s].type, target[s], ex \union fl)
  BY <1>6, <1>9, <1>11, <1>14, <1>15, <1>16 DEF Knows, Inside
<1>18. Sound(row, target[s], ex \union fl)
  <2>1. Sound(scan[s], target[s], Done(s))
    BY <1>2 DEF CheckpointInv, CursorInv
  <2> QED  BY <1>8, <1>11, <1>15, <1>16, <2>1 DEF Sound
<1>19. ASSUME alone[s] PROVE Counted(row, ex \union fl, fl) /\ KnowsAlone(x, row, ex \union fl)
  <2>1. Counted(scan[s], Done(s), failed[s]) /\ KnowsAlone(runner[r], scan[s], Done(s))
    BY <1>2, <1>19 DEF CheckpointInv, CountInv
  <2>2. /\ old.cursor = scan[s].cursor
        /\ old.processed = scan[s].processed /\ old.errors = scan[s].errors
    BY <2>1 DEF KnowsAlone, old
  <2>3. /\ scan[s].processed \in Nat /\ scan[s].errors \in Nat
    BY <1>2 DEF ScanRow
  <2>4. /\ row.cursor = point
        /\ row.processed = scan[s].processed + Cardinality(b) /\ row.processed = new.processed
        /\ row.errors = scan[s].errors + Cardinality(bad) /\ row.errors = new.errors
    BY <1>4, <1>6, <1>8, <2>2, <2>3
  <2>5. \A e \in Done(s) : \/ e[1] = k /\ \A i \in b : e[2] < i
                           \/ e[1] = "invoice" /\ k = "vendor"
    BY <1>1, <2>1 DEF KnowsAlone
  <2>6. Done(s) \intersect counted = {}
    <3> SUFFICES ASSUME NEW i \in b, <<k, i>> \in Done(s) PROVE FALSE
      OBVIOUS
    <3>1. i < i \/ (k = "invoice" /\ k = "vendor")
      BY <2>5
    <3>2. i \in Nat
      BY <1>4
    <3> QED  BY <3>1, <3>2
  <2>7. IsFiniteSet(Kinds \X Ids)
    <3>1. IsFiniteSet({"invoice"}) /\ Kinds = {"invoice"} \union {"vendor"}
      BY FS_Singleton DEF Kinds
    <3>2. IsFiniteSet(Kinds)
      BY <3>1, FS_AddElement
    <3> QED  BY <3>2, FS_Product, AnomalyScanAssumption
  <2>8. IsFiniteSet(Done(s)) /\ IsFiniteSet(failed[s])
    BY <1>2, <1>12, <2>7, FS_Subset DEF CheckpointInv, ScanTypeOK
  <2>9. Cardinality(Done(s) \union counted) = Cardinality(Done(s)) + Cardinality(b)
    <3>1. IsFiniteSet(counted) /\ Cardinality(counted) = Cardinality(b)
      BY <1>4, PairsCount
    <3> QED  BY <2>6, <2>8, <3>1, DisjointCount
  <2>10. fl = failed[s] \union {<<k, i>> : i \in bad}
    BY DEF fl
  <2>11. failed[s] \intersect {<<k, i>> : i \in bad} = {}
    BY <1>3, <2>6 DEF Done
  <2>12. Cardinality(fl) = Cardinality(failed[s]) + Cardinality(bad)
    <3>1. /\ IsFiniteSet({<<k, i>> : i \in bad})
          /\ Cardinality({<<k, i>> : i \in bad}) = Cardinality(bad)
      BY <1>4, PairsCount
    <3> QED  BY <2>8, <2>10, <2>11, <3>1, DisjointCount
  <2>13. ASSUME NEW e \in Done(s) \union counted PROVE e \in PassedBy(scan[s].type, point)
    <3>1. CASE e \in Done(s)
      <4>1. e \in Kinds \X Ids /\ e[1] \in Phases[scan[s].type]
        BY <1>12, <2>1, <3>1 DEF Counted, PassedBy
      <4>2. (e[1] = k /\ e[2] < last) \/ (e[1] = "invoice" /\ k = "vendor")
        BY <1>5, <2>5, <3>1
      <4>3. e[2] \in Nat /\ last \in Nat
        BY <1>4, <1>5, <4>1, AnomalyScanAssumption
      <4>4. (e[1] = k /\ e[2] <= last) \/ (e[1] = "invoice" /\ k = "vendor")
        BY <4>2, <4>3
      <4> QED  BY <1>7, <4>1, <4>4 DEF PassedBy
    <3>2. CASE e \in counted
      <4>1. PICK i \in b : e = <<k, i>>
        BY <3>2
      <4>2. e \in Kinds \X Ids /\ e[1] = k /\ e[2] <= last
        BY <1>3, <1>5, <4>1
      <4> QED  BY <1>7, <1>14, <4>2 DEF PassedBy
    <3> QED  BY <3>1, <3>2
  <2>14. Counted(row, ex \union fl, fl)
    BY <1>8, <1>11, <2>1, <2>4, <2>9, <2>12, <2>13 DEF Counted
  <2>15. KnowsAlone(x, row, ex \union fl)
    BY <1>6, <1>7, <1>9, <2>4 DEF KnowsAlone, PhaseOf
  <2> QED  BY <2>14, <2>15
<1>20. StepTo(r, x, row, ex, fl)
  <2>1. Done(s) \subseteq ex \union fl
    BY <1>11
  <2> QED  BY <1>2, <1>8, <1>9, <1>10, <1>12, <1>13, <1>17, <1>18, <1>19, <2>1 DEF StepTo
<1> QED  BY <1>1, <1>20, RunStepKeeps

\* At the head of the loops a run learns where its scan stands: from the cursor it
\* finds, and from the entities after it.
LEMMA CheckpointInvLook ==
    ASSUME CheckpointInv, NEW r \in Runners, Look(r)
    PROVE  CheckpointInv'
<1> DEFINE s == runner[r].scan
           row == scan[s]
           c == row.cursor
           full == row.type = "FULL"
           stage == IF full THEN runner[r].stage ELSE c.phase
           ids == NextIds(stage, AfterIn(stage, c))
           to(pc) == [runner[r] EXCEPT !.pc = pc, !.row = row]
           turn == [to("look") EXCEPT !.stage = "vendor"]
           fetch == [to("batch") EXCEPT !.batch = ids, !.left = ids, !.bad = {}]
<1>1. Running(r) /\ runner[r].pc = "look"
  BY DEF Look, Running
<1>2. /\ runner[r] \in RunnerState /\ s \in Scans
      /\ row \in ScanRow /\ row.status # "ABSENT"
      /\ scan = [scan EXCEPT ![s] = row]
      /\ Knows(runner[r], row.type, target[s], Done(s))
      /\ alone[s] => KnowsAlone(runner[r], row, Done(s))
      /\ row.status = "COMPLETED" => target[s] \subseteq Done(s)
      /\ runner[r].left \union runner[r].bad \subseteq runner[r].batch
  BY <1>1, RunKnows DEF CheckpointInv, ScanTypeOK
<1>3. /\ scan' = [scan EXCEPT ![s] = row]
      /\ signals' \subseteq Fingerprints /\ faults' \in Nat
      /\ UNCHANGED <<present, scan, signals, canceller, target, alone, calls, examined, failed>>
  BY <1>2 DEF Look, CheckpointInv, ScanTypeOK, ghosts
<1>4. Sound(row, target[s], Done(s))
  BY <1>2 DEF CheckpointInv, CursorInv
<1>5. /\ runner[r].stage \in Kinds /\ runner[r].stage \in Phases[row.type]
      /\ runner[r].stage = "vendor" => \A e \in target[s] : e[1] = "invoice" => e \in Done(s)
      /\ c \in Cursor /\ c.phase \in Kinds /\ c.after \in Nat /\ c.done \in BOOLEAN
      /\ c.phase \in Phases[row.type] /\ (c.done => full)
      /\ row.type \in DOMAIN Phases
  BY <1>1, <1>2, <1>4 DEF Knows, Inside, RunnerState, ScanRow, Cursor, Sound, Fits
<1>6. \A e \in target[s] :
          /\ e \in Kinds \X Ids /\ e[1] \in Phases[row.type] /\ e[2] \in present[e[1]]
          /\ e[2] \in Nat
  <2>1. target[s] \subseteq Kinds \X Ids
    BY <1>2 DEF CheckpointInv, ScanTypeOK
  <2>2. \A e \in target[s] : e[1] \in Phases[row.type] /\ e[2] \in present[e[1]]
    BY <1>2 DEF CheckpointInv, TargetInv
  <2>3. \A e \in Kinds \X Ids : e[2] \in Nat
    BY AnomalyScanAssumption
  <2> QED  BY <2>1, <2>2, <2>3
<1>7. alone[s] => \A e \in Done(s) : e \in PassedBy(row.type, c)
  BY <1>2 DEF CheckpointInv, CountInv, Counted
\* A scan of one kind: the loop it is in is the phase of its cursor.
<1>8. /\ ~full => stage = c.phase /\ runner[r].stage = c.phase /\ ~c.done
      /\ ~full => \A e \in target[s] : e[1] = stage
      /\ stage = runner[r].stage /\ stage \in Kinds
  BY <1>5, <1>6 DEF Phases, Kinds
<1>9. ASSUME NEW x, Goes(r, x), Tidy(x), x.pc \in {"look", "mark", "batch", "finish"},
             x.scan = s, x.row = row,
             \/ x.stage = runner[r].stage
             \/ stage # PhaseOf(c) /\ stage = "invoice" /\ x.stage = "vendor",
             x.pc = "mark" => full /\ \A e \in target[s] : e[1] = x.stage => e \in Done(s),
             x.pc = "batch" =>
                 /\ x.batch # {}
                 /\ \A e \in target[s] : e[1] = x.stage =>
                       e \in Done(s) \/ e[2] \in x.batch \/ \A i \in x.batch : i < e[2],
             x.pc = "finish" => target[s] \subseteq Done(s),
             alone[s] /\ x.pc = "mark" => \A e \in Done(s) : e[1] = x.stage \/ x.stage = "vendor",
             alone[s] /\ x.pc = "batch" => \A e \in Done(s) :
                 \/ e[1] = x.stage /\ \A i \in x.batch : e[2] < i
                 \/ e[1] = "invoice" /\ x.stage = "vendor"
      PROVE  CheckpointInv'
  <2>1. ASSUME x.stage # runner[r].stage
        PROVE  /\ full /\ x.stage = "vendor" /\ PhaseOf(c) = "vendor"
               /\ \A e \in target[s] : e[1] = "invoice" => e \in Done(s)
    <3>1. full /\ x.stage = "vendor" /\ PhaseOf(c) = "vendor"
      BY <1>5, <1>8, <1>9, <2>1 DEF PhaseOf, Kinds
    <3>2. ASSUME NEW e \in target[s], e[1] = "invoice" PROVE e \in Done(s)
      <4>1. c.phase = "vendor" \/ (c.done /\ c.phase = "invoice")
        BY <1>5, <3>1 DEF PhaseOf, Kinds
      <4>2. e \in PassedBy(row.type, c)
        BY <1>6, <3>2, <4>1 DEF PassedBy
      <4> QED  BY <1>4, <4>2 DEF Sound
    <3> QED  BY <3>1, <3>2
  <2>2. Knows(x, row.type, target[s], Done(s))
    <3>1. /\ x.stage \in Phases[row.type]
          /\ x.stage = "vendor" => \A e \in target[s] : e[1] = "invoice" => e \in Done(s)
      BY <1>5, <2>1 DEF Phases, Kinds
    <3> QED  BY <1>4, <1>9, <3>1 DEF Knows, Sound
  <2>3. alone[s] => KnowsAlone(x, row, Done(s))
    <3>1. ASSUME alone[s], x.stage = "vendor" PROVE PhaseOf(c) = "vendor"
      BY <1>1, <1>2, <2>1, <3>1 DEF KnowsAlone, Inside
    <3> QED  BY <1>9, <3>1 DEF KnowsAlone
  <2>4. StatusStep(r, x, row)
    BY <1>2, <1>3, <1>9, <2>2, <2>3 DEF StatusStep
  <2> QED  BY <1>1, <2>4, StatusStepKeeps
<1>10. /\ \A pc \in {"look", "mark", "finish"} :
            /\ to(pc).pc = pc /\ to(pc).scan = s /\ to(pc).row = row
            /\ to(pc).stage = runner[r].stage /\ Tidy(to(pc))
       /\ turn.pc = "look" /\ turn.scan = s /\ turn.row = row /\ turn.stage = "vendor"
       /\ Tidy(turn)
  BY <1>1, <1>2, <1>5 DEF RunnerState, Tidy, Kinds
<1>11. present \in [Kinds -> SUBSET Ids] /\ AfterIn(stage, c) \in Nat
  BY <1>2, <1>5 DEF CheckpointInv, ScanTypeOK, AfterIn, AfterOf
<1>12. /\ ids \subseteq Ids /\ ids \subseteq Nat
       /\ \A i \in ids : i > AfterIn(stage, c)
       /\ \A i \in ids, j \in present[stage] : j > AfterIn(stage, c) /\ j < i => j \in ids
       /\ ids = {} => \A j \in present[stage] : j <= AfterIn(stage, c)
  <2>1. present[stage] \subseteq Ids
    BY <1>8, <1>11
  <2>2. ids = NextIds(stage, AfterIn(stage, c))
    OBVIOUS
  <2> HIDE DEF ids, stage, c
  <2> QED  BY <1>8, <1>11, <2>1, <2>2, BatchIsNext
<1>13. /\ fetch.pc = "batch" /\ fetch.scan = s /\ fetch.row = row
       /\ fetch.stage = runner[r].stage /\ fetch.batch = ids /\ Tidy(fetch)
  BY <1>1, <1>2, <1>12 DEF RunnerState, Tidy
\* What the cursor says of an entity of this loop's kind.
<1>14. ASSUME ~(stage # PhaseOf(c) /\ stage = "invoice"), NEW e \in target[s], e[1] = stage,
              e[2] <= AfterIn(stage, c)
       PROVE  e \in Done(s)
  <2>1. e[2] > 0 /\ e[2] \in Nat
    BY <1>6, AnomalyScanAssumption
  <2>2. stage = PhaseOf(c) /\ AfterIn(stage, c) = AfterOf(c) /\ AfterOf(c) # 0
    BY <1>5, <1>11, <1>14, <2>1 DEF AfterIn
  <2>3. ~c.done /\ stage = c.phase /\ e[2] <= c.after
    BY <1>5, <1>14, <2>2 DEF AfterOf, PhaseOf
  <2>4. e \in PassedBy(row.type, c)
    BY <1>6, <1>14, <2>3 DEF PassedBy
  <2> QED  BY <1>4, <2>4 DEF Sound
\* When nothing is left after the cursor.
<1>15. ASSUME ~(stage # PhaseOf(c) /\ stage = "invoice"), ids = {}, NEW e \in target[s],
              e[1] = stage
       PROVE  e \in Done(s)
  <2>1. e[2] <= AfterIn(stage, c)
    BY <1>6, <1>12, <1>15
  <2> QED  BY <1>14, <1>15, <2>1
\* What is done lies behind the cursor, and so behind what comes after it.
<1>16. ASSUME alone[s], ~(stage # PhaseOf(c) /\ stage = "invoice"), NEW e \in Done(s)
       PROVE  \/ e[1] = "invoice" /\ stage = "vendor"
              \/ /\ e[1] = stage
                 /\ e[2] <= AfterIn(stage, c) \/ (full /\ c.done /\ c.phase = "vendor")
  <2>1. /\ e \in Kinds \X Ids
        /\ \/ e[1] = c.phase /\ (c.done \/ e[2] <= c.after)
           \/ e[1] = "invoice" /\ c.phase = "vendor"
    BY <1>7, <1>16 DEF PassedBy
  <2>2. stage = PhaseOf(c)
    <3>1. CASE stage = "vendor"
      BY <1>1, <1>2, <1>8, <1>16, <3>1 DEF KnowsAlone, Inside
    <3> QED  BY <1>8, <1>16, <3>1 DEF Kinds
  <2>3. CASE c.done
    <3>1. stage = "vendor" /\ full
      BY <1>5, <2>2, <2>3 DEF PhaseOf
    <3> QED  BY <1>5, <2>1, <2>3, <3>1 DEF Kinds
  <2>4. CASE ~c.done
    <3>1. stage = c.phase /\ AfterIn(stage, c) = c.after
      BY <2>2, <2>4 DEF PhaseOf, AfterIn, AfterOf
    <3> HIDE DEF stage, c, full
    <3>2. CASE e[1] = c.phase /\ e[2] <= c.after
      BY <3>1, <3>2
    <3>3. CASE e[1] = "invoice" /\ c.phase = "vendor"
      BY <3>1, <3>3
    <3> QED  BY <2>1, <2>4, <3>2, <3>3
  <2> QED  BY <1>5, <2>3, <2>4
<1>17. Goes(r, IF row.status = "CANCELLED" THEN Idle
               ELSE IF stage # PhaseOf(c) /\ stage = "invoice" THEN turn
               ELSE IF (full /\ c.done /\ c.phase = "vendor") \/ (ids = {} /\ ~full)
               THEN to("finish")
               ELSE IF ids = {} THEN to("mark")
               ELSE fetch)
  BY DEF Look
<1> HIDE DEF turn, fetch, to, ids, full, c
<1>18. CASE row.status = "CANCELLED"
  <2>1. Goes(r, Idle)
    BY <1>17, <1>18
  <2> QED  BY <1>1, <1>3, <2>1, RunEnds
<1>19. CASE row.status # "CANCELLED" /\ stage # PhaseOf(c) /\ stage = "invoice"
  <2>1. Goes(r, turn)
    BY <1>17, <1>19
  <2> QED  BY <1>9, <1>10, <1>19, <2>1
<1>20. CASE /\ row.status # "CANCELLED" /\ ~(stage # PhaseOf(c) /\ stage = "invoice")
            /\ (full /\ c.done /\ c.phase = "vendor") \/ (ids = {} /\ ~full)
  <2>1. Goes(r, to("finish"))
    BY <1>17, <1>20
  <2>2. ASSUME NEW e \in target[s] PROVE e \in Done(s)
    <3>1. CASE full /\ c.done /\ c.phase = "vendor"
      <4>1. e \in PassedBy(row.type, c)
        BY <1>6, <3>1 DEF PassedBy, Kinds
      <4> QED  BY <1>4, <4>1 DEF Sound, c
    <3>2. CASE ids = {} /\ ~full
      BY <1>8, <1>15, <1>20, <3>2
    <3> QED  BY <1>20, <3>1, <3>2
  <2>3. to("finish").pc = "finish" /\ to("finish").stage = runner[r].stage
    BY <1>10
  <2> QED  BY <1>9, <1>10, <2>1, <2>2, <2>3
<1>21. CASE /\ row.status # "CANCELLED" /\ ~(stage # PhaseOf(c) /\ stage = "invoice")
            /\ ~((full /\ c.done /\ c.phase = "vendor") \/ (ids = {} /\ ~full))
            /\ ids = {}
  <2>1. Goes(r, to("mark")) /\ full
    BY <1>17, <1>21
  <2>2. to("mark").pc = "mark" /\ to("mark").stage = stage
    BY <1>8, <1>10
  <2>3. alone[s] => \A e \in Done(s) : e[1] = stage \/ stage = "vendor"
    BY <1>16, <1>21
  <2>4. \A e \in target[s] : e[1] = stage => e \in Done(s)
    BY <1>15, <1>21
  <2> QED  BY <1>8, <1>9, <1>10, <2>1, <2>2, <2>3, <2>4
<1>22. CASE /\ row.status # "CANCELLED" /\ ~(stage # PhaseOf(c) /\ stage = "invoice")
            /\ ~((full /\ c.done /\ c.phase = "vendor") \/ (ids = {} /\ ~full))
            /\ ids # {}
  <2>1. Goes(r, fetch)
    BY <1>17, <1>22
  <2>2. ASSUME NEW e \in target[s], e[1] = stage, e \notin Done(s), e[2] \notin ids, NEW i \in ids
        PROVE  i < e[2]
    <3>1. e[2] \in present[stage] /\ e[2] \in Nat /\ i \in Nat /\ AfterIn(stage, c) \in Nat
      BY <1>6, <1>11, <1>12, <2>2
    <3>2. ~(e[2] <= AfterIn(stage, c))
      BY <1>14, <1>22, <2>2
    <3>3. ~(e[2] < i) /\ e[2] # i
      BY <1>12, <2>2, <3>1, <3>2
    <3> QED  BY <3>1, <3>3
  <2>3. ASSUME alone[s], NEW e \in Done(s)
        PROVE  \/ e[1] = stage /\ \A i \in ids : e[2] < i
               \/ e[1] = "invoice" /\ stage = "vendor"
    <3>1. \/ e[1] = "invoice" /\ stage = "vendor"
          \/ e[1] = stage /\ e[2] <= AfterIn(stage, c)
      BY <1>16, <1>22, <2>3
    <3>2. e[2] \in Nat
      BY <1>2, <2>3, AnomalyScanAssumption DEF Done, CheckpointInv, ScanTypeOK
    <3>3. \A i \in ids : i > AfterIn(stage, c) /\ i \in Nat
      BY <1>12
    <3> QED  BY <1>11, <3>1, <3>2, <3>3
  <2> QED  BY <1>8, <1>9, <1>13, <1>22, <2>1, <2>2, <2>3
<1> QED  BY <1>18, <1>19, <1>20, <1>21, <1>22

-----------------------------------------------------------------------------
(* The other requests, and all steps.                                      *)

\* The requests that create a scan, and what is recorded meanwhile.
LEMMA CheckpointInvRecord ==
    ASSUME CheckpointInv, NEW k \in Kinds, NEW i \in Ids, Record(k, i)
    PROVE  CheckpointInv'
<1>1. /\ UNCHANGED <<scan, signals, runner, canceller, target, alone, examined, failed, calls,
                     faults>>
      /\ present' \in [Kinds -> SUBSET Ids]
      /\ \A l \in Kinds : present[l] \subseteq present'[l]
  BY DEF Record, ghosts, CheckpointInv, ScanTypeOK
<1>2. ScanTypeOK'
  BY <1>1 DEF CheckpointInv, ScanTypeOK
<1>3. TargetInv'
  <2>1. \A s \in Scans : \A e \in target[s] : e[1] \in Kinds
    BY DEF CheckpointInv, ScanTypeOK
  <2> QED  BY <1>1, <2>1 DEF CheckpointInv, TargetInv
<1>4. AbsentInv' /\ CursorInv' /\ RunsInv' /\ CountInv'
  BY <1>1 DEF CheckpointInv, AbsentInv, CursorInv, RunsInv, CountInv, Runs, Running, Done
<1> QED  BY <1>2, <1>3, <1>4 DEF CheckpointInv

LEMMA CheckpointInvCreate ==
    ASSUME CheckpointInv, NEW s \in Scans, NEW type \in ScanTypes, CreateScan(s, type)
    PROVE  CheckpointInv'
<1> DEFINE c == NoCursor(type)
           row == [NoScan EXCEPT !.status = "PENDING", !.type = type, !.cursor = c]
           due == {e \in Kinds \X Ids : e[1] \in Phases[type] /\ e[2] \in present[e[1]]}
<1>1. /\ scan[s].status = "ABSENT" /\ scan' = [scan EXCEPT ![s] = row]
      /\ target' = [target EXCEPT ![s] = due]
      /\ UNCHANGED <<present, signals, runner, canceller, examined, failed, alone, calls, faults>>
  BY DEF CreateScan
<1>2. /\ Done(s) = {} /\ failed[s] = {}
      /\ \A r \in Runners : ~Runs(r, s)
      /\ \A d \in Cancellers : ~(canceller[d].busy /\ canceller[d].scan = s)
  BY <1>1 DEF CheckpointInv, AbsentInv, Done
<1>3. /\ type \in DOMAIN Phases /\ type \in {"INVOICE", "VENDOR", "FULL"}
      /\ c.phase \in Phases[type] /\ c.after = 0 /\ c.done = FALSE /\ c \in Cursor
      /\ c.phase = "vendor" => "invoice" \notin Phases[type]
  BY AnomalyScanAssumption DEF NoCursor, Phases, Kinds, Cursor
<1> HIDE DEF c
<1>4. /\ row \in ScanRow /\ row.status = "PENDING" /\ row.type = type /\ row.cursor = c
      /\ row.processed = 0 /\ row.errors = 0
  BY <1>3 DEF NoScan, ScanRow, Statuses, Active
<1> HIDE DEF row, due
<1>5. /\ scan'[s] = row /\ \A t \in Scans : t # s => scan'[t] = scan[t]
      /\ target'[s] = due /\ \A t \in Scans : t # s => target'[t] = target[t]
      /\ \A t \in Scans : Done(t)' = Done(t) /\ failed'[t] = failed[t]
      /\ \A r \in Runners, t \in Scans : Runs(r, t)' = Runs(r, t)
  BY <1>1 DEF CheckpointInv, ScanTypeOK, Done, Runs, Running
<1>6. ScanTypeOK'
  BY <1>1, <1>4 DEF CheckpointInv, ScanTypeOK, due
<1>7. TargetInv'
  BY <1>1, <1>4, <1>5 DEF CheckpointInv, TargetInv, due
<1>8. AbsentInv'
  BY <1>1, <1>4, <1>5 DEF CheckpointInv, AbsentInv
<1>9. Sound(row, due, {})
  <2>1. Fits(type, c)
    BY <1>3 DEF Fits
  <2>2. ASSUME NEW e \in due, e \in PassedBy(type, c) PROVE FALSE
    <3>1. e \in Kinds \X Ids /\ e[1] \in Phases[type]
      BY DEF due
    <3>2. \A i \in Ids : i \in Nat /\ i > 0
      BY AnomalyScanAssumption
    <3>3. e[2] \in Nat /\ e[2] > 0
      BY <3>1, <3>2
    <3> QED  BY <1>3, <2>2, <3>1, <3>3 DEF PassedBy
  <2> QED  BY <1>4, <2>1, <2>2 DEF Sound
<1>10. CursorInv'
  BY <1>2, <1>5, <1>9 DEF CheckpointInv, CursorInv
<1>11. RunsInv'
  <2>1. ASSUME NEW r \in Runners, Running(r), NEW t, t = runner[r].scan
        PROVE  Knows(runner[r], scan'[t].type, target'[t], examined'[t] \union failed'[t])
    <3>1. t \in Scans /\ t # s
      BY <1>2, <2>1 DEF Runs, CheckpointInv, ScanTypeOK, RunnerState
    <3>2. Knows(runner[r], scan[t].type, target[t], examined[t] \union failed[t])
      BY <2>1 DEF CheckpointInv, RunsInv, Done
    <3> QED  BY <1>1, <1>5, <3>1, <3>2
  <2> QED  BY <1>1, <2>1 DEF RunsInv, Running, Done
<1>12. CountInv'
  <2>1. Counted(row, {}, {})
    BY <1>4, FS_EmptySet DEF Counted
  <2>2. ASSUME NEW t \in Scans, alone[t] PROVE Counted(scan'[t], Done(t)', failed'[t])
    BY <1>2, <1>5, <2>1, <2>2 DEF CheckpointInv, CountInv
  <2>3. ASSUME NEW t \in Scans, alone[t]
        PROVE  /\ \A r, q \in Runners : Runs(r, t)' /\ Runs(q, t)' => r = q
               /\ \A r \in Runners : Runs(r, t)' => KnowsAlone(runner'[r], scan'[t], Done(t)')
    BY <1>1, <1>2, <1>5, <2>3 DEF CheckpointInv, CountInv
  <2> QED  BY <1>1, <2>2, <2>3 DEF CountInv
<1> QED  BY <1>6, <1>7, <1>8, <1>10, <1>11, <1>12 DEF CheckpointInv

\* A cancellation has the row it loaded, and writes a status.
LEMMA CheckpointInvBeginCancel ==
    ASSUME CheckpointInv, NEW c \in Cancellers, NEW s \in Scans, BeginCancel(c, s)
    PROVE  CheckpointInv'
<1>1. /\ scan[s].status # "ABSENT"
      /\ canceller' = [canceller EXCEPT ![c] = [busy |-> TRUE, scan |-> s, row |-> scan[s]]]
      /\ calls' \in Nat
      /\ UNCHANGED <<present, scan, signals, runner, target, alone, examined, failed, faults>>
  BY DEF BeginCancel, Active, ghosts, CheckpointInv, ScanTypeOK
<1>2. ScanTypeOK'
  BY <1>1 DEF CheckpointInv, ScanTypeOK, CancellerState
<1>3. AbsentInv'
  <2>1. \A d \in Cancellers, t \in Scans : canceller'[d].busy /\ canceller'[d].scan = t =>
            t = s \/ (canceller[d].busy /\ canceller[d].scan = t)
    BY <1>1 DEF CheckpointInv, ScanTypeOK
  <2> QED  BY <1>1, <2>1 DEF CheckpointInv, AbsentInv, Runs, Running, Done
<1>4. TargetInv' /\ CursorInv' /\ RunsInv' /\ CountInv'
  BY <1>1 DEF CheckpointInv, TargetInv, CursorInv, RunsInv, CountInv, Runs, Running, Done
<1> QED  BY <1>2, <1>3, <1>4 DEF CheckpointInv

LEMMA CheckpointInvCommitCancel ==
    ASSUME CheckpointInv, NEW c \in Cancellers, CommitCancel(c)
    PROVE  CheckpointInv'
<1> DEFINE s == canceller[c].scan
           loaded == canceller[c].row
           row == Flush(scan[s], loaded, [loaded EXCEPT !.status = "CANCELLED"])
<1>1. /\ canceller[c].busy /\ scan' = [scan EXCEPT ![s] = row]
      /\ canceller' = [canceller EXCEPT ![c] = NoCancel]
      /\ UNCHANGED <<present, signals, runner, target, alone, examined, failed, calls, faults>>
  BY DEF CommitCancel, ghosts
<1>2. s \in Scans /\ loaded \in ScanRow /\ scan[s] \in ScanRow
  BY DEF CheckpointInv, ScanTypeOK, CancellerState
<1>3. scan[s].status # "ABSENT"
  BY <1>1, <1>2 DEF CheckpointInv, AbsentInv
<1>4. /\ row \in ScanRow
      /\ row.type = scan[s].type /\ row.cursor = scan[s].cursor
      /\ row.processed = scan[s].processed /\ row.errors = scan[s].errors
      /\ row.status \in {scan[s].status, "CANCELLED"}
  BY <1>2, <1>3, StatusFlush DEF Statuses
<1> HIDE DEF row
<1>5. NoCancel \in CancellerState /\ ~NoCancel.busy
  <2>1. NoScan \in ScanRow /\ AnyScan \in Scans
    BY AnomalyScanAssumption
    DEF NoScan, ScanRow, Statuses, Phases, Cursor, NoCursor, Kinds, AnyScan
  <2> QED  BY <2>1 DEF NoCancel, CancellerState
<1>6. ScanTypeOK'
  BY <1>1, <1>4, <1>5 DEF CheckpointInv, ScanTypeOK
<1>7. /\ \A t \in Scans : /\ scan'[t].type = scan[t].type /\ scan'[t].cursor = scan[t].cursor
                          /\ scan'[t].processed = scan[t].processed
                          /\ scan'[t].errors = scan[t].errors
                          /\ scan'[t].status \in {scan[t].status, "CANCELLED"}
                          /\ Done(t)' = Done(t)
      /\ \A r \in Runners, t \in Scans : Runs(r, t)' = Runs(r, t)
  BY <1>1, <1>2, <1>4 DEF CheckpointInv, ScanTypeOK, Done, Runs, Running
<1>8. TargetInv'
  BY <1>1, <1>7 DEF CheckpointInv, TargetInv
<1>9. AbsentInv'
  <2>1. \A d \in Cancellers : canceller'[d].busy => canceller'[d] = canceller[d]
    BY <1>1, <1>5 DEF CheckpointInv, ScanTypeOK
  <2> QED  BY <1>1, <1>7, <2>1 DEF CheckpointInv, AbsentInv
<1>10. CursorInv'
  BY <1>1, <1>7 DEF CheckpointInv, CursorInv, Sound
<1>11. RunsInv'
  <2>1. \A r \in Runners : runner[r].scan \in Scans
    BY DEF CheckpointInv, ScanTypeOK, RunnerState
  <2>2. ASSUME NEW r \in Runners, Running(r), NEW t, t = runner[r].scan
        PROVE  Knows(runner[r], scan'[t].type, target[t], examined[t] \union failed[t])
    <3>1. Knows(runner[r], scan[t].type, target[t], examined[t] \union failed[t])
      BY <2>2 DEF CheckpointInv, RunsInv, Done
    <3> QED  BY <1>7, <2>1, <2>2, <3>1
  <2> QED  BY <1>1, <2>2 DEF RunsInv, Running, Done
<1>12. CountInv'
  BY <1>1, <1>7 DEF CheckpointInv, CountInv, Counted, KnowsAlone
<1> QED  BY <1>6, <1>8, <1>9, <1>10, <1>11, <1>12 DEF CheckpointInv

\* A run that begins on a scan another is running ends what the counters say of it;
\* else it has its row as it is.
LEMMA CheckpointInvBegin ==
    ASSUME CheckpointInv, NEW r \in Runners, NEW s \in Scans, BeginRun(r, s) \/ BeginResume(r, s)
    PROVE  CheckpointInv'
<1>1. PICK p \in {"start", "resume"} : Goes(r, Loaded(s, p))
  BY DEF BeginRun, BeginResume, Loaded
<1>2. /\ ~Running(r) /\ scan[s].status # "ABSENT"
      /\ alone' = [alone EXCEPT ![s] = @ /\ \A q \in Runners : ~Runs(q, s)]
      /\ calls' \in Nat
      /\ UNCHANGED <<present, scan, signals, canceller, target, examined, failed, faults>>
  BY DEF BeginRun, BeginResume, Active, CheckpointInv, ScanTypeOK, Runs
<1> DEFINE x == Loaded(s, p)
<1>3. /\ Tidy(x) /\ x.scan = s
      /\ Knows(x, scan[s].type, target[s], Done(s))
      /\ KnowsAlone(x, scan[s], Done(s))
  BY <1>2, LoadedKnows
<1> HIDE DEF x
<1>4. /\ runner'[r] = x /\ \A q \in Runners : q # r => runner'[q] = runner[q]
      /\ runner' \in [Runners -> RunnerState]
  BY <1>1, <1>3 DEF x, Goes, CheckpointInv, ScanTypeOK, Tidy
<1>5. ScanTypeOK'
  BY <1>2, <1>3, <1>4 DEF CheckpointInv, ScanTypeOK, Tidy
<1>6. TargetInv' /\ CursorInv'
  BY <1>2 DEF CheckpointInv, TargetInv, CursorInv, Done
<1>7. \A q \in Runners, t \in Scans : Runs(q, t)' => (q = r /\ t = s) \/ (q # r /\ Runs(q, t))
  BY <1>3, <1>4 DEF Runs, Running
<1>8. AbsentInv'
  BY <1>2, <1>7 DEF CheckpointInv, AbsentInv, Done
<1>9. RunsInv'
  <2> SUFFICES ASSUME NEW q \in Runners, Running(q)'
               PROVE  Knows(runner'[q], scan[runner'[q].scan].type, target[runner'[q].scan],
                            Done(runner'[q].scan))
    BY <1>2 DEF RunsInv, Done
  <2>1. CASE q = r
    BY <1>3, <1>4, <2>1
  <2>2. CASE q # r
    BY <1>4, <2>2 DEF CheckpointInv, RunsInv, Running
  <2> QED  BY <2>1, <2>2
<1>10. CountInv'
  <2> SUFFICES ASSUME NEW t \in Scans, alone'[t]
               PROVE  /\ Counted(scan[t], Done(t), failed[t])
                      /\ \A n, q \in Runners : Runs(n, t)' /\ Runs(q, t)' => n = q
                      /\ \A q \in Runners : Runs(q, t)' =>
                            KnowsAlone(runner'[q], scan[t], Done(t))
    BY <1>2 DEF CountInv, Done
  <2>1. alone[t] /\ (t = s => \A q \in Runners : ~Runs(q, s))
    BY <1>2 DEF CheckpointInv, ScanTypeOK
  <2>2. \A n, q \in Runners : Runs(n, t)' /\ Runs(q, t)' => n = q
    BY <1>7, <2>1 DEF CheckpointInv, CountInv
  <2>3. ASSUME NEW q \in Runners, Runs(q, t)' PROVE KnowsAlone(runner'[q], scan[t], Done(t))
    <3>1. CASE q = r /\ t = s
      BY <1>3, <1>4, <3>1
    <3>2. CASE q # r /\ Runs(q, t)
      BY <1>4, <2>1, <3>2 DEF CheckpointInv, CountInv
    <3> QED  BY <1>7, <2>3, <3>1, <3>2
  <2> QED  BY <2>1, <2>2, <2>3 DEF CheckpointInv, CountInv
<1> QED  BY <1>5, <1>6, <1>8, <1>9, <1>10 DEF CheckpointInv

LEMMA CheckpointInvInit == ScanInit => CheckpointInv
<1> SUFFICES ASSUME ScanInit PROVE CheckpointInv
  OBVIOUS
<1>1. NoScan \in ScanRow /\ AnyScan \in Scans /\ NoScan.status = "ABSENT"
      /\ NoScan.type = "INVOICE" /\ NoScan.processed = 0 /\ NoScan.errors = 0
      /\ Fits("INVOICE", NoScan.cursor)
  BY AnomalyScanAssumption
  DEF NoScan, ScanRow, Statuses, Phases, Cursor, NoCursor, Kinds, AnyScan, Fits
<1>2. Idle \in RunnerState /\ Idle.pc = "idle" /\ Idle.pending = {}
      /\ Idle.left \union Idle.bad \subseteq Idle.batch
  BY IdleIsTyped DEF Tidy
<1>3. NoCancel \in CancellerState /\ ~NoCancel.busy
  BY <1>1 DEF NoCancel, CancellerState
<1> HIDE DEF Idle, NoScan, NoCancel
<1>4. ScanTypeOK
  BY <1>1, <1>2, <1>3, AnomalyScanAssumption DEF ScanInit, ScanTypeOK
<1>5. /\ \A s \in Scans : scan[s] = NoScan /\ target[s] = {} /\ Done(s) = {} /\ failed[s] = {}
      /\ \A r \in Runners : ~Running(r)
      /\ \A c \in Cancellers : ~canceller[c].busy
  BY <1>2, <1>3 DEF ScanInit, Done, Running
<1>6. TargetInv /\ AbsentInv /\ CursorInv /\ RunsInv
  BY <1>1, <1>5 DEF TargetInv, AbsentInv, CursorInv, RunsInv, Sound, Runs
<1>7. CountInv
  BY <1>1, <1>5, FS_EmptySet DEF CountInv, Counted, Runs
<1> QED  BY <1>4, <1>6, <1>7 DEF CheckpointInv

LEMMA CheckpointInvStep == CheckpointInv /\ [ScanNext]_vars => CheckpointInv'
<1> SUFFICES ASSUME CheckpointInv, [ScanNext]_vars PROVE CheckpointInv'
  OBVIOUS
<1>1. ASSUME NEW k \in Kinds, NEW i \in Ids, Record(k, i) PROVE CheckpointInv'
  BY <1>1, CheckpointInvRecord
<1>2. ASSUME NEW s \in Scans, NEW type \in ScanTypes, CreateScan(s, type) PROVE CheckpointInv'
  BY <1>2, CheckpointInvCreate
<1>3. ASSUME NEW c \in Cancellers, NEW s \in Scans, BeginCancel(c, s) PROVE CheckpointInv'
  BY <1>3, CheckpointInvBeginCancel
<1>4. ASSUME NEW c \in Cancellers, CommitCancel(c) PROVE CheckpointInv'
  BY <1>4, CheckpointInvCommitCancel
<1>5. ASSUME NEW r \in Runners, NEW s \in Scans, BeginRun(r, s) \/ BeginResume(r, s)
      PROVE  CheckpointInv'
  BY <1>5, CheckpointInvBegin
<1>6. ASSUME NEW r \in Runners, RunStep(r) \/ DatabaseFails(r) \/ Crash(r) PROVE CheckpointInv'
  <2>1. CASE RunResumed(r) \/ Deadlocked(r) \/ DatabaseFails(r) \/ Crash(r)
    BY <2>1, CheckpointInvRestarts
  <2>2. CASE CommitResume(r)
    BY <2>2, CheckpointInvCommitResume
  <2>3. CASE StartRun(r)
    BY <2>3, CheckpointInvStartRun
  <2>4. CASE Look(r)
    BY <2>4, CheckpointInvLook
  <2>5. CASE MarkPhaseDone(r)
    BY <2>5, CheckpointInvMark
  <2>6. CASE Examine(r)
    BY <2>6, CheckpointInvExamine
  <2>7. CASE CommitBatch(r)
    BY <2>7, CheckpointInvCommitBatch
  <2>8. CASE Finish(r) \/ FailRun(r)
    BY <2>8, CheckpointInvEnds
  <2> QED  BY <1>6, <2>1, <2>2, <2>3, <2>4, <2>5, <2>6, <2>7, <2>8 DEF RunStep
<1>7. CASE UNCHANGED vars
  BY <1>7 DEF vars, ghosts, CheckpointInv, ScanTypeOK, TargetInv, AbsentInv, CursorInv, RunsInv,
     CountInv, Runs, Running, Done
<1> QED  BY <1>1, <1>2, <1>3, <1>4, <1>5, <1>6, <1>7 DEF ScanNext

LEMMA CheckpointInvSuffices == CheckpointInv => CheckpointIsSound
<1> SUFFICES ASSUME CheckpointInv PROVE CheckpointIsSound
  OBVIOUS
<1>1. \A s \in Scans : Passed(scan[s]) = PassedBy(scan[s].type, scan[s].cursor)
  BY DEF Passed, PassedBy
<1>2. \A s \in Scans : Sound(scan[s], target[s], examined[s] \union failed[s])
  BY DEF CheckpointInv, CursorInv, Done
<1>3. \A s \in Scans : alone[s] => Counted(scan[s], examined[s] \union failed[s], failed[s])
  BY DEF CheckpointInv, CountInv, Done
<1>4. ScanTypeOK
  BY DEF CheckpointInv
<1> QED  BY <1>1, <1>2, <1>3, <1>4 DEF CheckpointIsSound, Sound, Counted

\* Whatever runs, crashes, failures, resumptions and cancellations there were, of what
\* existed when a scan was created nothing lies behind its cursor that a committed batch
\* has not examined or counted as failed, and nothing is missing when it says COMPLETED;
\* its counters agree as long as no two requests ran it at once.  It is the property the
\* runs check, for any number of scans, requests, entities and faults and any batch size.
THEOREM CheckpointsAreSound == ScanSpec => []CheckpointIsSound
<1>1. ScanInit => CheckpointInv
  BY CheckpointInvInit
<1>2. CheckpointInv /\ [ScanNext]_vars => CheckpointInv'
  BY CheckpointInvStep
<1>3. CheckpointInv => CheckpointIsSound
  BY CheckpointInvSuffices
<1> QED  BY <1>1, <1>2, <1>3, PTL DEF ScanSpec

=============================================================================
