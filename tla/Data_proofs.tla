----------------------------- MODULE Data_proofs -----------------------------
(***************************************************************************)
(* Proofs about the data pipelines: the medallion layers, the silver rows  *)
(* of the engine, the synchronised Notion pages, the dashboard, the tidied *)
(* board, the briefings and the scheduler that starts them, for any        *)
(* runners, sources, tenants, records, tasks, pages, sections and          *)
(* settings; and the types of all of them.                                 *)
(***************************************************************************)
EXTENDS MCData,
        FiniteSetTheorems, SequenceTheorems, WellFoundedInduction, TLAPS

------------------------------------------------------------------------------
(***************************************************************************)
(* brain/pipeline: any runners, sources, quotas and numbers of runs and    *)
(* seconds.                                                                *)
(***************************************************************************)

Seconds == 0..LastSecond
Stages == {"idle", "bronze", "read", "clean", "score", "digest", "persist"}
Works ==
  [stage : Stages, serial : Payloads, from : Seconds, given : SUBSET Sources, todo : SUBSET Sources,
   hand : [Sources -> Payloads], status : {"pending", "running", "completed", "failed"}, alone : BOOLEAN]

LayersTyped ==
  /\ wallSecond \in Seconds
  /\ bronze \in [Sources -> [Seconds -> Payloads]]
  /\ silver \in [Sources -> Payloads] /\ dailyDigest \in [Sources -> Payloads]
  /\ scoredTasks \in Payloads
  /\ runsBegun \in Payloads
  /\ runLog \in [Seconds -> {"none", "completed", "failed"}]
  /\ charged \in [Routes -> 0..RunQuota]
  /\ runner \in [Runners -> Works]

\* A batch of source f has been ingested; its latest is of run n.
Ingested(f) == \E s \in Seconds : bronze[f][s] # NoRun

LatestIs(f, n) ==
  \E s \in Seconds : bronze[f][s] = n /\ \A t \in Seconds : t > s => bronze[f][t] = NoRun

\* No batch is of a second to come, and nothing gets to silver that was not
\* ingested.
LayersGrounded ==
  /\ \A f \in Sources, s \in Seconds : bronze[f][s] # NoRun => s <= wallSecond
  /\ \A f \in Sources : silver[f] # NoRun => Ingested(f)

\* A run in a stage over sources has one to do; a run has a number; what it has
\* read was ingested; only a run that ends has a result.
WorkAt(w) ==
  /\ w.stage \in {"bronze", "read", "clean"} => w.todo # {}
  /\ w.stage # "idle" => w.serial # NoRun
  /\ w.status = "completed" => w.stage = "persist"
  /\ w.stage = "persist" => w.status \in {"completed", "failed"}
  /\ \A f \in Sources : w.hand[f] # NoRun => Ingested(f)

\* The layers and what the run has at hand agree on the sources it has been through.
Agrees(w, S) ==
  \A f \in S : w.hand[f] = silver[f] /\ (f \in w.given => w.hand[f] = w.serial)

\* How far a run that is alone has got.
AloneAt(w) ==
  /\ w.stage = "bronze" => w.todo \subseteq w.given /\ \A f \in w.given \ w.todo : LatestIs(f, w.serial)
  /\ w.stage \in {"bronze", "read"} => \A f \in Sources : f \in w.todo \/ w.stage = "bronze" => w.hand[f] = NoRun
  /\ w.stage \in {"read", "clean"} =>
       /\ \A f \in w.given : LatestIs(f, w.serial)
       /\ Agrees(w, Sources \ w.todo)
  /\ w.stage = "clean" =>
       /\ \A f \in w.todo \ {First(w.todo)} : w.hand[f] = NoRun
       /\ First(w.todo) \in w.given => w.hand[First(w.todo)] = w.serial
  /\ w.stage \in {"score", "digest"} \/ w.status = "completed" => Agrees(w, Sources)
  /\ w.stage = "digest" \/ w.status = "completed" => scoredTasks = w.hand["todoist"]
  /\ w.status = "completed" => dailyDigest = w.hand

\* Nobody else is at work while a run is alone.
AloneIsAlone ==
  \A p \in Runners : ~Staged(p, "idle") /\ runner[p].alone =>
    /\ \A q \in Runners : q # p => Staged(q, "idle")
    /\ AloneAt(runner[p])

MedallionInv ==
  LayersTyped /\ LayersGrounded /\ (\A p \in Runners : WorkAt(runner[p])) /\ AloneIsAlone

\* Each stage goes on with one of the sources it still has to do.
LEMMA FirstIsOne ==
  ASSUME NEW S \in SUBSET Sources, S # {}
  PROVE  First(S) \in S
<1> DEFINE places == {i \in DOMAIN Feeds : Feeds[i] \in S}
<1>1. Feeds \in Seq({"todoist", "calendar", "gmail"})
  BY MedallionAssumption DEF MedallionAssumption
<1>2. DOMAIN Feeds = 1..Len(Feeds) /\ Len(Feeds) \in Nat
  BY <1>1
<1>3. Sources = {Feeds[i] : i \in DOMAIN Feeds}
  BY DEF Sources, ToSet
<1>4. places \subseteq Nat /\ places # {}
  BY <1>2, <1>3
<1>5. PICK i \in places : \A j \in places : ~(<<j, i>> \in OpToRel(<, Nat))
  BY <1>4, WFMin, NatLessThanWellFounded
<1>6. ASSUME NEW j \in 1..(i - 1), Feeds[j] \in S PROVE FALSE
  <2>1. j \in places /\ j < i /\ j \in Nat /\ i \in Nat
    BY <1>2, <1>4, <1>6
  <2>2. QED
    BY <1>5, <2>1 DEF OpToRel
<1>7. \E k \in DOMAIN Feeds : Feeds[k] \in S /\ \A j \in 1..(k - 1) : Feeds[j] \notin S
  BY <1>6
<1>8. QED
  BY <1>7 DEF First

\* The keys of a source's batches have a last one.
LEMMA LastBatch ==
  ASSUME NEW dated \in SUBSET Seconds, dated # {}
  PROVE  \E s \in dated : \A t \in dated : s >= t
<1> DEFINE ages == {LastSecond - s : s \in dated}
<1>1. LastSecond \in Nat /\ \A s \in dated : s \in Nat /\ LastSecond - s \in Nat
  BY MedallionAssumption DEF MedallionAssumption, Seconds
<1>2. ages \subseteq Nat /\ ages # {}
  BY <1>1
<1>3. PICK low \in ages : \A x \in ages : ~(<<x, low>> \in OpToRel(<, Nat))
  BY <1>2, WFMin, NatLessThanWellFounded
<1>4. PICK s \in dated : low = LastSecond - s
  BY <1>3
<1>5. ASSUME NEW t \in dated PROVE s >= t
  <2>1. LastSecond - t \in ages
    OBVIOUS
  <2>2. ~(LastSecond - t < LastSecond - s)
    BY <1>1, <1>3, <1>4, <2>1 DEF OpToRel
  <2>3. QED
    BY <1>1, <2>2
<1>6. QED
  BY <1>5

\* read_latest returns a batch when there is one, and the latest.
LEMMA LatestRead ==
  ASSUME LayersTyped, NEW f \in Sources
  PROVE  /\ ReadLatest(f) \in Payloads
         /\ ReadLatest(f) # NoRun <=> Ingested(f)
         /\ \A n \in Payloads : n # NoRun /\ LatestIs(f, n) => ReadLatest(f) = n
<1> DEFINE dated == {s \in 0..LastSecond : bronze[f][s] # NoRun}
           last == CHOOSE s \in dated : \A t \in dated : s >= t
<1>1. dated \in SUBSET Seconds /\ bronze[f] \in [Seconds -> Payloads] /\ NoRun \in Payloads
  BY MedallionAssumption DEF MedallionAssumption, Seconds, LayersTyped, Payloads, NoRun
<1>2. ReadLatest(f) = IF dated = {} THEN NoRun ELSE bronze[f][last]
  BY DEF ReadLatest
<1>3. dated # {} <=> Ingested(f)
  BY DEF Ingested, Seconds
<1>4. dated # {} => last \in dated /\ \A t \in dated : last >= t
  <2> HIDE DEF dated
  <2>1. dated # {} => \E s \in dated : \A t \in dated : s >= t
    BY <1>1, LastBatch
  <2>2. QED
    BY <2>1
<1>5. ASSUME NEW n \in Payloads, n # NoRun, LatestIs(f, n) PROVE ReadLatest(f) = n
  <2>1. PICK s \in Seconds : bronze[f][s] = n /\ \A t \in Seconds : t > s => bronze[f][t] = NoRun
    BY <1>5 DEF LatestIs
  <2>2. s \in dated /\ s \in Int
    BY <1>5, <2>1 DEF Seconds
  <2>3. last \in dated /\ last >= s /\ last \in Seconds /\ last \in Int
    <3>1. \A t \in dated : t \in Seconds /\ t \in Int
      BY DEF Seconds
    <3>2. QED
      BY <1>4, <2>2, <3>1
  <2>4. last = s
    <3>1. bronze[f][last] # NoRun
      BY <2>3
    <3>2. ~(last > s)
      BY <2>1, <2>3, <3>1
    <3>3. QED
      BY <2>2, <2>3, <3>2
  <2>5. QED
    BY <1>2, <2>1, <2>2, <2>4
<1> HIDE DEF last
<1>6. QED
  BY <1>1, <1>2, <1>3, <1>4, <1>5

\* The latest batch of a source is one.
LEMMA LatestIngested ==
  ASSUME NEW f, NEW n, n # NoRun, LatestIs(f, n)
  PROVE  Ingested(f)
BY DEF LatestIs, Ingested

\* Nothing is ingested at first, and nobody is at work.
LEMMA MedallionInvInit == MedallionInit => MedallionInv
<1> SUFFICES ASSUME MedallionInit PROVE MedallionInv
  OBVIOUS
<1>1. NoWork \in Works /\ NoFeeds \in [Sources -> Payloads] /\ 0 \in Seconds /\ 0 \in 0..RunQuota /\ NoRun \in Payloads
  BY MedallionAssumption DEF MedallionAssumption, NoWork, NoFeeds, Works, Stages, Payloads, Seconds, NoRun
<1>2. LayersTyped
  BY <1>1 DEF MedallionInit, LayersTyped, NoRun, Seconds
<1>3. LayersGrounded
  BY DEF MedallionInit, LayersGrounded, NoFeeds, Seconds
<1>4. \A p \in Runners : WorkAt(runner[p])
  BY DEF MedallionInit, WorkAt, NoWork, NoFeeds
<1>5. AloneIsAlone
  BY DEF MedallionInit, AloneIsAlone, NoWork, Staged
<1>6. QED
  BY <1>2, <1>3, <1>4, <1>5 DEF MedallionInv

\* A runner at work moves: the others are not alone, or stand still.
LEMMA RunnerMoves ==
  ASSUME MedallionInv, NEW p \in Runners, NEW w \in Works, ~Staged(p, "idle"),
         runner' = [runner EXCEPT ![p] = w],
         LayersTyped', LayersGrounded',
         \A f \in Sources : Ingested(f) => Ingested(f)',
         WorkAt(w)',
         w.stage # "idle" => w.alone = runner[p].alone,
         w.stage # "idle" /\ w.alone => AloneAt(w)'
  PROVE  MedallionInv'
<1>1. \A q \in Runners : runner'[q] = IF q = p THEN w ELSE runner[q]
  BY DEF MedallionInv, LayersTyped
<1>2. ASSUME NEW q \in Runners PROVE WorkAt(runner[q])'
  <2>1. CASE q = p
    BY <1>1, <2>1 DEF WorkAt
  <2>2. CASE q # p
    BY <1>1, <2>2 DEF WorkAt, MedallionInv
  <2>3. QED
    BY <2>1, <2>2
<1>3. ASSUME NEW q \in Runners, ~Staged(q, "idle")', runner'[q].alone
      PROVE  /\ \A r \in Runners : r # q => Staged(r, "idle")'
             /\ AloneAt(runner[q])'
  <2>1. q = p
    BY <1>1, <1>3 DEF MedallionInv, AloneIsAlone, Staged
  <2>2. w.stage # "idle" /\ w.alone /\ runner[p].alone
    BY <1>1, <1>3, <2>1 DEF Staged
  <2>3. \A r \in Runners : r # p => Staged(r, "idle")
    BY <2>2 DEF MedallionInv, AloneIsAlone
  <2>4. AloneAt(w)'
    BY <2>2
  <2>5. runner'[q] = w
    BY <1>1, <2>1
  <2>6. AloneAt(runner[q])'
    BY <2>4, <2>5 DEF AloneAt, Agrees, LatestIs
  <2>7. QED
    BY <1>1, <2>1, <2>3, <2>6 DEF Staged
<1>4. QED
  BY <1>2, <1>3 DEF MedallionInv, AloneIsAlone

\* What a run at work is known to be.
LEMMA AtWorkIs ==
  ASSUME MedallionInv, NEW p \in Runners
  PROVE  /\ runner[p] \in Works /\ WorkAt(runner[p])
         /\ ~Staged(p, "idle") /\ runner[p].alone => AloneAt(runner[p])
BY DEF MedallionInv, LayersTyped, AloneIsAlone

\* A run begins, alone or not.
LEMMA TriggerKeeps ==
  ASSUME MedallionInv, NEW p \in Runners, NEW given \in SUBSET Sources, Trigger(p, given)
  PROVE  MedallionInv'
<1>1. UNCHANGED <<wallSecond, bronze, silver, scoredTasks, dailyDigest, runLog>> /\ Staged(p, "idle")
  BY DEF Trigger, layers
<1>2. /\ RunQuota \in Nat /\ MaxRuns \in Nat
      /\ Feeds \in Seq({"todoist", "calendar", "gmail"}) /\ Feeds # <<>>
  BY MedallionAssumption DEF MedallionAssumption
<1>3. charged' \in [Routes -> 0..RunQuota]
  <2>1. charged' = [q \in Routes |-> IF q = p THEN charged[q] + 1 ELSE charged[q]] /\ RunAllowed(p)
    BY DEF Trigger
  <2>2. charged \in [Routes -> 0..RunQuota]
    BY DEF MedallionInv, LayersTyped
  <2>3. QED
    BY <1>2, <2>1, <2>2 DEF RunAllowed
<1>4. LayersGrounded'
  BY <1>1 DEF MedallionInv, LayersGrounded, Ingested
<1>5. CASE UNCHANGED <<runsBegun, runner>>
  <2>1. LayersTyped'
    BY <1>1, <1>3, <1>5 DEF MedallionInv, LayersTyped
  <2>2. (\A q \in Runners : WorkAt(runner[q])') /\ AloneIsAlone'
    BY <1>1, <1>5 DEF MedallionInv, WorkAt, Ingested, AloneIsAlone, Staged, AloneAt, Agrees, LatestIs
  <2>3. QED
    BY <1>4, <2>1, <2>2 DEF MedallionInv
<1>6. CASE ~ UNCHANGED <<runsBegun, runner>>
  <2> DEFINE w == [NoWork EXCEPT !.stage = IF given = {} THEN "read" ELSE "bronze",
                     !.serial = runsBegun + 1, !.from = wallSecond, !.given = given,
                     !.todo = IF given = {} THEN Sources ELSE given, !.status = "running",
                     !.alone = \A r \in Runners : Staged(r, "idle")]
  <2>1. /\ runsBegun < MaxRuns /\ runsBegun' = runsBegun + 1
        /\ runner' = [q \in Runners |-> IF q = p THEN w ELSE [runner[q] EXCEPT !.alone = Staged(q, "idle")]]
    BY <1>6 DEF Trigger
  <2>2. /\ runsBegun \in Payloads /\ wallSecond \in Seconds /\ runner \in [Runners -> Works]
        /\ runsBegun + 1 \in Payloads /\ runsBegun + 1 # NoRun /\ NoFeeds \in [Sources -> Payloads]
        /\ NoRun \in Payloads /\ 0 \in Seconds
    <3>0. runsBegun \in 0..MaxRuns
      BY DEF MedallionInv, LayersTyped, Payloads
    <3>1. runsBegun + 1 \in 0..MaxRuns /\ runsBegun + 1 # 0 /\ 0 \in 0..MaxRuns
      <4>1. runsBegun < MaxRuns
        BY <2>1
      <4>2. MaxRuns \in Nat
        BY <1>2
      <4>3. QED
        BY <3>0, <4>1, <4>2
    <3>2. NoFeeds \in [Sources -> 0..MaxRuns]
      BY <3>1 DEF NoFeeds, NoRun
    <3>3. QED
      BY <3>0, <3>1, <3>2, MedallionAssumption
      DEF MedallionAssumption, MedallionInv, LayersTyped, Payloads, NoRun, Seconds
  <2>3. Sources # {}
    <3>1. Feeds[1] \in Sources
      BY <1>2 DEF Sources, ToSet
    <3>2. QED
      BY <3>1
  <2>4. PICK v : /\ v = w /\ v \in Works
                 /\ v.stage = (IF given = {} THEN "read" ELSE "bronze") /\ v.serial = runsBegun + 1
                 /\ v.given = given /\ v.todo = (IF given = {} THEN Sources ELSE given)
                 /\ v.hand = NoFeeds /\ v.status = "running"
                 /\ (v.alone <=> \A r \in Runners : Staged(r, "idle"))
    <3>1. PICK a, st, td, nr : /\ a \in BOOLEAN /\ (a <=> \A r \in Runners : Staged(r, "idle"))
                               /\ a = (\A r \in Runners : Staged(r, "idle"))
                               /\ st = (IF given = {} THEN "read" ELSE "bronze")
                               /\ td = (IF given = {} THEN Sources ELSE given)
                               /\ nr = runsBegun + 1
      OBVIOUS
    <3>2. w = [NoWork EXCEPT !.stage = st, !.serial = nr, !.from = wallSecond, !.given = given,
                 !.todo = td, !.status = "running", !.alone = a]
      BY <3>1
    <3>3. st \in Stages /\ td \in SUBSET Sources /\ nr \in Payloads
      BY <2>2, <3>1 DEF Stages
    <3>4. NoWork \in Works /\ NoWork.hand = NoFeeds
      BY <2>2 DEF NoWork, Works, Stages, Payloads, Seconds, NoRun
    <3> HIDE DEF w
    <3>5. /\ w \in Works /\ w.stage = st /\ w.serial = nr /\ w.given = given /\ w.todo = td
          /\ w.hand = NoFeeds /\ w.status = "running" /\ w.alone = a
      BY <2>2, <3>1, <3>2, <3>3, <3>4 DEF Works
    <3>6. QED
      BY <3>1, <3>5
  <2> HIDE DEF w
  <2>5. \A q \in Runners \ {p} : /\ runner'[q] = [runner[q] EXCEPT !.alone = Staged(q, "idle")]
                                 /\ runner'[q] \in Works
    BY <2>1, <2>2 DEF Works, Staged
  <2>10. ASSUME NEW q \in Runners \ {p}
         PROVE  runner'[q].stage = runner[q].stage /\ (runner'[q].alone <=> Staged(q, "idle"))
    <3>1. PICK b : b \in BOOLEAN /\ b = Staged(q, "idle")
      BY DEF Staged
    <3>2. runner'[q] = [runner[q] EXCEPT !.alone = b] /\ runner[q] \in Works
      BY <2>2, <2>5, <3>1
    <3>3. runner'[q].stage = runner[q].stage /\ runner'[q].alone = b
      BY <3>2 DEF Works
    <3>4. QED
      BY <3>1, <3>3
  <2>6. runner'[p] = v /\ runner' \in [Runners -> Works]
    BY <2>1, <2>4, <2>5
  <2>7. LayersTyped'
    BY <1>1, <1>3, <2>1, <2>2, <2>6 DEF MedallionInv, LayersTyped
  <2>8. ASSUME NEW q \in Runners PROVE WorkAt(runner[q])'
    <3>1. CASE q = p
      <4>1. WorkAt(v)'
        BY <2>2, <2>3, <2>4 DEF WorkAt, NoFeeds
      <4>2. QED
        BY <2>6, <3>1, <4>1 DEF WorkAt
    <3>2. CASE q # p
      <4>1. PICK x \in Works, y \in Works : x = runner[q] /\ y = runner'[q]
        BY <2>2, <2>5, <3>2
      <4>2. y = [x EXCEPT !.alone = Staged(q, "idle")]
        BY <2>5, <3>2, <4>1
      <4>3. WorkAt(x)'
        BY <1>1, <4>1 DEF MedallionInv, WorkAt, Ingested
      <4>4. WorkAt(y)'
        BY <4>1, <4>2, <4>3 DEF WorkAt, Works
      <4>5. QED
        BY <4>1, <4>4 DEF WorkAt
    <3>3. QED
      BY <3>1, <3>2
  <2>9. ASSUME NEW q \in Runners, ~Staged(q, "idle")', runner'[q].alone
        PROVE  /\ \A r \in Runners : r # q => Staged(r, "idle")'
               /\ AloneAt(runner[q])'
    <3>1. q = p
      <4>1. SUFFICES ASSUME q # p PROVE FALSE
        OBVIOUS
      <4>2. runner'[q].stage = runner[q].stage /\ (runner'[q].alone <=> Staged(q, "idle"))
        BY <2>10, <4>1
      <4>3. QED
        BY <2>9, <4>2 DEF Staged
    <3>2. \A r \in Runners : Staged(r, "idle")
      BY <2>4, <2>6, <2>9, <3>1
    <3>3. \A r \in Runners : r # q => Staged(r, "idle")'
      BY <2>10, <3>1, <3>2 DEF Staged
    <3>4. AloneAt(v)'
      BY <2>4 DEF AloneAt, Agrees, NoFeeds
    <3>5. QED
      BY <2>6, <3>1, <3>3, <3>4 DEF AloneAt, Agrees, LatestIs
  <2>11. QED
    BY <1>4, <2>7, <2>8, <2>9 DEF MedallionInv, AloneIsAlone
<1>7. QED
  BY <1>5, <1>6

\* A batch lands: it is the latest of its source.
LEMMA IngestKeeps ==
  ASSUME MedallionInv, NEW p \in Runners, Ingest(p)
  PROVE  MedallionInv'
<1>0. PICK w \in Works : w = runner[p]
  BY DEF MedallionInv, LayersTyped
<1>1. PICK f, n, second : w = runner[p] /\ f = First(w.todo) /\ n = w.serial /\ second = wallSecond
  BY <1>0
<1>2. /\ w.stage = "bronze" /\ bronze' = [bronze EXCEPT ![f][second] = n]
      /\ UNCHANGED <<wallSecond, silver, scoredTasks, dailyDigest, runLog, runsBegun, charged>>
  BY <1>1 DEF Ingest, Staged
<1>3. PICK v : /\ v = IF w.todo = {f} THEN [w EXCEPT !.stage = "read", !.todo = Sources]
                      ELSE [w EXCEPT !.todo = @ \ {f}]
               /\ runner' = [runner EXCEPT ![p] = v]
  BY <1>1 DEF Ingest, Move
<1>4. w.todo \in SUBSET Sources /\ w.todo # {} /\ f \in w.todo /\ f \in Sources /\ n # NoRun /\ n \in Payloads
      /\ second \in Seconds /\ WorkAt(w)
  BY <1>1, <1>2, FirstIsOne DEF MedallionInv, LayersTyped, WorkAt, Works
<1>5. /\ v \in Works /\ v.hand = w.hand /\ v.serial = n /\ v.given = w.given /\ v.status = w.status
      /\ v.alone = w.alone
      /\ \/ w.todo = {f} /\ v.stage = "read" /\ v.todo = Sources
         \/ w.todo # {f} /\ v.stage = "bronze" /\ v.todo = w.todo \ {f}
  BY <1>1, <1>2, <1>3 DEF Works, Stages
<1>6. bronze' \in [Sources -> [Seconds -> Payloads]]
  BY <1>2, <1>4 DEF MedallionInv, LayersTyped
<1>7. \A g \in Sources, s \in Seconds : bronze'[g][s] = IF g = f /\ s = second THEN n ELSE bronze[g][s]
  BY <1>2, <1>4 DEF MedallionInv, LayersTyped
<1>8. \A g \in Sources : Ingested(g) => Ingested(g)'
  BY <1>4, <1>7 DEF Ingested
<1>9. LayersGrounded'
  <2>1. \A g \in Sources, s \in Seconds : bronze'[g][s] # NoRun => s <= wallSecond'
    BY <1>1, <1>2, <1>4, <1>7 DEF MedallionInv, LayersGrounded, Seconds
  <2>2. QED
    BY <1>2, <1>8, <2>1 DEF MedallionInv, LayersGrounded
<1>10. LayersTyped'
  BY <1>2, <1>3, <1>5, <1>6 DEF MedallionInv, LayersTyped
<1>11. WorkAt(v)'
  BY <1>2, <1>4, <1>5, <1>8 DEF WorkAt
<1>12. ASSUME v.alone PROVE AloneAt(v)'
  <2>1. AloneAt(w)
    BY <1>1, <1>2, <1>5, <1>12 DEF MedallionInv, AloneIsAlone, Staged
  <2>2. LatestIs(f, n)'
    BY <1>1, <1>4, <1>7 DEF LatestIs, MedallionInv, LayersGrounded, Seconds
  <2>3. \A g \in Sources : g # f /\ LatestIs(g, n) => LatestIs(g, n)'
    BY <1>7 DEF LatestIs
  <2>4. w.given \subseteq Sources /\ w.todo \subseteq w.given /\ \A g \in w.given \ w.todo : LatestIs(g, n)
    BY <1>1, <1>2, <2>1 DEF AloneAt, Works
  <2>5. \A g \in (w.given \ w.todo) \cup {f} : LatestIs(g, n)'
    BY <2>2, <2>3, <2>4
  <2>6. \A g \in Sources : w.hand[g] = NoRun
    BY <1>2, <2>1 DEF AloneAt
  <2>7. w.status # "completed"
    BY <1>2, <1>4 DEF WorkAt
  <2>8. CASE w.todo = {f} /\ v.stage = "read" /\ v.todo = Sources
    BY <1>5, <2>4, <2>5, <2>6, <2>7, <2>8 DEF AloneAt, Agrees
  <2>9. CASE w.todo # {f} /\ v.stage = "bronze" /\ v.todo = w.todo \ {f}
    BY <1>5, <2>4, <2>5, <2>6, <2>7, <2>9 DEF AloneAt, Agrees
  <2>10. QED
    BY <1>5, <2>8, <2>9
<1>13. ~Staged(p, "idle")
  BY <1>1, <1>2 DEF Staged
<1>14. QED
  BY <1>1, <1>3, <1>5, <1>8, <1>9, <1>10, <1>11, <1>12, <1>13, RunnerMoves

\* A run goes on with its next source, or with gold.
LEMMA OnwardIs ==
  ASSUME NEW w \in Works, NEW f, f = First(w.todo)
  PROVE  /\ Onward(w) \in Works
         /\ Onward(w).todo = w.todo \ {f}
         /\ Onward(w).hand = w.hand /\ Onward(w).serial = w.serial /\ Onward(w).given = w.given
         /\ Onward(w).status = w.status /\ Onward(w).alone = w.alone
         /\ Onward(w).stage = IF w.todo \ {f} = {} THEN "score" ELSE "read"
<1>1. PICK rest, st : rest = w.todo \ {f} /\ st = IF rest = {} THEN "score" ELSE "read"
  OBVIOUS
<1>2. Onward(w) = [w EXCEPT !.todo = rest, !.stage = st]
  BY <1>1 DEF Onward
<1>3. st \in Stages /\ rest \in SUBSET Sources
  BY <1>1 DEF Stages, Works
<1>4. QED
  BY <1>1, <1>2, <1>3 DEF Works

\* What was read is the latest batch, the run's own if it was given one; where there
\* is none, silver has none either.
LEMMA ReadBronzeKeeps ==
  ASSUME MedallionInv, NEW p \in Runners, ReadBronze(p)
  PROVE  MedallionInv'
<1>0. PICK w \in Works : w = runner[p]
  BY DEF MedallionInv, LayersTyped
<1>1. PICK f, got : w = runner[p] /\ f = First(w.todo) /\ got = ReadLatest(f)
  BY <1>0
<1>2. PICK v : v = (IF got = NoRun THEN Onward(w) ELSE [w EXCEPT !.hand[f] = got, !.stage = "clean"])
  OBVIOUS
<1>3. /\ w.stage = "read" /\ runner' = [runner EXCEPT ![p] = v]
      /\ UNCHANGED <<wallSecond, bronze, silver, scoredTasks, dailyDigest, runLog, runsBegun, charged>>
  BY <1>1, <1>2 DEF ReadBronze, Staged, Move, layers
<1>4. WorkAt(w) /\ (w.alone => AloneAt(w)) /\ ~Staged(p, "idle")
  BY <1>1, <1>3, AtWorkIs DEF Staged
<1>5. /\ w.todo \in SUBSET Sources /\ w.given \in SUBSET Sources /\ w.todo # {} /\ f \in w.todo /\ f \in Sources
      /\ w.serial # NoRun /\ w.serial \in Payloads /\ w.status # "completed" /\ w.hand \in [Sources -> Payloads]
  BY <1>1, <1>3, <1>4, FirstIsOne DEF WorkAt, Works
<1>6. /\ got \in Payloads /\ (got # NoRun <=> Ingested(f))
      /\ LatestIs(f, w.serial) => got = w.serial
  BY <1>1, <1>5, LatestRead DEF MedallionInv
<1>7. \A g \in Sources : Ingested(g) <=> Ingested(g)'
  BY <1>3 DEF Ingested
<1>8. \A g \in Sources, n \in Payloads : LatestIs(g, n) <=> LatestIs(g, n)'
  BY <1>3 DEF LatestIs
<1>9. LayersGrounded'
  BY <1>3, <1>7 DEF MedallionInv, LayersGrounded
<1>10. CASE got = NoRun
  <2>1. /\ v \in Works /\ v.todo = w.todo \ {f} /\ v.hand = w.hand /\ v.serial = w.serial /\ v.given = w.given
        /\ v.status = w.status /\ v.alone = w.alone
        /\ v.stage = IF w.todo \ {f} = {} THEN "score" ELSE "read"
    BY <1>1, <1>2, <1>10, OnwardIs
  <2>2. LayersTyped'
    BY <1>3, <2>1 DEF MedallionInv, LayersTyped
  <2>3. WorkAt(v)'
    BY <1>4, <1>5, <1>7, <2>1 DEF WorkAt
  <2>4. ASSUME w.alone PROVE AloneAt(v)'
    <3>1. AloneAt(w)
      BY <1>4, <2>4
    <3>2. silver[f] = NoRun /\ f \notin w.given
      BY <1>5, <1>6, <1>10, <3>1, <1>3, LatestIngested DEF AloneAt, MedallionInv, LayersGrounded
    <3>3. \A g \in w.todo : w.hand[g] = NoRun
      BY <1>3, <1>5, <3>1 DEF AloneAt
    <3>4. Agrees(w, (Sources \ w.todo) \cup {f})
      BY <1>3, <1>5, <3>1, <3>2, <3>3 DEF AloneAt, Agrees
    <3>5. Agrees(v, Sources \ v.todo)'
      BY <1>3, <1>5, <2>1, <3>4 DEF Agrees
    <3>6. \A g \in v.given : LatestIs(g, v.serial)'
      BY <1>3, <1>5, <1>8, <2>1, <3>1 DEF AloneAt
    <3>7. v.stage = "score" => Agrees(v, Sources)'
      BY <2>1, <3>5
    <3>8. v.status # "completed" /\ v.stage \in {"score", "read"} /\ \A g \in v.todo : v.hand[g] = NoRun
      BY <1>5, <2>1, <3>3
    <3>9. QED
      BY <3>5, <3>6, <3>7, <3>8 DEF AloneAt
  <2>5. QED
    BY <1>1, <1>3, <1>4, <1>7, <1>9, <2>1, <2>2, <2>3, <2>4, RunnerMoves
<1>11. CASE got # NoRun
  <2>1. v = [w EXCEPT !.hand = [w.hand EXCEPT ![f] = got], !.stage = "clean"]
    BY <1>2, <1>11
  <2>2. /\ v \in Works /\ v.todo = w.todo /\ v.hand = [w.hand EXCEPT ![f] = got] /\ v.serial = w.serial
        /\ v.given = w.given /\ v.status = w.status /\ v.alone = w.alone /\ v.stage = "clean"
    BY <1>5, <1>6, <2>1 DEF Works, Stages
  <2>3. \A g \in Sources : v.hand[g] = IF g = f THEN got ELSE w.hand[g]
    BY <1>5, <2>2
  <2>4. LayersTyped'
    BY <1>3, <2>2 DEF MedallionInv, LayersTyped
  <2>5. WorkAt(v)'
    BY <1>4, <1>5, <1>6, <1>7, <1>11, <2>2, <2>3 DEF WorkAt
  <2>6. ASSUME w.alone PROVE AloneAt(v)'
    <3>1. AloneAt(w)
      BY <1>4, <2>6
    <3>2. \A g \in w.todo : w.hand[g] = NoRun
      BY <1>3, <1>5, <3>1 DEF AloneAt
    <3>3. Agrees(w, Sources \ w.todo) /\ \A g \in w.given : LatestIs(g, w.serial)
      BY <1>3, <3>1 DEF AloneAt
    <3>4. Agrees(v, Sources \ v.todo)'
      BY <1>3, <1>5, <2>2, <2>3, <3>3 DEF Agrees
    <3>5. \A g \in v.given : LatestIs(g, v.serial)'
      BY <1>5, <1>8, <2>2, <3>3
    <3>6. /\ \A g \in v.todo \ {First(v.todo)} : v.hand[g] = NoRun
          /\ First(v.todo) \in v.given => v.hand[First(v.todo)] = v.serial
      BY <1>1, <1>5, <1>6, <2>2, <2>3, <3>2, <3>3
    <3>7. v.status # "completed" /\ v.stage = "clean"
      BY <1>5, <2>2
    <3>8. First(v.todo)' = First(v.todo)
      BY DEF First
    <3>9. QED
      BY <3>4, <3>5, <3>6, <3>7, <3>8 DEF AloneAt
  <2>7. QED
    BY <1>1, <1>3, <1>4, <1>7, <1>9, <2>2, <2>4, <2>5, <2>6, RunnerMoves
<1>12. QED
  BY <1>10, <1>11

\* Silver then holds what the run has at hand of one source more.
LEMMA WriteSilverKeeps ==
  ASSUME MedallionInv, NEW p \in Runners, WriteSilver(p)
  PROVE  MedallionInv'
<1>0. PICK w \in Works : w = runner[p]
  BY DEF MedallionInv, LayersTyped
<1>1. PICK f, v : w = runner[p] /\ f = First(w.todo) /\ v = Onward(w)
  BY <1>0
<1>2. PICK got : got = w.hand[f]
  OBVIOUS
<1>3. /\ w.stage = "clean" /\ runner' = [runner EXCEPT ![p] = v] /\ silver' = [silver EXCEPT ![f] = got]
      /\ UNCHANGED <<wallSecond, bronze, scoredTasks, dailyDigest, runLog, runsBegun, charged>>
  BY <1>1, <1>2 DEF WriteSilver, Staged, Move
<1>4. WorkAt(w) /\ (w.alone => AloneAt(w)) /\ ~Staged(p, "idle")
  BY <1>1, <1>3, AtWorkIs DEF Staged
<1>5. /\ w.todo \in SUBSET Sources /\ w.given \in SUBSET Sources /\ w.todo # {} /\ f \in w.todo /\ f \in Sources
      /\ w.serial # NoRun /\ w.serial \in Payloads /\ w.status # "completed" /\ w.hand \in [Sources -> Payloads]
  BY <1>1, <1>3, <1>4, FirstIsOne DEF WorkAt, Works
<1>6. /\ v \in Works /\ v.todo = w.todo \ {f} /\ v.hand = w.hand /\ v.serial = w.serial /\ v.given = w.given
      /\ v.status = w.status /\ v.alone = w.alone
      /\ v.stage = IF w.todo \ {f} = {} THEN "score" ELSE "read"
  BY <1>1, OnwardIs
<1>7. \A g \in Sources : Ingested(g) <=> Ingested(g)'
  BY <1>3 DEF Ingested
<1>8. \A g \in Sources, n \in Payloads : LatestIs(g, n) <=> LatestIs(g, n)'
  BY <1>3 DEF LatestIs
<1>9. /\ silver' \in [Sources -> Payloads]
      /\ \A g \in Sources : silver'[g] = IF g = f THEN got ELSE silver[g]
  BY <1>2, <1>3, <1>5 DEF MedallionInv, LayersTyped
<1>10. LayersGrounded'
  BY <1>2, <1>3, <1>4, <1>5, <1>7, <1>9 DEF MedallionInv, LayersGrounded, WorkAt
<1>11. LayersTyped'
  BY <1>3, <1>6, <1>9 DEF MedallionInv, LayersTyped
<1>12. WorkAt(v)'
  BY <1>4, <1>5, <1>6, <1>7 DEF WorkAt
<1>13. ASSUME w.alone PROVE AloneAt(v)'
  <2>1. AloneAt(w)
    BY <1>4, <1>13
  <2>2. \A g \in w.todo \ {f} : w.hand[g] = NoRun
    BY <1>1, <1>3, <2>1 DEF AloneAt
  <2>3. f \in w.given => got = w.serial
    BY <1>1, <1>2, <1>3, <2>1 DEF AloneAt
  <2>4. Agrees(w, Sources \ w.todo) /\ \A g \in w.given : LatestIs(g, w.serial)
    BY <1>3, <2>1 DEF AloneAt
  <2>5. Agrees(v, Sources \ v.todo)'
    BY <1>2, <1>5, <1>6, <1>9, <2>3, <2>4 DEF Agrees
  <2>6. \A g \in v.given : LatestIs(g, v.serial)'
    BY <1>5, <1>6, <1>8, <2>4
  <2>7. v.stage = "score" => Agrees(v, Sources)'
    BY <1>6, <2>5
  <2>8. v.status # "completed" /\ v.stage \in {"score", "read"} /\ \A g \in v.todo : v.hand[g] = NoRun
    BY <1>5, <1>6, <2>2
  <2>9. QED
    BY <2>5, <2>6, <2>7, <2>8 DEF AloneAt
<1>14. QED
  BY <1>1, <1>3, <1>4, <1>6, <1>7, <1>10, <1>11, <1>12, <1>13, RunnerMoves

\* The stages that leave bronze and silver alone.
LEMMA GoldStageKeeps ==
  ASSUME MedallionInv, NEW p \in Runners,
         WriteScores(p) \/ WriteDigest(p) \/ StageFails(p) \/ Persist(p) \/ Perish(p)
  PROVE  MedallionInv'
<1>1. PICK w \in Works : w = runner[p]
  BY DEF MedallionInv, LayersTyped
<1>2. ~Staged(p, "idle")
  BY DEF WriteScores, WriteDigest, StageFails, Persist, Perish, Staged
<1>3. WorkAt(w) /\ (w.alone => AloneAt(w))
  BY <1>1, <1>2, AtWorkIs
<1>4. UNCHANGED <<wallSecond, bronze, silver, runsBegun>>
  BY DEF WriteScores, WriteDigest, StageFails, Persist, Perish, layers
<1>5. (\A g \in Sources : Ingested(g) <=> Ingested(g)') /\ LayersGrounded'
  BY <1>4 DEF Ingested, MedallionInv, LayersGrounded
<1>6. w.hand \in [Sources -> Payloads] /\ "todoist" \in Sources /\ NoRun \in Payloads
  <2>1. Feeds[1] = "todoist" /\ Feeds[1] \in {Feeds[i] : i \in DOMAIN Feeds} /\ MaxRuns \in Nat
    BY MedallionAssumption DEF MedallionAssumption
  <2>2. QED
    BY <2>1 DEF Works, Sources, ToSet, Payloads, NoRun
<1>7. CASE WriteScores(p)
  <2>1. PICK v : v = [w EXCEPT !.stage = "digest"]
    OBVIOUS
  <2>2. /\ w.stage = "score" /\ runner' = [runner EXCEPT ![p] = v] /\ scoredTasks' = w.hand["todoist"]
        /\ UNCHANGED <<wallSecond, bronze, silver, dailyDigest, runLog, runsBegun, charged>>
    BY <1>1, <1>7, <2>1 DEF WriteScores, Staged, Move
  <2>3. /\ v \in Works /\ v.stage = "digest" /\ v.todo = w.todo /\ v.hand = w.hand /\ v.serial = w.serial
        /\ v.given = w.given /\ v.status = w.status /\ v.alone = w.alone
    BY <2>1 DEF Works, Stages
  <2>4. LayersTyped'
    BY <1>6, <2>2, <2>3 DEF MedallionInv, LayersTyped
  <2>5. WorkAt(v)'
    BY <1>3, <1>5, <2>2, <2>3 DEF WorkAt
  <2>6. w.alone => AloneAt(v)'
    BY <1>3, <2>2, <2>3 DEF AloneAt, Agrees
  <2>7. QED
    BY <1>1, <1>2, <1>5, <2>2, <2>3, <2>4, <2>5, <2>6, RunnerMoves
<1>8. CASE WriteDigest(p)
  <2>1. PICK v : v = [w EXCEPT !.stage = "persist", !.status = "completed"]
    OBVIOUS
  <2>2. /\ w.stage = "digest" /\ runner' = [runner EXCEPT ![p] = v] /\ dailyDigest' = w.hand
        /\ UNCHANGED <<wallSecond, bronze, silver, scoredTasks, runLog, runsBegun, charged>>
    BY <1>1, <1>8, <2>1 DEF WriteDigest, Staged, Move
  <2>3. /\ v \in Works /\ v.stage = "persist" /\ v.todo = w.todo /\ v.hand = w.hand /\ v.serial = w.serial
        /\ v.given = w.given /\ v.status = "completed" /\ v.alone = w.alone
    BY <2>1 DEF Works, Stages
  <2>4. LayersTyped'
    BY <1>6, <2>2, <2>3 DEF MedallionInv, LayersTyped
  <2>5. WorkAt(v)'
    BY <1>3, <1>5, <2>2, <2>3 DEF WorkAt
  <2>6. w.alone => AloneAt(v)'
    BY <1>3, <2>2, <2>3 DEF AloneAt, Agrees
  <2>7. QED
    BY <1>1, <1>2, <1>5, <2>2, <2>3, <2>4, <2>5, <2>6, RunnerMoves
<1>9. CASE StageFails(p)
  <2>1. PICK v : v = [w EXCEPT !.stage = "persist", !.status = "failed"]
    OBVIOUS
  <2>2. /\ runner' = [runner EXCEPT ![p] = v] /\ UNCHANGED <<layers, runLog, charged>>
    BY <1>1, <1>9, <2>1 DEF StageFails, Move
  <2>3. /\ v \in Works /\ v.stage = "persist" /\ v.hand = w.hand /\ v.serial = w.serial
        /\ v.status = "failed" /\ v.alone = w.alone
    BY <2>1 DEF Works, Stages
  <2>4. LayersTyped'
    BY <1>4, <2>2, <2>3 DEF MedallionInv, LayersTyped, layers
  <2>5. WorkAt(v)'
    BY <1>1, <1>2, <1>3, <1>5, <2>3 DEF WorkAt, Staged
  <2>6. AloneAt(v)'
    BY <2>3 DEF AloneAt
  <2>7. QED
    BY <1>1, <1>2, <1>5, <2>2, <2>3, <2>4, <2>5, <2>6, RunnerMoves
<1>10. CASE Persist(p) \/ Perish(p)
  <2>1. PICK v : v = NoWork
    OBVIOUS
  <2>2. /\ runner' = [runner EXCEPT ![p] = v] /\ UNCHANGED layers
        /\ runLog' \in [Seconds -> {"none", "completed", "failed"}] /\ charged' \in [Routes -> 0..RunQuota]
    <3>1. runLog \in [Seconds -> {"none", "completed", "failed"}] /\ charged \in [Routes -> 0..RunQuota]
          /\ 0 \in 0..RunQuota
      BY MedallionAssumption DEF MedallionAssumption, MedallionInv, LayersTyped
    <3>2. CASE Persist(p)
      <4>1. w.status \in {"completed", "failed"}
        BY <1>1, <1>3, <3>2 DEF WorkAt, Persist, Staged
      <4>2. QED
        BY <1>1, <2>1, <3>1, <3>2, <4>1 DEF Persist, Move
    <3>3. CASE Perish(p)
      BY <2>1, <3>1, <3>3 DEF Perish, Move
    <3>4. QED
      BY <1>10, <3>2, <3>3
  <2>3. v \in Works /\ v.stage = "idle" /\ v.hand = NoFeeds /\ v.status = "pending"
    <3>1. NoFeeds \in [Sources -> Payloads] /\ 0 \in Seconds
      BY <1>6, MedallionAssumption DEF MedallionAssumption, NoFeeds, Seconds
    <3>2. QED
      BY <1>6, <2>1, <3>1 DEF NoWork, Works, Stages
  <2>4. LayersTyped'
    BY <1>4, <2>2, <2>3 DEF MedallionInv, LayersTyped, layers
  <2>5. WorkAt(v)'
    BY <2>3 DEF WorkAt, NoFeeds
  <2>6. QED
    BY <1>1, <1>2, <1>5, <2>2, <2>3, <2>4, <2>5, RunnerMoves
<1>11. QED
  BY <1>7, <1>8, <1>9, <1>10

\* A second goes by.
LEMMA NextSecondKeeps ==
  ASSUME MedallionInv, NextSecond
  PROVE  MedallionInv'
<1>1. /\ wallSecond \in 0..LastSecond /\ wallSecond < LastSecond /\ wallSecond' = wallSecond + 1
      /\ UNCHANGED <<bronze, silver, scoredTasks, dailyDigest, runLog, runsBegun, charged, runner>>
  BY DEF NextSecond, layers, MedallionInv, LayersTyped, Seconds
<1>2. wallSecond' \in Seconds /\ \A s \in Seconds : s <= wallSecond => s <= wallSecond'
  BY <1>1, MedallionAssumption DEF MedallionAssumption, Seconds
<1>3. LayersTyped'
  BY <1>1, <1>2 DEF MedallionInv, LayersTyped
<1>4. (\A f \in Sources : Ingested(f) <=> Ingested(f)') /\ LayersGrounded'
  BY <1>1, <1>2 DEF MedallionInv, LayersGrounded, Ingested
<1>5. ASSUME NEW p \in Runners PROVE WorkAt(runner[p])'
  BY <1>1, <1>4 DEF MedallionInv, WorkAt
<1>6. AloneIsAlone'
  <2>1. SUFFICES ASSUME NEW p \in Runners, ~Staged(p, "idle"), runner[p].alone
                 PROVE  (\A q \in Runners : q # p => Staged(q, "idle")) /\ AloneAt(runner[p])'
    BY <1>1 DEF AloneIsAlone, Staged
  <2>2. \A q \in Runners : q # p => Staged(q, "idle")
    BY <2>1 DEF MedallionInv, AloneIsAlone
  <2>3. PICK w : w = runner[p]
    OBVIOUS
  <2>4. AloneAt(w)
    BY <2>1, <2>3 DEF MedallionInv, AloneIsAlone
  <2>5. AloneAt(w)'
    BY <1>1, <2>4 DEF AloneAt, Agrees, LatestIs
  <2>6. QED
    BY <1>1, <2>2, <2>3, <2>5 DEF AloneAt, Agrees, LatestIs
<1>7. QED
  BY <1>3, <1>4, <1>5, <1>6 DEF MedallionInv

\* Every step keeps the invariant.
LEMMA MedallionInvStep == MedallionInv /\ [MedallionNext]_medallionVars => MedallionInv'
<1> SUFFICES ASSUME MedallionInv, [MedallionNext]_medallionVars PROVE MedallionInv'
  OBVIOUS
<1>1. CASE NextSecond
  BY <1>1, NextSecondKeeps
<1>2. ASSUME NEW p \in Runners, NEW given \in SUBSET Sources, Trigger(p, given) PROVE MedallionInv'
  BY <1>2, TriggerKeeps
<1>3. ASSUME NEW p \in Runners,
             \/ Ingest(p) \/ ReadBronze(p) \/ WriteSilver(p) \/ WriteScores(p) \/ WriteDigest(p)
             \/ StageFails(p) \/ Persist(p) \/ Perish(p)
      PROVE MedallionInv'
  BY <1>3, IngestKeeps, ReadBronzeKeeps, WriteSilverKeeps, GoldStageKeeps
<1>4. CASE UNCHANGED medallionVars
  BY <1>4
  DEF medallionVars, MedallionInv, LayersTyped, LayersGrounded, WorkAt, AloneIsAlone, AloneAt, Agrees,
      LatestIs, Ingested, Staged
<1>5. QED
  BY <1>1, <1>2, <1>3, <1>4 DEF MedallionNext

\* A run no other run overlapped and that ends "completed" leaves scored tasks, a
\* digest and silver that agree, and what it was given went all the way.
THEOREM LoneRunAlwaysCoherent == MedallionSpec => []LoneRunIsCoherent
<1>1. MedallionInv => LoneRunIsCoherent
  <2> SUFFICES ASSUME MedallionInv, NEW p \in Runners, runner[p].status = "completed", runner[p].alone
      PROVE /\ \A f \in runner[p].given : dailyDigest[f] = runner[p].serial
            /\ scoredTasks = dailyDigest["todoist"]
            /\ \A f \in Sources : dailyDigest[f] = silver[f]
    BY DEF LoneRunIsCoherent
  <2>1. runner[p] \in Works /\ WorkAt(runner[p])
    BY AtWorkIs
  <2>2. ~Staged(p, "idle")
    BY <2>1 DEF WorkAt, Staged
  <2>3. AloneAt(runner[p])
    BY <2>2, AtWorkIs
  <2>4. dailyDigest = runner[p].hand /\ scoredTasks = runner[p].hand["todoist"] /\ Agrees(runner[p], Sources)
    BY <2>3 DEF AloneAt
  <2>5. QED
    BY <2>1, <2>4 DEF Agrees, Works
<1>2. QED
  BY <1>1, MedallionInvInit, MedallionInvStep, PTL DEF MedallionSpec

------------------------------------------------------------------------------
(***************************************************************************)
(* brain/engine/processor.py: any tenants, records, places of a batch and  *)
(* numbers of batches.                                                     *)
(***************************************************************************)

Versioned == Versions \cup {NoVersion}

SqlSteps ==
  {[do |-> "none"]} \cup [do : {"silver"}, tenant : SqlTenants]
    \cup [do : {"gold"}, tenant : SqlTenants, scored : [RecordIds -> Versioned]]

\* The silver row of each record is what the deduplication may leave of it.
SilverFollows(t) ==
  \A r \in RecordIds :
    IF Ranked(bronzeRows[t][r]) = {} THEN silverRows[t][r] = NoVersion
    ELSE silverRows[t][r] \in Ranked(bronzeRows[t][r])

SqlInv ==
  /\ bronzeRows \in [SqlTenants -> [RecordIds -> SUBSET Versions]]
  /\ silverRows \in [SqlTenants -> [RecordIds -> Versioned]]
  /\ batches \in 0..MaxBatches
  /\ step \in SqlSteps
  /\ fresh \subseteq SqlTenants
  /\ \A t \in fresh : SilverFollows(t)

\* Among batches there is a newest.
LEMMA NewestBatch ==
  ASSUME NEW rows \in SUBSET Versions, rows # {}
  PROVE  Newest(rows) # {}
<1> DEFINE ages == {MaxBatches - v[1] : v \in rows}
<1>1. MaxBatches \in Nat /\ \A v \in rows : v[1] \in Nat /\ v[1] >= 1 /\ MaxBatches - v[1] \in Nat
  BY SqlAssumption DEF SqlAssumption, Versions
<1>2. ages \subseteq Nat /\ ages # {}
  BY <1>1
<1>3. PICK low \in ages : \A x \in ages : ~(<<x, low>> \in OpToRel(<, Nat))
  BY <1>2, WFMin, NatLessThanWellFounded
<1>4. PICK v \in rows : low = MaxBatches - v[1]
  BY <1>3
<1>5. ASSUME NEW w \in rows PROVE v[1] >= w[1]
  <2>1. MaxBatches - w[1] \in ages
    OBVIOUS
  <2>2. ~(MaxBatches - w[1] < MaxBatches - v[1])
    BY <1>1, <1>3, <1>4, <2>1 DEF OpToRel
  <2>3. QED
    BY <1>1, <2>2
<1>6. QED
  BY <1>5 DEF Newest

\* What follows from a row that follows its batches.
LEMMA FollowsIsLatest ==
  ASSUME SqlInv, NEW t \in fresh, NEW r \in RecordIds
  PROVE  LET full == {v \in bronzeRows[t][r] : v[2] # Blank}
         IN /\ silverRows[t][r] = NoVersion <=> full = {}
            /\ full # {} => silverRows[t][r] \in full /\ silverRows[t][r][1] = Max({v[1] : v \in full})
<1> DEFINE full == {v \in bronzeRows[t][r] : v[2] # Blank}
           s == silverRows[t][r]
<1>1. full \in SUBSET Versions /\ t \in SqlTenants
  BY DEF SqlInv
<1>2. NoVersion \notin full /\ Ranked(bronzeRows[t][r]) = Newest(full)
  BY <1>1 DEF Versions, NoVersion, Ranked
<1>3. IF Newest(full) = {} THEN s = NoVersion ELSE s \in Newest(full)
  BY <1>2 DEF SqlInv, SilverFollows
<1>4. full = {} => s = NoVersion
  BY <1>3 DEF Newest
<1>5. ASSUME full # {} PROVE s \in full /\ s[1] = Max({v[1] : v \in full})
  <2>1. s \in full /\ \A w \in full : s[1] >= w[1]
    BY <1>1, <1>3, <1>5, NewestBatch DEF Newest
  <2>2. \A v \in full : v[1] \in Nat
    BY <1>1 DEF Versions
  <2>3. ASSUME NEW x \in {v[1] : v \in full}, \A y \in {v[1] : v \in full} : x >= y
        PROVE  x = s[1]
    <3>1. PICK v \in full : x = v[1]
      OBVIOUS
    <3>2. s[1] >= v[1] /\ v[1] \in Nat /\ s[1] \in Nat
      BY <2>1, <2>2
    <3>3. x >= s[1]
      BY <2>1, <2>3
    <3>4. QED
      BY <3>1, <3>2, <3>3
  <2>4. s[1] \in {v[1] : v \in full} /\ \A y \in {v[1] : v \in full} : s[1] >= y
    BY <2>1
  <2>5. QED
    BY <2>1, <2>3, <2>4 DEF Max
<1>6. QED
  BY <1>2, <1>4, <1>5

\* There are no rows at first.
LEMMA SqlInvInit == SqlInit => SqlInv
BY SqlAssumption DEF SqlInit, SqlInv, NoRecords, Versioned, SqlSteps, SqlAssumption

\* Each statement keeps the silver rows of the fresh tenants.
LEMMA SqlInvStep ==
  ASSUME SqlInv, [SqlNext]_sqlVars
  PROVE  SqlInv'
<1>1. CASE UNCHANGED sqlVars
  BY <1>1 DEF sqlVars, SqlInv, SilverFollows
<1>2. ASSUME NEW t \in SqlTenants, NEW records \in [RecordIds -> SUBSET Places], BronzeIngest(t, records)
      PROVE  SqlInv'
  <2>1. /\ batches < MaxBatches /\ batches' = batches + 1 /\ fresh' = fresh \ {t}
        /\ bronzeRows' = [bronzeRows EXCEPT ![t] =
             [r \in RecordIds |-> bronzeRows[t][r] \cup {<<batches + 1, p>> : p \in records[r]}]]
        /\ UNCHANGED <<silverRows, step>>
    BY <1>2 DEF BronzeIngest
  <2>2. batches + 1 \in 1..MaxBatches /\ batches' \in 0..MaxBatches
    BY <2>1, SqlAssumption DEF SqlInv, SqlAssumption
  <2>3. [r \in RecordIds |-> bronzeRows[t][r] \cup {<<batches + 1, p>> : p \in records[r]}]
          \in [RecordIds -> SUBSET Versions]
    BY <2>2 DEF SqlInv, Versions
  <2>4. bronzeRows' \in [SqlTenants -> [RecordIds -> SUBSET Versions]]
    BY <2>1, <2>3 DEF SqlInv
  <2>5. ASSUME NEW u \in fresh' PROVE SilverFollows(u)'
    BY <2>1, <2>5 DEF SqlInv, SilverFollows
  <2>6. QED
    BY <2>1, <2>2, <2>4, <2>5 DEF SqlInv
<1>3. ASSUME NEW t \in SqlTenants, SilverDelete(t) PROVE SqlInv'
  <2>1. /\ silverRows' = [silverRows EXCEPT ![t] = NoRecords] /\ fresh' = fresh \ {t}
        /\ step' = [do |-> "silver", tenant |-> t]
        /\ UNCHANGED <<bronzeRows, batches>>
    BY <1>3 DEF SilverDelete
  <2>2. NoRecords \in [RecordIds -> Versioned] /\ step' \in SqlSteps
    BY <2>1 DEF NoRecords, Versioned, SqlSteps
  <2>3. \A u \in fresh' : SilverFollows(u)'
    BY <2>1 DEF SqlInv, SilverFollows
  <2>4. QED
    BY <2>1, <2>2, <2>3 DEF SqlInv
<1>4. ASSUME NEW t \in SqlTenants, GoldDelete(t) PROVE SqlInv'
  <2>1. /\ step' = [do |-> "gold", tenant |-> t, scored |-> silverRows[t]]
        /\ UNCHANGED <<bronzeRows, silverRows, batches, fresh>>
    BY <1>4 DEF GoldDelete
  <2>2. step' \in SqlSteps
    BY <2>1 DEF SqlInv, SqlSteps
  <2>3. QED
    BY <2>1, <2>2 DEF SqlInv, SilverFollows
<1>5. CASE SilverInsert
  <2>1. PICK u, f : /\ u = step.tenant /\ f \in Deduplicated(u)
                    /\ silverRows' = [silverRows EXCEPT ![u] = f]
                    /\ fresh' = fresh \cup {u} /\ step' = [do |-> "none"]
                    /\ UNCHANGED <<bronzeRows, batches>>
                    /\ step.do = "silver"
    BY <1>5 DEF SilverInsert
  <2>2. u \in SqlTenants
    BY <2>1 DEF SqlInv, SqlSteps
  <2>3. f \in [RecordIds -> Versioned]
    BY <2>1 DEF Deduplicated, Versioned
  <2>4. ASSUME NEW t \in fresh' PROVE SilverFollows(t)'
    <3>1. CASE t = u
      BY <2>1, <2>2, <2>3, <3>1 DEF SqlInv, SilverFollows, Deduplicated
    <3>2. CASE t # u
      BY <2>1, <2>2, <3>2 DEF SqlInv, SilverFollows
    <3>3. QED
      BY <3>1, <3>2
  <2>5. step' \in SqlSteps
    BY <2>1 DEF SqlSteps
  <2>6. QED
    BY <2>1, <2>2, <2>3, <2>4, <2>5 DEF SqlInv
<1>6. CASE GoldInsert \/ Interrupted
  <2>1. step' = [do |-> "none"] /\ UNCHANGED <<bronzeRows, silverRows, batches, fresh>>
    BY <1>6 DEF GoldInsert, Interrupted
  <2>2. step' \in SqlSteps
    BY <2>1 DEF SqlSteps
  <2>3. QED
    BY <2>1, <2>2 DEF SqlInv, SilverFollows
<1>7. QED
  BY <1>1, <1>2, <1>3, <1>4, <1>5, <1>6 DEF SqlNext

\* Comment of silver_transform, "keep latest record per task ID per tenant": once a
\* tenant's transform has run, however many were interrupted between the DELETE and
\* the INSERT, each record that ever had content has one row, its latest with
\* content, until the tenant's next batch.
THEOREM SilverAlwaysLatest == SqlSpec => []SilverIsLatest
<1>1. SqlInv => SilverIsLatest
  BY FollowsIsLatest DEF SilverIsLatest
<1>2. QED
  BY <1>1, SqlInvInit, SqlInvStep, PTL DEF SqlSpec

------------------------------------------------------------------------------
(***************************************************************************)
(* The synchronisation of Todoist with Notion: any tasks, texts and pages. *)
(***************************************************************************)

Databases == {"planner", "board"}
SyncPhases == {"idle", "planner", "query planner", "write planner", "board", "query board", "write board",
               "push", "create", "link"}
SomeExtra == Extras \cup {NoExtra}
Tasks == [section : {"planner", "other", Nowhere}, text : Texts \cup {Nowhere}, extra : SomeExtra]
NotionPages == [db : Databases \cup {Nowhere}, tid : TodoIds \cup {NoId}, text : Texts \cup {Nowhere},
                extra : SomeExtra, done : BOOLEAN]
Syncs == [phase : SyncPhases, tasks : [TodoIds -> Tasks], found : SUBSET (TodoIds \X PageIds),
          left : SUBSET (TodoIds \cup PageIds), stale : SUBSET PageIds, pushed : TodoIds \cup {NoId},
          clean : BOOLEAN]

\* What a sync goes through: tasks while it writes a database, items while it
\* creates tasks.
LeftAt(r) ==
  /\ r.phase \in {"write planner", "write board"} => r.left \subseteq TodoIds
  /\ r.phase \in {"create", "link"} => r.left \subseteq PageIds
  /\ r.phase = "link" => r.left # {} /\ r.pushed \in TodoIds

NotionShapes ==
  /\ todoist \in [TodoIds -> Tasks]
  /\ page \in [PageIds -> NotionPages]
  /\ syncer \in [Syncers -> Syncs]
  /\ overlapped \in BOOLEAN
  /\ \A s \in Syncers : LeftAt(syncer[s])

\* Only one process is at work.
OneSyncs == \A s \in Syncers, q \in Syncers : s # q => In(s, "idle") \/ In(q, "idle")

\* No database has two items of a task; the board's all have one.
ItemsAreOne ==
  /\ \A p, q \in PageIds : page[p].db = page[q].db /\ page[p].tid = page[q].tid /\ page[p].tid # NoId => p = q
  /\ \A p \in PageIds : page[p].db = "board" => page[p].tid # NoId

\* What was found is still there, and every item of a task still to write was found.
FoundAt(r, db) ==
  /\ \A t \in TodoIds, p \in PageIds : <<t, p>> \in r.found => page[p].db = db /\ page[p].tid = t
  /\ \A p \in PageIds : page[p].db = db /\ page[p].tid \in r.left => <<page[p].tid, p>> \in r.found

\* The board shows a task, with its text and the extra it has.
Shown(t) ==
  \E p \in PageIds : /\ page[p].db = "board" /\ page[p].tid = t /\ page[p].text = todoist[t].text /\ ~page[p].done
                     /\ todoist[t].extra # NoExtra => page[p].extra = todoist[t].extra

\* The board mirrors the tasks but for those left to write and the items left to mark.
Mirrored(left, stale) ==
  /\ \A t \in left : todoist[t] # NoTask
  /\ \A t \in TodoIds : todoist[t] # NoTask /\ t \notin left => Shown(t)
  /\ \A p \in PageIds : page[p].db = "board" /\ ~page[p].done => p \in stale \/ todoist[page[p].tid] # NoTask
  /\ \A p \in stale : page[p].db = "board" /\ todoist[page[p].tid] = NoTask

SyncAt(r) ==
  /\ r.phase = "write planner" => FoundAt(r, "planner")
  /\ r.phase = "write board" => FoundAt(r, "board")
  /\ r.phase \in {"create", "link"} => \A p \in r.left : page[p].db = "planner"
  /\ r.phase = "link" => \A p \in PageIds : page[p].tid # r.pushed
  /\ r.clean /\ r.phase \in {"query board", "write board"} => r.tasks = todoist
  /\ r.clean /\ r.phase = "write board" => Mirrored(r.left, r.stale)
  /\ r.clean /\ r.phase = "push" => Mirrored({}, {})

NotionInv ==
  /\ NotionShapes
  /\ ~overlapped => OneSyncs /\ ItemsAreOne /\ \A s \in Syncers : SyncAt(syncer[s])

\* What there is before the first sync.
LEMMA RestIsSync == AtRest \in Syncs /\ NoTask \in Tasks /\ NoPage \in NotionPages
BY DEF AtRest, NoTask, NoPage, Syncs, SyncPhases, Tasks, NotionPages, SomeExtra

\* A task the user words has its texts and extras.
LEMMA TasksInAre ==
  ASSUME NEW c \in {"planner", "other"}, NEW w \in Wordings
  PROVE  /\ w.text \in Texts /\ w.extra \in SomeExtra
         /\ TaskIn(c, w) \in [section : {"planner", "other"}, text : Texts, extra : SomeExtra]
         /\ TaskIn(c, w) \in Tasks
BY NotionSyncAssumption DEF NotionSyncAssumption, TaskIn, Tasks, SomeExtra

\* There is nothing to mirror at first.
LEMMA NotionInvInit == NotionInit => NotionInv
<1> SUFFICES ASSUME NotionInit PROVE NotionInv
  OBVIOUS
<1>1. \A x \in {NoTask} \cup {TaskIn("planner", w) : w \in Wordings} : x \in Tasks
  BY RestIsSync, TasksInAre
<1>2. NotionShapes
  BY <1>1, RestIsSync DEF NotionInit, NotionShapes, LeftAt, AtRest
<1>3. OneSyncs /\ ItemsAreOne /\ \A s \in Syncers : SyncAt(syncer[s])
  BY DEF NotionInit, OneSyncs, ItemsAreOne, SyncAt, In, AtRest, NoPage, Nowhere
<1>4. QED
  BY <1>2, <1>3 DEF NotionInv

\* What is known of a process at work.
\* What does not change is known as before.
LEMMA StandsAsItWas ==
  ASSUME NEW r, UNCHANGED <<todoist, page>>
  PROVE  (ItemsAreOne => ItemsAreOne') /\ (SyncAt(r) => SyncAt(r)')
<1>1. ItemsAreOne => ItemsAreOne'
  BY DEF ItemsAreOne
<1>2. \A db : FoundAt(r, db) => FoundAt(r, db)'
  BY DEF FoundAt
<1>3. \A left, stale : Mirrored(left, stale) => Mirrored(left, stale)'
  BY DEF Mirrored, Shown
<1>4. SyncAt(r) => SyncAt(r)'
  BY <1>2, <1>3 DEF SyncAt
<1>5. QED
  BY <1>1, <1>4

\* A sync is at a place the invariant describes.
LEMMA SyncIs ==
  ASSUME NotionInv, NEW s \in Syncers
  PROVE  /\ syncer[s] \in Syncs /\ LeftAt(syncer[s])
         /\ ~overlapped => SyncAt(syncer[s]) /\ ItemsAreOne
BY DEF NotionInv, NotionShapes

\* A process at work moves; the others have nothing to keep.
LEMMA SyncMoves ==
  ASSUME NotionInv, NEW s \in Syncers, NEW v \in Syncs, ~In(s, "idle"),
         syncer' = [syncer EXCEPT ![s] = v], overlapped' = overlapped,
         todoist' \in [TodoIds -> Tasks], page' \in [PageIds -> NotionPages], LeftAt(v),
         ~overlapped => ItemsAreOne' /\ SyncAt(v)'
  PROVE  NotionInv'
<1>1. \A q \in Syncers : syncer'[q] = IF q = s THEN v ELSE syncer[q]
  BY DEF NotionInv, NotionShapes
<1>2. NotionShapes'
  BY <1>1 DEF NotionInv, NotionShapes
<1>3. ASSUME ~overlapped PROVE OneSyncs' /\ \A q \in Syncers : SyncAt(syncer[q])'
  <2>1. \A q \in Syncers : q # s => syncer'[q] = syncer[q] /\ syncer[q].phase = "idle"
    BY <1>1, <1>3 DEF NotionInv, OneSyncs, In
  <2>2. OneSyncs'
    BY <2>1 DEF OneSyncs, In
  <2>3. ASSUME NEW q \in Syncers PROVE SyncAt(syncer[q])'
    <3>1. CASE q = s
      <4>1. syncer'[q] = v
        BY <1>1, <3>1
      <4>2. SyncAt(v)'
        BY <1>3
      <4>3. QED
        BY <4>1, <4>2 DEF SyncAt, FoundAt
    <3>2. CASE q # s
      BY <2>1, <3>2 DEF SyncAt
    <3>3. QED
      BY <3>1, <3>2
  <2>4. QED
    BY <2>2, <2>3
<1>4. QED
  BY <1>2, <1>3 DEF NotionInv

\* The servers are as they were.
LEMMA SyncOnlyMoves ==
  ASSUME NotionInv, NEW s \in Syncers, NEW v \in Syncs, ~In(s, "idle"),
         syncer' = [syncer EXCEPT ![s] = v], UNCHANGED <<todoist, page, overlapped>>,
         LeftAt(v), ~overlapped => SyncAt(v)
  PROVE  NotionInv'
<1>1. todoist' \in [TodoIds -> Tasks] /\ page' \in [PageIds -> NotionPages]
  BY DEF NotionInv, NotionShapes
<1>2. ~overlapped => ItemsAreOne' /\ SyncAt(v)'
  BY StandsAsItWas DEF NotionInv
<1>3. QED
  BY <1>1, <1>2, SyncMoves

\* A request was done, or not, and the process knows or not.
LEMMA AskMeans ==
  ASSUME NEW s, NEW done, NEW after \in Syncs, Ask(s, done, after)
  PROVE  \E v \in Syncs :
           /\ syncer' = [syncer EXCEPT ![s] = v] /\ page' \in {done, page}
           /\ v.phase = after.phase /\ v.tasks = after.tasks /\ v.found = after.found /\ v.left = after.left
           /\ v.stale = after.stale /\ v.pushed = after.pushed
           /\ v.clean => after.clean /\ page' = done
<1>1. CASE page' = done /\ Set(s, after)
  BY <1>1 DEF Set
<1>2. CASE page' \in {done, page} /\ Set(s, [after EXCEPT !.clean = FALSE])
  <2>1. PICK v : v = [after EXCEPT !.clean = FALSE]
    OBVIOUS
  <2>2. /\ v \in Syncs /\ ~v.clean
        /\ v.phase = after.phase /\ v.tasks = after.tasks /\ v.found = after.found /\ v.left = after.left
        /\ v.stale = after.stale /\ v.pushed = after.pushed
    BY <2>1 DEF Syncs
  <2>3. QED
    BY <1>2, <2>1, <2>2 DEF Set
<1>3. QED
  BY <1>1, <1>2 DEF Ask

\* A sync begins by reading the tasks of Todoist.
LEMMA StartSyncKeeps ==
  ASSUME NotionInv, NEW s \in Syncers, StartSync(s)
  PROVE  NotionInv'
<1>1. PICK v : v = [AtRest EXCEPT !.phase = "planner"]
  OBVIOUS
<1>2. v \in Syncs /\ v.phase = "planner"
  BY <1>1, RestIsSync DEF Syncs, SyncPhases
<1>3. /\ syncer' = [syncer EXCEPT ![s] = v] /\ UNCHANGED <<todoist, page>>
      /\ overlapped' = (overlapped \/ \E r \in Syncers \ {s} : ~In(r, "idle"))
  BY <1>1 DEF StartSync, Set, servers
<1>4. \A q \in Syncers : syncer'[q] = IF q = s THEN v ELSE syncer[q]
  BY <1>3 DEF NotionInv, NotionShapes
<1>5. NotionShapes'
  <2>1. overlapped' \in BOOLEAN
    BY <1>3 DEF NotionInv, NotionShapes
  <2>2. QED
    BY <1>2, <1>3, <1>4, <2>1 DEF NotionInv, NotionShapes, LeftAt
<1>6. ASSUME ~overlapped' PROVE OneSyncs' /\ ItemsAreOne' /\ \A q \in Syncers : SyncAt(syncer[q])'
  <2>1. ~overlapped /\ \A q \in Syncers : q # s => syncer[q].phase = "idle"
    BY <1>3, <1>6 DEF In
  <2>2. OneSyncs'
    BY <1>4, <2>1 DEF OneSyncs, In
  <2>3. ItemsAreOne'
    BY <1>3, <2>1 DEF NotionInv, ItemsAreOne
  <2>4. \A q \in Syncers : syncer'[q].phase \in {"idle", "planner"}
    BY <1>2, <1>4, <2>1
  <2>5. QED
    BY <2>2, <2>3, <2>4 DEF SyncAt
<1>7. QED
  BY <1>5, <1>6 DEF NotionInv

\* The board's tasks are all there are.
LEMMA FetchTasksKeeps ==
  ASSUME NotionInv, NEW s \in Syncers, FetchTasks(s)
  PROVE  NotionInv'
<1>1. PICK r \in Syncs : r = syncer[s] /\ (~overlapped => SyncAt(r))
  BY SyncIs
<1>2. PICK db, wanted :
        /\ db = r.phase
        /\ wanted = {t \in TodoIds : todoist[t] # NoTask /\ (db = "planner" => todoist[t].section = "planner")}
  OBVIOUS
<1>3. PICK ph, got : /\ ph = (IF db = "planner" THEN "query planner" ELSE "query board")
                     /\ got = [t \in TodoIds |-> IF t \in wanted THEN todoist[t] ELSE NoTask]
  OBVIOUS
<1>4. PICK v : v = [r EXCEPT !.phase = ph, !.tasks = got]
  OBVIOUS
<1>5. db \in Databases /\ syncer' = [syncer EXCEPT ![s] = v] /\ UNCHANGED <<todoist, page, overlapped>>
  BY <1>1, <1>2, <1>3, <1>4 DEF FetchTasks, Set, servers, Databases
<1>6. todoist \in [TodoIds -> Tasks] /\ got \in [TodoIds -> Tasks]
  BY <1>3, RestIsSync DEF NotionInv, NotionShapes
<1>7. v \in Syncs /\ v.phase = ph /\ v.tasks = got /\ v.clean = r.clean /\ ph \in {"query planner", "query board"}
  BY <1>3, <1>4, <1>6 DEF Syncs, SyncPhases
<1>8. ph = "query board" => got = todoist
  <2>1. SUFFICES ASSUME ph = "query board" PROVE got = todoist
    OBVIOUS
  <2>2. wanted = {t \in TodoIds : todoist[t] # NoTask}
    BY <1>2, <1>3, <2>1
  <2>3. \A t \in TodoIds : got[t] = todoist[t]
    BY <1>3, <2>2
  <2>4. QED
    BY <1>6, <2>3
<1>9. LeftAt(v) /\ SyncAt(v)
  BY <1>7, <1>8 DEF LeftAt, SyncAt
<1>10. QED
  BY <1>1, <1>2, <1>5, <1>7, <1>9, SyncOnlyMoves DEF In, Databases

\* The items of the database are those found; those of the board whose task is gone
\* are to be marked.
LEMMA QueryDatabaseKeeps ==
  ASSUME NotionInv, NEW s \in Syncers, QueryDatabase(s)
  PROVE  NotionInv'
<1>1. PICK r \in Syncs : r = syncer[s] /\ (~overlapped => SyncAt(r) /\ ItemsAreOne)
  BY SyncIs
<1>2. PICK db, got : db = (IF r.phase = "query planner" THEN "planner" ELSE "board") /\ got = Fetched(s)
  OBVIOUS
<1>3. PICK ph, fd, st :
        /\ ph = (IF db = "planner" THEN "write planner" ELSE "write board")
        /\ fd = Existing(db) /\ st = Stale(db, got)
  OBVIOUS
<1>4. /\ UNCHANGED <<todoist, page, overlapped>> /\ r.phase \in {"query planner", "query board"}
      /\ \/ syncer' = [syncer EXCEPT ![s] = [r EXCEPT !.phase = "board"]]
         \/ syncer' = [syncer EXCEPT ![s] = [r EXCEPT !.phase = ph, !.found = fd, !.left = got, !.stale = st]]
  BY <1>1, <1>2, <1>3 DEF QueryDatabase, Set, servers
<1>5. ~In(s, "idle")
  BY <1>1, <1>4 DEF In
<1>6. CASE syncer' = [syncer EXCEPT ![s] = [r EXCEPT !.phase = "board"]]
  <2>1. PICK v : v = [r EXCEPT !.phase = "board"]
    OBVIOUS
  <2>2. v \in Syncs /\ v.phase = "board"
    BY <2>1 DEF Syncs, SyncPhases
  <2>3. LeftAt(v) /\ SyncAt(v)
    BY <2>2 DEF LeftAt, SyncAt
  <2>4. QED
    BY <1>4, <1>5, <1>6, <2>1, <2>2, <2>3, SyncOnlyMoves
<1>7. CASE syncer' = [syncer EXCEPT ![s] = [r EXCEPT !.phase = ph, !.found = fd, !.left = got, !.stale = st]]
  <2>1. PICK v : v = [r EXCEPT !.phase = ph, !.found = fd, !.left = got, !.stale = st]
    OBVIOUS
  <2>2. got \subseteq TodoIds /\ got = {t \in TodoIds : r.tasks[t] # NoTask}
    BY <1>1, <1>2 DEF Fetched
  <2>3. page \in [PageIds -> NotionPages] /\ todoist \in [TodoIds -> Tasks]
    BY DEF NotionInv, NotionShapes
  <2>4. \A p \in PageIds : page[p].tid # NoId => page[p].tid \in TodoIds
    BY <2>3 DEF NotionPages
  <2>5. \A x : x \in fd <=> \E p \in PageIds : x = <<page[p].tid, p>> /\ page[p].db = db /\ page[p].tid # NoId
    BY <1>3 DEF Existing, Items
  <2>6. fd \in SUBSET (TodoIds \X PageIds)
    BY <2>4, <2>5
  <2>7. \A p :
          p \in st <=> db = "board" /\ p \in PageIds /\ page[p].db = db /\ page[p].tid # NoId /\ page[p].tid \notin got
    <3>1. CASE db = "board"
      <4>1. st = {e[2] : e \in {x \in Existing(db) : x[1] \notin got}}
        BY <1>3, <3>1 DEF Stale
      <4>2. \A p : p \in st <=> \E e \in fd : p = e[2] /\ e[1] \notin got
        BY <1>3, <4>1
      <4>3. \A e \in fd : \E q \in PageIds : /\ e[1] = page[q].tid /\ e[2] = q
                                            /\ page[q].db = db /\ page[q].tid # NoId
        BY <2>5
      <4>4. \A q \in PageIds : page[q].db = db /\ page[q].tid # NoId =>
              \E e \in fd : e[1] = page[q].tid /\ e[2] = q
        <5>1. ASSUME NEW q \in PageIds, page[q].db = db, page[q].tid # NoId
              PROVE  \E e \in fd : e[1] = page[q].tid /\ e[2] = q
          <6>1. PICK e : e = <<page[q].tid, q>>
            OBVIOUS
          <6>2. e \in fd /\ e[1] = page[q].tid /\ e[2] = q
            BY <2>5, <5>1, <6>1
          <6>3. QED
            BY <6>2
        <5>2. QED
          BY <5>1
      <4>5. \A p \in st : p \in PageIds /\ page[p].db = db /\ page[p].tid # NoId /\ page[p].tid \notin got
        BY <4>2, <4>3
      <4>6. \A p \in PageIds : page[p].db = db /\ page[p].tid # NoId /\ page[p].tid \notin got => p \in st
        BY <4>2, <4>4
      <4>7. QED
        BY <3>1, <4>5, <4>6
    <3>2. CASE db # "board"
      BY <1>3, <3>2 DEF Stale
    <3>3. QED
      BY <3>1, <3>2
  <2>8. /\ v \in Syncs /\ v.phase = ph /\ v.found = fd /\ v.left = got /\ v.stale = st
        /\ v.tasks = r.tasks /\ v.clean = r.clean /\ ph \in {"write planner", "write board"}
    <3>1. st \in SUBSET PageIds /\ got \in SUBSET (TodoIds \cup PageIds) /\ ph \in SyncPhases
          /\ ph \in {"write planner", "write board"}
      BY <1>3, <2>2, <2>7 DEF SyncPhases
    <3>2. QED
      BY <2>1, <2>6, <3>1 DEF Syncs
  <2>9. FoundAt(v, db)
    <3>1. \A t \in TodoIds, p \in PageIds : <<t, p>> \in fd => page[p].db = db /\ page[p].tid = t
      BY <2>5
    <3>2. \A p \in PageIds : page[p].db = db /\ page[p].tid \in got => <<page[p].tid, p>> \in fd
      BY <2>2, <2>5, NotionSyncAssumption DEF NotionSyncAssumption
    <3>3. QED
      BY <2>8, <3>1, <3>2 DEF FoundAt
  <2>10. ASSUME ~overlapped, v.clean, v.phase = "write board"
         PROVE  v.tasks = todoist /\ Mirrored(v.left, v.stale)
    <3>1. db = "board" /\ r.phase = "query board"
      BY <1>2, <1>3, <1>4, <2>8, <2>10
    <3>2. r.tasks = todoist
      BY <1>1, <2>8, <2>10, <3>1 DEF SyncAt
    <3>3. got = {t \in TodoIds : todoist[t] # NoTask}
      BY <2>2, <3>2
    <3>4. \A p \in PageIds : page[p].db = "board" => page[p].tid \in TodoIds /\ page[p].tid # NoId
      BY <1>1, <2>4, <2>10 DEF ItemsAreOne
    <3>5. QED
      BY <2>7, <2>8, <3>1, <3>2, <3>3, <3>4 DEF Mirrored
  <2>11. LeftAt(v) /\ (~overlapped => SyncAt(v))
    <3>1. (ph = "write planner" => db = "planner") /\ (ph = "write board" => db = "board")
      BY <1>2, <1>3
    <3>2. QED
      BY <2>2, <2>8, <2>9, <2>10, <3>1 DEF LeftAt, SyncAt
  <2>12. QED
    BY <1>4, <1>5, <1>7, <2>1, <2>8, <2>11, SyncOnlyMoves
<1>8. QED
  BY <1>4, <1>6, <1>7

\* The item of a task gets its text: the one that was found, or a new one when there
\* is none.
LEMMA WriteTaskKeeps ==
  ASSUME NotionInv, NEW s \in Syncers, WriteTask(s)
  PROVE  NotionInv'
<1>1. PICK r \in Syncs : r = syncer[s] /\ LeftAt(r) /\ (~overlapped => SyncAt(r) /\ ItemsAreOne)
  BY SyncIs
<1>2. PICK db, t : db = (IF r.phase = "write planner" THEN "planner" ELSE "board") /\ t = CHOOSE x \in r.left : TRUE
  OBVIOUS
<1>3. PICK own : own = {e[2] : e \in {x \in r.found : x[1] = t}}
  OBVIOUS
<1>4. /\ r.phase \in {"write planner", "write board"} /\ r.left # {} /\ UNCHANGED <<todoist, overlapped>>
      /\ \E p \in IF own # {} THEN own ELSE NewPage :
           Ask(s, [page EXCEPT ![p] = Properties(db, t, r.tasks[t], page[p])], [r EXCEPT !.left = r.left \ {t}])
  BY <1>1, <1>2, <1>3 DEF WriteTask
<1>p. PICK p \in (IF own # {} THEN own ELSE NewPage) :
        Ask(s, [page EXCEPT ![p] = Properties(db, t, r.tasks[t], page[p])], [r EXCEPT !.left = r.left \ {t}])
  BY <1>4
<1>n. PICK new : new = Properties(db, t, r.tasks[t], page[p])
  OBVIOUS
<1>5. p \in (IF own # {} THEN own ELSE NewPage) /\ Ask(s, [page EXCEPT ![p] = new], [r EXCEPT !.left = r.left \ {t}])
  BY <1>p, <1>n
<1>6. t \in r.left /\ t \in TodoIds /\ r.left \subseteq TodoIds /\ t # NoId
  BY <1>1, <1>2, <1>4, NotionSyncAssumption DEF LeftAt, NotionSyncAssumption
<1>7. PICK after, d : after = [r EXCEPT !.left = r.left \ {t}] /\ d = [page EXCEPT ![p] = new]
  OBVIOUS
<1>8. /\ after \in Syncs /\ after.left = r.left \ {t} /\ after.phase = r.phase /\ after.tasks = r.tasks
      /\ after.found = r.found /\ after.stale = r.stale /\ after.clean = r.clean
  BY <1>7 DEF Syncs
<1>9. PICK v \in Syncs :
        /\ syncer' = [syncer EXCEPT ![s] = v] /\ page' \in {d, page}
        /\ v.phase = r.phase /\ v.tasks = r.tasks /\ v.found = r.found /\ v.left = r.left \ {t} /\ v.stale = r.stale
        /\ v.clean => r.clean /\ page' = d
  <2>1. Ask(s, d, after)
    BY <1>5, <1>7
  <2>2. QED
    BY <1>8, <2>1, AskMeans
<1>10. p \in PageIds /\ page \in [PageIds -> NotionPages]
       /\ (<<t, p>> \in r.found \/ (page[p] = NoPage /\ \A q \in PageIds : <<t, q>> \notin r.found))
  <2>1. page \in [PageIds -> NotionPages] /\ r.found \subseteq TodoIds \X PageIds
    BY DEF NotionInv, NotionShapes, Syncs
  <2>2. \A q : q \in own <=> <<t, q>> \in r.found
    BY <1>3, <2>1
  <2>3. CASE own # {}
    BY <1>5, <2>1, <2>2, <2>3
  <2>4. CASE own = {}
    BY <1>5, <2>1, <2>2, <2>4 DEF NewPage
  <2>5. QED
    BY <2>3, <2>4
<1>11. /\ new \in NotionPages /\ new.db = db /\ new.tid = t /\ new.text = r.tasks[t].text /\ ~new.done
       /\ r.tasks[t].extra # NoExtra => new.extra = r.tasks[t].extra
  <2>1. r.tasks[t] \in Tasks
    BY <1>6 DEF Syncs
  <2>2. db \in Databases \cup {Nowhere}
    BY <1>2 DEF Databases
  <2>3. page[p].extra \in SomeExtra
    BY <1>10 DEF NotionPages
  <2>4. QED
    BY <1>n, <1>6, <2>1, <2>2, <2>3 DEF Properties, Tasks, NotionPages
<1>12. d \in [PageIds -> NotionPages] /\ \A q \in PageIds : d[q] = IF q = p THEN new ELSE page[q]
  BY <1>7, <1>10, <1>11
<1>13. page' \in [PageIds -> NotionPages] /\ todoist' \in [TodoIds -> Tasks]
  BY <1>4, <1>9, <1>10, <1>12 DEF NotionInv, NotionShapes
<1>14. LeftAt(v)
  BY <1>4, <1>6, <1>9 DEF LeftAt
<1>15. ASSUME ~overlapped PROVE ItemsAreOne' /\ SyncAt(v)'
  <2>1. FoundAt(r, db) /\ ItemsAreOne
    BY <1>1, <1>2, <1>4, <1>15 DEF SyncAt
  <2>2. page[p] = NoPage \/ (page[p].db = db /\ page[p].tid = t)
    BY <1>6, <1>10, <2>1 DEF FoundAt
  <2>3. ASSUME NEW q \in PageIds, page[q].db = db, page[q].tid = t PROVE q = p
    <3>1. <<t, q>> \in r.found
      BY <1>6, <2>1, <2>3 DEF FoundAt
    <3>2. page[p].db = db /\ page[p].tid = t
      BY <1>6, <1>10, <2>1, <3>1 DEF FoundAt
    <3>3. QED
      BY <1>6, <1>10, <2>1, <2>3, <3>2 DEF ItemsAreOne
  <2>4. ItemsAreOne'
    <3>1. CASE page' = page
      BY <2>1, <3>1 DEF ItemsAreOne
    <3>2. CASE page' = d
      <4>1. ASSUME NEW a \in PageIds, NEW b \in PageIds, d[a].db = d[b].db, d[a].tid = d[b].tid, d[a].tid # NoId
            PROVE  a = b
        BY <1>11, <1>12, <2>1, <2>3, <4>1 DEF ItemsAreOne
      <4>2. \A a \in PageIds : d[a].db = "board" => d[a].tid # NoId
        BY <1>6, <1>11, <1>12, <2>1 DEF ItemsAreOne
      <4>3. QED
        BY <3>2, <4>1, <4>2 DEF ItemsAreOne
    <3>3. QED
      BY <1>9, <3>1, <3>2
  <2>5. FoundAt(v, db)'
    <3>1. CASE page' = page
      BY <1>9, <2>1, <3>1 DEF FoundAt
    <3>2. CASE page' = d
      <4>1. ASSUME NEW x \in TodoIds, NEW q \in PageIds, <<x, q>> \in r.found PROVE d[q].db = db /\ d[q].tid = x
        <5>1. page[q].db = db /\ page[q].tid = x
          BY <2>1, <4>1 DEF FoundAt
        <5>2. CASE q = p
          <6>1. page[p] # NoPage
            <7>1. db \in {"planner", "board"} /\ page[p].db = db
              BY <1>2, <5>1, <5>2
            <7>2. NoPage.db = "nowhere"
              BY DEF NoPage, Nowhere
            <7>3. QED
              BY <7>1, <7>2
          <6>2. QED
            BY <1>11, <1>12, <2>2, <5>1, <5>2, <6>1
        <5>3. CASE q # p
          BY <1>12, <5>1, <5>3
        <5>4. QED
          BY <5>2, <5>3
      <4>2. ASSUME NEW q \in PageIds, d[q].db = db, d[q].tid \in r.left \ {t} PROVE <<d[q].tid, q>> \in r.found
        BY <1>11, <1>12, <2>1, <4>2 DEF FoundAt
      <4>3. QED
        BY <1>9, <3>2, <4>1, <4>2 DEF FoundAt
    <3>3. QED
      BY <1>9, <3>1, <3>2
  <2>6. ASSUME v.clean, v.phase = "write board" PROVE v.tasks = todoist /\ Mirrored(v.left, v.stale)'
    <3>1. r.clean /\ page' = d /\ r.tasks = todoist /\ Mirrored(r.left, r.stale) /\ db = "board" /\ todoist' = todoist
      BY <1>1, <1>2, <1>4, <1>9, <1>15, <2>6 DEF SyncAt
    <3>2. \A q \in PageIds : q # p => d[q] = page[q]
      BY <1>12
    <3>3. d[p] = new /\ new.text = todoist[t].text /\ (todoist[t].extra # NoExtra => new.extra = todoist[t].extra)
      BY <1>10, <1>11, <1>12, <3>1
    <3>4. ASSUME NEW x \in TodoIds, todoist[x] # NoTask, x \notin v.left
          PROVE  \E q \in PageIds : /\ d[q].db = "board" /\ d[q].tid = x
                                    /\ d[q].text = todoist[x].text /\ ~d[q].done
                                    /\ todoist[x].extra # NoExtra => d[q].extra = todoist[x].extra
      <4>1. CASE x = t
        BY <1>10, <1>11, <3>1, <3>3, <4>1
      <4>2. CASE x # t
        <5>s. Shown(x)
          BY <1>9, <3>1, <3>4, <4>2 DEF Mirrored
        <5>1. PICK q \in PageIds : /\ page[q].db = "board" /\ page[q].tid = x
                                   /\ page[q].text = todoist[x].text /\ ~page[q].done
                                   /\ todoist[x].extra # NoExtra => page[q].extra = todoist[x].extra
          BY <5>s DEF Shown
        <5>2. q # p
          BY <2>2, <4>2, <5>1 DEF NoPage, Nowhere
        <5>3. QED
          BY <3>2, <5>1, <5>2
      <4>3. QED
        BY <4>1, <4>2
    <3>5. todoist[t] # NoTask
      BY <1>6, <3>1 DEF Mirrored
    <3>6. \A q \in PageIds : d[q].db = "board" /\ ~d[q].done => q \in v.stale \/ todoist[d[q].tid] # NoTask
      BY <1>9, <1>11, <3>1, <3>2, <3>3, <3>5 DEF Mirrored
    <3>7. ASSUME NEW q \in v.stale PROVE d[q].db = "board" /\ todoist[d[q].tid] = NoTask
      <4>1. page[q].db = "board" /\ todoist[page[q].tid] = NoTask /\ q \in PageIds
        BY <1>9, <3>1 DEF Mirrored, Syncs
      <4>2. q # p
        BY <2>2, <3>5, <4>1 DEF NoPage, Nowhere
      <4>3. QED
        BY <3>2, <4>1, <4>2
    <3>8. \A x \in v.left : todoist[x] # NoTask
      BY <1>9, <3>1 DEF Mirrored
    <3>9. ASSUME NEW x \in TodoIds, todoist'[x] # NoTask, x \notin v.left PROVE Shown(x)'
      BY <3>1, <3>4, <3>9 DEF Shown
    <3>10. /\ \A x \in v.left : todoist'[x] # NoTask
           /\ \A q \in PageIds : page'[q].db = "board" /\ ~page'[q].done => q \in v.stale \/ todoist'[page'[q].tid] # NoTask
           /\ \A q \in v.stale : page'[q].db = "board" /\ todoist'[page'[q].tid] = NoTask
      BY <3>1, <3>6, <3>7, <3>8
    <3>11. Mirrored(v.left, v.stale)'
      BY <3>9, <3>10 DEF Mirrored
    <3>12. QED
      BY <1>9, <3>1, <3>11
  <2>7. QED
    BY <1>2, <1>4, <1>9, <2>4, <2>5, <2>6 DEF SyncAt
<1>16. ~In(s, "idle")
  BY <1>1, <1>4 DEF In
<1>17. QED
  BY <1>4, <1>9, <1>13, <1>14, <1>15, <1>16, SyncMoves

\* An item whose task is gone is marked, and nothing else changes.
LEMMA MarkStaleKeeps ==
  ASSUME NotionInv, NEW s \in Syncers, MarkStale(s)
  PROVE  NotionInv'
<1>1. PICK r \in Syncs : r = syncer[s] /\ LeftAt(r) /\ (~overlapped => SyncAt(r) /\ ItemsAreOne)
  BY SyncIs
<1>2. PICK p : p = CHOOSE x \in r.stale : TRUE
  OBVIOUS
<1>3. PICK after, d : after = [r EXCEPT !.stale = r.stale \ {p}] /\ d = [page EXCEPT ![p].done = TRUE]
  OBVIOUS
<1>4. /\ r.phase = "write board" /\ r.left = {} /\ r.stale # {} /\ UNCHANGED <<todoist, overlapped>>
      /\ Ask(s, d, after)
  BY <1>1, <1>2, <1>3 DEF MarkStale, In
<1>5. p \in r.stale /\ p \in PageIds
  BY <1>2, <1>4 DEF Syncs
<1>6. /\ after \in Syncs /\ after.stale = r.stale \ {p} /\ after.phase = r.phase /\ after.tasks = r.tasks
      /\ after.found = r.found /\ after.left = r.left /\ after.clean = r.clean
  BY <1>3 DEF Syncs
<1>7. PICK v \in Syncs :
        /\ syncer' = [syncer EXCEPT ![s] = v] /\ page' \in {d, page}
        /\ v.phase = r.phase /\ v.tasks = r.tasks /\ v.found = r.found /\ v.left = r.left /\ v.stale = r.stale \ {p}
        /\ v.clean => r.clean /\ page' = d
  <2>1. Ask(s, d, after)
    BY <1>4
  <2>2. PICK v \in Syncs :
          /\ syncer' = [syncer EXCEPT ![s] = v] /\ page' \in {d, page}
          /\ v.phase = after.phase /\ v.tasks = after.tasks /\ v.found = after.found /\ v.left = after.left
          /\ v.stale = after.stale /\ (v.clean => after.clean /\ page' = d)
    BY <1>6, <2>1, AskMeans
  <2>3. QED
    BY <1>6, <2>2
<1>8. /\ d \in [PageIds -> NotionPages]
      /\ \A q \in PageIds : /\ d[q].db = page[q].db /\ d[q].tid = page[q].tid /\ d[q].text = page[q].text
                            /\ d[q].extra = page[q].extra
                            /\ q # p => d[q].done = page[q].done
      /\ d[p].done
  <2>1. page \in [PageIds -> NotionPages]
    BY DEF NotionInv, NotionShapes
  <2>2. PICK x \in NotionPages : x = [page[p] EXCEPT !.done = TRUE]
    BY <1>5, <2>1 DEF NotionPages
  <2>3. x.db = page[p].db /\ x.tid = page[p].tid /\ x.text = page[p].text /\ x.extra = page[p].extra /\ x.done
    BY <1>5, <2>1, <2>2 DEF NotionPages
  <2>4. d = [page EXCEPT ![p] = x]
    BY <1>3, <2>2
  <2>5. QED
    BY <1>5, <2>1, <2>3, <2>4
<1>9. page' \in [PageIds -> NotionPages] /\ todoist' \in [TodoIds -> Tasks]
  BY <1>4, <1>7, <1>8 DEF NotionInv, NotionShapes
<1>10. LeftAt(v)
  BY <1>4, <1>7 DEF LeftAt
<1>11. \A q \in PageIds : page'[q].db = page[q].db /\ page'[q].tid = page[q].tid
  BY <1>7, <1>8
<1>12. ASSUME ~overlapped PROVE ItemsAreOne' /\ SyncAt(v)'
  <2>1. ItemsAreOne'
    BY <1>1, <1>11, <1>12 DEF ItemsAreOne
  <2>2. FoundAt(v, "board")'
    <3>1. FoundAt(r, "board")
      BY <1>1, <1>4, <1>12 DEF SyncAt
    <3>2. QED
      BY <1>7, <1>11, <3>1 DEF FoundAt
  <2>3. ASSUME v.clean PROVE v.tasks = todoist /\ Mirrored(v.left, v.stale)'
    <3>1. page' = d /\ r.tasks = todoist /\ Mirrored(r.left, r.stale) /\ todoist' = todoist
      BY <1>1, <1>4, <1>7, <1>12, <2>3 DEF SyncAt
    <3>2. todoist[page[p].tid] = NoTask
      BY <1>5, <3>1 DEF Mirrored
    <3>3. ASSUME NEW x \in TodoIds, todoist[x] # NoTask, x \notin v.left
          PROVE  \E q \in PageIds : /\ d[q].db = "board" /\ d[q].tid = x
                                    /\ d[q].text = todoist[x].text /\ ~d[q].done
                                    /\ todoist[x].extra # NoExtra => d[q].extra = todoist[x].extra
      <4>s. Shown(x)
        BY <1>7, <3>1, <3>3 DEF Mirrored
      <4>1. PICK q \in PageIds : /\ page[q].db = "board" /\ page[q].tid = x
                                 /\ page[q].text = todoist[x].text /\ ~page[q].done
                                 /\ todoist[x].extra # NoExtra => page[q].extra = todoist[x].extra
        BY <4>s DEF Shown
      <4>2. q # p
        BY <3>2, <3>3, <4>1
      <4>3. QED
        BY <1>8, <4>1, <4>2
    <3>4. \A q \in PageIds : d[q].db = "board" /\ ~d[q].done => q \in v.stale \/ todoist[d[q].tid] # NoTask
      BY <1>5, <1>7, <1>8, <3>1 DEF Mirrored
    <3>5. \A q \in v.stale : d[q].db = "board" /\ todoist[d[q].tid] = NoTask
      BY <1>7, <1>8, <3>1 DEF Mirrored, Syncs
    <3>6. \A x \in v.left : todoist[x] # NoTask
      BY <1>7, <3>1 DEF Mirrored
    <3>7. ASSUME NEW x \in TodoIds, todoist'[x] # NoTask, x \notin v.left PROVE Shown(x)'
      BY <3>1, <3>3, <3>7 DEF Shown
    <3>8. /\ \A x \in v.left : todoist'[x] # NoTask
          /\ \A q \in PageIds : page'[q].db = "board" /\ ~page'[q].done => q \in v.stale \/ todoist'[page'[q].tid] # NoTask
          /\ \A q \in v.stale : page'[q].db = "board" /\ todoist'[page'[q].tid] = NoTask
      BY <3>1, <3>4, <3>5, <3>6
    <3>9. Mirrored(v.left, v.stale)'
      BY <3>7, <3>8 DEF Mirrored
    <3>10. QED
      BY <1>7, <3>1, <3>9
  <2>4. QED
    BY <1>4, <1>7, <2>1, <2>2, <2>3 DEF SyncAt
<1>13. ~In(s, "idle")
  BY <1>1, <1>4 DEF In
<1>14. QED
  BY <1>4, <1>7, <1>9, <1>10, <1>12, <1>13, SyncMoves

\* A database is done, a read fails, a process ends or dies: the servers stand.
LEMMA LoopEndKeeps ==
  ASSUME NotionInv, NEW s \in Syncers, DatabaseDone(s) \/ ReadFails(s) \/ FinishSync(s) \/ SyncerDies(s)
  PROVE  NotionInv'
<1>1. PICK r \in Syncs : r = syncer[s] /\ LeftAt(r) /\ (~overlapped => SyncAt(r))
  BY SyncIs
<1>2. UNCHANGED <<todoist, page, overlapped>> /\ ~In(s, "idle")
  BY DEF DatabaseDone, ReadFails, FinishSync, SyncerDies, servers, In
<1>3. CASE DatabaseDone(s)
  <2>1. PICK ph \in {"board", "push"} : ph = IF r.phase = "write planner" THEN "board" ELSE "push"
    OBVIOUS
  <2>2. PICK v : v = [r EXCEPT !.phase = ph]
    OBVIOUS
  <2>3. /\ r.phase \in {"write planner", "write board"} /\ r.left = {} /\ r.stale = {}
        /\ syncer' = [syncer EXCEPT ![s] = v]
    BY <1>1, <1>3, <2>1, <2>2 DEF DatabaseDone, Set
  <2>4. v \in Syncs /\ v.phase = ph /\ v.clean = r.clean
    BY <2>1, <2>2 DEF Syncs, SyncPhases
  <2>5. ~overlapped => SyncAt(v)
    BY <1>1, <2>1, <2>3, <2>4 DEF SyncAt
  <2>6. LeftAt(v)
    BY <2>1, <2>4 DEF LeftAt
  <2>7. QED
    BY <1>2, <2>3, <2>4, <2>5, <2>6, SyncOnlyMoves
<1>4. CASE ReadFails(s)
  <2>1. PICK ph : ph = CASE r.phase \in {"planner", "query planner"} -> "board"
                         [] r.phase \in {"board", "query board"} -> "push"
                         [] OTHER -> "create"
    OBVIOUS
  <2>2. PICK v : v = [r EXCEPT !.clean = FALSE, !.left = {}, !.phase = ph]
    OBVIOUS
  <2>3. syncer' = [syncer EXCEPT ![s] = v] /\ r.phase \in {"planner", "query planner", "board", "query board", "push"}
    BY <1>1, <1>4, <2>1, <2>2 DEF ReadFails, Set
  <2>4. ph \in {"board", "push", "create"}
    BY <2>1, <2>3
  <2>5. v \in Syncs /\ v.phase = ph /\ ~v.clean /\ v.left = {}
    BY <2>2, <2>4 DEF Syncs, SyncPhases
  <2>6. LeftAt(v) /\ SyncAt(v)
    BY <2>4, <2>5 DEF LeftAt, SyncAt
  <2>7. QED
    BY <1>2, <2>3, <2>5, <2>6, SyncOnlyMoves
<1>5. CASE FinishSync(s) \/ SyncerDies(s)
  <2>1. PICK v \in Syncs : v = AtRest /\ v.phase = "idle"
    BY RestIsSync DEF AtRest
  <2>2. syncer' = [syncer EXCEPT ![s] = v]
    BY <1>5, <2>1 DEF FinishSync, SyncerDies, Set
  <2>3. LeftAt(v) /\ SyncAt(v)
    BY <2>1 DEF LeftAt, SyncAt
  <2>4. QED
    BY <1>2, <2>1, <2>2, <2>3, SyncOnlyMoves
<1>6. QED
  BY <1>3, <1>4, <1>5

\* The items only Notion has are those no open task answers to.
LEMMA FindNotionOnlyKeeps ==
  ASSUME NotionInv, NEW s \in Syncers, FindNotionOnly(s)
  PROVE  NotionInv'
<1>1. PICK r \in Syncs : r = syncer[s]
  BY SyncIs
<1>2. PICK lone : lone = {p \in Items("planner") : page[p].tid = NoId}
  OBVIOUS
<1>3. PICK v : v = [r EXCEPT !.phase = "create", !.left = lone]
  OBVIOUS
<1>4. /\ r.phase = "push" /\ syncer' = [syncer EXCEPT ![s] = v] /\ UNCHANGED <<todoist, page, overlapped>>
  BY <1>1, <1>2, <1>3 DEF FindNotionOnly, Set, In, servers
<1>5. lone \subseteq PageIds /\ \A p \in lone : page[p].db = "planner"
  BY <1>2 DEF Items
<1>6. v \in Syncs /\ v.phase = "create" /\ v.left = lone
  BY <1>3, <1>5 DEF Syncs, SyncPhases
<1>7. LeftAt(v) /\ SyncAt(v) /\ ~In(s, "idle")
  BY <1>1, <1>4, <1>5, <1>6 DEF LeftAt, SyncAt, In
<1>8. QED
  BY <1>4, <1>6, <1>7, SyncOnlyMoves

\* A new task has an id no item has.
LEMMA CreateTaskKeeps ==
  ASSUME NotionInv, NEW s \in Syncers, CreateTask(s)
  PROVE  NotionInv'
<1>1. PICK r \in Syncs : r = syncer[s] /\ LeftAt(r) /\ (~overlapped => SyncAt(r) /\ ItemsAreOne)
  BY SyncIs
<1>2. PICK p : p = CHOOSE x \in r.left : TRUE
  OBVIOUS
<1>3. PICK rest : rest = r.left \ {p}
  OBVIOUS
<1>4. /\ r.phase = "create" /\ r.left # {} /\ UNCHANGED <<page, overlapped>>
      /\ \/ \E t \in {x \in TodoIds : todoist[x] = NoTask /\ \A q \in PageIds : page[q].tid # x} :
              /\ todoist' = [todoist EXCEPT ![t] = TaskOf(page[p])]
              /\ \/ syncer' = [syncer EXCEPT ![s] = [r EXCEPT !.phase = "link", !.pushed = t]]
                 \/ syncer' = [syncer EXCEPT ![s] = [r EXCEPT !.left = rest, !.clean = FALSE]]
         \/ syncer' = [syncer EXCEPT ![s] = [r EXCEPT !.left = rest, !.clean = FALSE]] /\ todoist' = todoist
  BY <1>1, <1>2, <1>3 DEF CreateTask, Set, In
<1>5. p \in r.left /\ r.left \subseteq PageIds /\ rest \subseteq r.left
  BY <1>1, <1>2, <1>3, <1>4 DEF LeftAt
<1>6. ~In(s, "idle") /\ page' \in [PageIds -> NotionPages]
  BY <1>1, <1>4 DEF In, NotionInv, NotionShapes
<1>7. todoist' \in [TodoIds -> Tasks]
  <2>1. page[p] \in NotionPages /\ todoist \in [TodoIds -> Tasks]
    BY <1>5 DEF NotionInv, NotionShapes
  <2>2. TaskOf(page[p]) \in Tasks
    BY <2>1 DEF TaskOf, TaskIn, Tasks, NotionPages
  <2>3. QED
    BY <1>4, <2>1, <2>2
<1>8. ~overlapped => ItemsAreOne'
  BY <1>1, <1>4 DEF ItemsAreOne
<1>9. ASSUME NEW t \in TodoIds, \A q \in PageIds : page[q].tid # t,
             syncer' = [syncer EXCEPT ![s] = [r EXCEPT !.phase = "link", !.pushed = t]]
      PROVE  NotionInv'
  <2>1. PICK v : v = [r EXCEPT !.phase = "link", !.pushed = t]
    OBVIOUS
  <2>2. v \in Syncs /\ v.phase = "link" /\ v.pushed = t /\ v.left = r.left
    BY <2>1 DEF Syncs, SyncPhases
  <2>3. LeftAt(v)
    BY <1>4, <1>5, <2>2 DEF LeftAt
  <2>4. ~overlapped => SyncAt(v)'
    <3>1. \A q \in PageIds : page'[q].tid # t
      BY <1>4, <1>9
    <3>2. ~overlapped => \A q \in r.left : page'[q].db = "planner"
      BY <1>1, <1>4 DEF SyncAt
    <3>3. QED
      BY <2>2, <3>1, <3>2 DEF SyncAt
  <2>5. QED
    BY <1>4, <1>6, <1>7, <1>8, <1>9, <2>1, <2>2, <2>3, <2>4, SyncMoves
<1>10. CASE syncer' = [syncer EXCEPT ![s] = [r EXCEPT !.left = rest, !.clean = FALSE]]
  <2>1. PICK v : v = [r EXCEPT !.left = rest, !.clean = FALSE]
    OBVIOUS
  <2>2. v \in Syncs /\ v.phase = "create" /\ v.left = rest /\ ~v.clean
    BY <1>4, <1>5, <2>1 DEF Syncs
  <2>3. LeftAt(v)
    BY <1>5, <2>2 DEF LeftAt
  <2>4. ~overlapped => SyncAt(v)'
    BY <1>1, <1>4, <1>5, <2>2 DEF SyncAt
  <2>5. QED
    BY <1>4, <1>6, <1>7, <1>8, <1>10, <2>1, <2>2, <2>3, <2>4, SyncMoves
<1>11. QED
  BY <1>4, <1>9, <1>10

\* The id that an item gets is no other item's.
LEMMA LinkPageKeeps ==
  ASSUME NotionInv, NEW s \in Syncers, LinkPage(s)
  PROVE  NotionInv'
<1>1. PICK r \in Syncs : r = syncer[s] /\ LeftAt(r) /\ (~overlapped => SyncAt(r) /\ ItemsAreOne)
  BY SyncIs
<1>2. PICK p : p = CHOOSE x \in r.left : TRUE
  OBVIOUS
<1>3. PICK after, d : /\ after = [r EXCEPT !.phase = "create", !.left = r.left \ {p}, !.pushed = NoId]
                      /\ d = [page EXCEPT ![p].tid = r.pushed]
  OBVIOUS
<1>4. r.phase = "link" /\ UNCHANGED <<todoist, overlapped>> /\ Ask(s, d, after)
  BY <1>1, <1>2, <1>3 DEF LinkPage, In
<1>5. p \in r.left /\ r.left \subseteq PageIds /\ r.pushed \in TodoIds /\ r.pushed # NoId
  BY <1>1, <1>2, <1>4, NotionSyncAssumption DEF LeftAt, NotionSyncAssumption
<1>6. after \in Syncs /\ after.phase = "create" /\ after.left = r.left \ {p}
  BY <1>3 DEF Syncs, SyncPhases
<1>7. PICK v \in Syncs : /\ syncer' = [syncer EXCEPT ![s] = v] /\ page' \in {d, page}
                         /\ v.phase = "create" /\ v.left = r.left \ {p}
  BY <1>4, <1>6, AskMeans
<1>8. /\ d \in [PageIds -> NotionPages]
      /\ \A q \in PageIds : d[q].db = page[q].db /\ d[q].tid = IF q = p THEN r.pushed ELSE page[q].tid
  <2>1. page \in [PageIds -> NotionPages] /\ p \in PageIds
    BY <1>5 DEF NotionInv, NotionShapes
  <2>2. PICK x \in NotionPages : x = [page[p] EXCEPT !.tid = r.pushed]
    BY <1>5, <2>1 DEF NotionPages
  <2>3. x.db = page[p].db /\ x.tid = r.pushed
    BY <2>1, <2>2 DEF NotionPages
  <2>4. d = [page EXCEPT ![p] = x]
    BY <1>3, <2>2
  <2>5. QED
    BY <2>1, <2>3, <2>4
<1>9. page' \in [PageIds -> NotionPages] /\ todoist' \in [TodoIds -> Tasks]
  BY <1>4, <1>7, <1>8 DEF NotionInv, NotionShapes
<1>10. LeftAt(v)
  BY <1>5, <1>7 DEF LeftAt
<1>11. ASSUME ~overlapped PROVE ItemsAreOne' /\ SyncAt(v)'
  <2>1. ItemsAreOne /\ (\A q \in r.left : page[q].db = "planner") /\ \A q \in PageIds : page[q].tid # r.pushed
    BY <1>1, <1>4, <1>11 DEF SyncAt
  <2>2. ASSUME NEW a \in PageIds, NEW b \in PageIds, d[a].db = d[b].db, d[a].tid = d[b].tid, d[a].tid # NoId
        PROVE  a = b
    BY <1>8, <2>1, <2>2 DEF ItemsAreOne
  <2>3. \A a \in PageIds : d[a].db = "board" => d[a].tid # NoId
    BY <1>5, <1>8, <2>1 DEF ItemsAreOne
  <2>4. ItemsAreOne'
    BY <1>7, <2>1, <2>2, <2>3 DEF ItemsAreOne
  <2>5. \A q \in v.left : page'[q].db = "planner"
    BY <1>5, <1>7, <1>8, <2>1
  <2>6. SyncAt(v)'
    BY <1>7, <2>5 DEF SyncAt
  <2>7. QED
    BY <2>4, <2>6
<1>12. ~In(s, "idle")
  BY <1>1, <1>4 DEF In
<1>13. QED
  BY <1>4, <1>7, <1>9, <1>10, <1>11, <1>12, SyncMoves

\* What the user changes keeps the ids, and no sync under way is sure of itself.
LEMMA UserKeeps ==
  ASSUME NotionInv,
         (\E t \in TodoIds : ChangeTask(t)) \/ (\E p \in PageIds, w \in Wordings : ChangeItem(p, w))
  PROVE  NotionInv'
<1>1. syncer' = [s \in Syncers |-> [syncer[s] EXCEPT !.clean = FALSE]] /\ overlapped' = overlapped
  <2>1. (\E t \in TodoIds : ChangeTask(t)) => Disturbed /\ overlapped' = overlapped
    BY DEF ChangeTask
  <2>2. (\E p \in PageIds, w \in Wordings : ChangeItem(p, w)) => Disturbed /\ overlapped' = overlapped
    BY DEF ChangeItem
  <2>3. QED
    BY <2>1, <2>2 DEF Disturbed
<1>2. \A s \in Syncers :
        /\ syncer[s] \in Syncs /\ syncer'[s] \in Syncs /\ ~syncer'[s].clean
        /\ syncer'[s].phase = syncer[s].phase /\ syncer'[s].left = syncer[s].left
        /\ syncer'[s].found = syncer[s].found /\ syncer'[s].pushed = syncer[s].pushed
  <2>1. \A s \in Syncers : syncer[s] \in Syncs /\ syncer'[s] = [syncer[s] EXCEPT !.clean = FALSE]
    BY <1>1 DEF NotionInv, NotionShapes
  <2>2. ASSUME NEW v \in Syncs, NEW w, w = [v EXCEPT !.clean = FALSE]
        PROVE  /\ w \in Syncs /\ ~w.clean /\ w.phase = v.phase /\ w.left = v.left
               /\ w.found = v.found /\ w.pushed = v.pushed
    BY <2>2 DEF Syncs
  <2>3. QED
    BY <2>1, <2>2, Zenon
<1>3. /\ page \in [PageIds -> NotionPages] /\ page' \in [PageIds -> NotionPages]
      /\ todoist' \in [TodoIds -> Tasks]
      /\ \A q \in PageIds : /\ page'[q].tid = page[q].tid
                            /\ \/ page'[q].db = page[q].db
                               \/ page[q].tid = NoId /\ page[q].db = Nowhere /\ page'[q].db = "planner"
  <2>1. page \in [PageIds -> NotionPages] /\ todoist \in [TodoIds -> Tasks]
    BY DEF NotionInv, NotionShapes
  <2>2. CASE \E t \in TodoIds : ChangeTask(t)
    <3>1. PICK t \in TodoIds, x \in {NoTask} \cup [section : {"planner", "other"}, text : Texts, extra : SomeExtra] :
            todoist' = [todoist EXCEPT ![t] = x] /\ page' = page
      BY <2>2, TasksInAre DEF ChangeTask
    <3>2. x \in Tasks
      BY RestIsSync DEF Tasks
    <3>3. QED
      BY <2>1, <3>1, <3>2
  <2>3. CASE \E p \in PageIds, w \in Wordings : ChangeItem(p, w)
    <3>1. PICK p \in PageIds, w \in Wordings :
            /\ p \in Items("planner") \cup NewPage /\ todoist' = todoist
            /\ page' = [page EXCEPT ![p] = [page[p] EXCEPT !.db = "planner", !.text = w.text, !.extra = w.extra]]
      BY <2>3 DEF ChangeItem
    <3>2. PICK x \in NotionPages : x = [page[p] EXCEPT !.db = "planner", !.text = w.text, !.extra = w.extra]
      BY <2>1, <3>1, TasksInAre DEF NotionPages, Databases
    <3>3. x.tid = page[p].tid /\ x.db = "planner"
      BY <2>1, <3>1, <3>2 DEF NotionPages
    <3>4. page[p].db = "planner" \/ (page[p].tid = NoId /\ page[p].db = Nowhere)
      BY <3>1 DEF Items, NewPage, NoPage
    <3>5. QED
      BY <2>1, <3>1, <3>2, <3>3, <3>4
  <2>4. QED
    BY <2>2, <2>3
<1>4. NotionShapes'
  <2>1. \A s \in Syncers : LeftAt(syncer'[s])
    BY <1>2 DEF NotionInv, NotionShapes, LeftAt
  <2>2. QED
    BY <1>1, <1>2, <1>3, <2>1 DEF NotionInv, NotionShapes, LeftAt
<1>5. ASSUME ~overlapped PROVE OneSyncs' /\ ItemsAreOne' /\ \A s \in Syncers : SyncAt(syncer[s])'
  <2>1. OneSyncs'
    BY <1>2, <1>5 DEF NotionInv, OneSyncs, In
  <2>2. ItemsAreOne'
    BY <1>3, <1>5 DEF NotionInv, ItemsAreOne
  <2>3. ASSUME NEW s \in Syncers PROVE SyncAt(syncer[s])'
    <3>1. PICK r \in Syncs, v \in Syncs : r = syncer[s] /\ v = syncer'[s]
      BY <1>2
    <3>2. SyncAt(r) /\ LeftAt(r)
      BY <1>5, <3>1, SyncIs
    <3>3. ~v.clean /\ v.phase = r.phase /\ v.left = r.left /\ v.found = r.found /\ v.pushed = r.pushed
      BY <1>2, <3>1
    <3>4. ASSUME NEW db \in Databases, FoundAt(r, db), r.left \subseteq TodoIds PROVE FoundAt(v, db)'
      BY <1>3, <3>3, <3>4, NotionSyncAssumption DEF FoundAt, NotionSyncAssumption, Databases, Nowhere
    <3>5. /\ v.phase = "write planner" => FoundAt(v, "planner")'
          /\ v.phase = "write board" => FoundAt(v, "board")'
      BY <3>2, <3>3, <3>4 DEF SyncAt, LeftAt, Databases
    <3>6. v.phase \in {"create", "link"} => \A p \in v.left : page'[p].db = "planner"
      BY <1>3, <3>2, <3>3 DEF SyncAt, LeftAt, Nowhere
    <3>7. v.phase = "link" => \A p \in PageIds : page'[p].tid # v.pushed
      BY <1>3, <3>2, <3>3 DEF SyncAt
    <3>8. SyncAt(v)'
      BY <3>3, <3>5, <3>6, <3>7 DEF SyncAt
    <3>9. QED
      BY <3>1, <3>8 DEF SyncAt, FoundAt, Mirrored
  <2>4. QED
    BY <2>1, <2>2, <2>3
<1>6. QED
  BY <1>1, <1>4, <1>5 DEF NotionInv

\* The invariant of the synchronisation holds in every reachable state.
LEMMA NotionInvAlways == NotionSpec => []NotionInv
<1>1. NotionInv /\ [NotionNext]_notionVars => NotionInv'
  <2> SUFFICES ASSUME NotionInv, [NotionNext]_notionVars PROVE NotionInv'
    OBVIOUS
  <2>1. CASE NotionNext
    BY <2>1, StartSyncKeeps, FetchTasksKeeps, QueryDatabaseKeeps, WriteTaskKeeps, MarkStaleKeeps, LoopEndKeeps,
       FindNotionOnlyKeeps, CreateTaskKeeps, LinkPageKeeps, UserKeeps DEF NotionNext
  <2>2. CASE UNCHANGED notionVars
    <3>1. UNCHANGED <<todoist, page, syncer, overlapped>>
      BY <2>2 DEF notionVars
    <3>2. NotionShapes'
      BY <3>1 DEF NotionInv, NotionShapes
    <3>3. ASSUME ~overlapped PROVE OneSyncs' /\ ItemsAreOne' /\ \A s \in Syncers : SyncAt(syncer[s])'
      <4>1. OneSyncs' /\ ItemsAreOne'
        BY <3>1, <3>3, StandsAsItWas DEF NotionInv, OneSyncs, In
      <4>2. ASSUME NEW s \in Syncers PROVE SyncAt(syncer[s])'
        <5>1. PICK r : r = syncer[s] /\ r = syncer'[s]
          BY <3>1
        <5>2. SyncAt(r)'
          BY <3>1, <3>3, <5>1, StandsAsItWas DEF NotionInv
        <5>3. QED
          BY <5>1, <5>2 DEF SyncAt, FoundAt
      <4>3. QED
        BY <4>1, <4>2
    <3>4. QED
      BY <3>1, <3>2, <3>3 DEF NotionInv
  <2>3. QED
    BY <2>1, <2>2
<1>2. QED
  BY <1>1, NotionInvInit, PTL DEF NotionSpec

\* sync_tasks_to_database, for any number of tasks, items, processes and changes of
\* the user: while syncs do not overlap no task has two items in a database, and a
\* board that was written undisturbed shows the active tasks and no other, with the
\* text and every extra a task has.
THEOREM BoardAlwaysMirrors == NotionSpec => []BoardMirrors
<1>1. NotionInv => BoardMirrors
  <2> SUFFICES ASSUME NotionInv, ~overlapped PROVE BoardMirrors
    BY DEF BoardMirrors
  <2>1. ItemsAreOne
    BY DEF NotionInv
  <2>2. ASSUME NEW s \in Syncers, In(s, "push"), syncer[s].clean
        PROVE  /\ {<<page[p].tid, page[p].text>> : p \in ActiveItems} = {<<t, todoist[t].text>> : t \in ActiveTasks}
               /\ \A p \in ActiveItems :
                    todoist[page[p].tid].extra # NoExtra => page[p].extra = todoist[page[p].tid].extra
    <3>1. Mirrored({}, {})
      BY <2>2, SyncIs DEF SyncAt, In
    <3>2. \A p \in PageIds : page[p].tid # NoId => page[p].tid \in TodoIds
      BY DEF NotionInv, NotionShapes, NotionPages
    <3>3. ASSUME NEW p \in PageIds, page[p].db = "board", ~page[p].done
          PROVE  \E t \in TodoIds : /\ todoist[t] # NoTask /\ page[p].tid = t /\ page[p].text = todoist[t].text
                                    /\ todoist[t].extra # NoExtra => page[p].extra = todoist[t].extra
      <4>1. PICK t \in TodoIds : t = page[p].tid
        BY <2>1, <3>2, <3>3 DEF ItemsAreOne
      <4>2. todoist[t] # NoTask
        BY <3>1, <3>3, <4>1 DEF Mirrored
      <4>s. Shown(t)
        BY <3>1, <4>2 DEF Mirrored
      <4>3. PICK q \in PageIds : /\ page[q].db = "board" /\ page[q].tid = t /\ page[q].text = todoist[t].text
                                 /\ todoist[t].extra # NoExtra => page[q].extra = todoist[t].extra
        BY <4>s DEF Shown
      <4>4. q = p
        BY <2>1, <3>3, <4>1, <4>3 DEF ItemsAreOne
      <4>5. QED
        BY <4>1, <4>2, <4>3, <4>4
    <3>4. ASSUME NEW t \in TodoIds, todoist[t] # NoTask
          PROVE  \E p \in PageIds : /\ page[p].db = "board" /\ ~page[p].done
                                    /\ page[p].tid = t /\ page[p].text = todoist[t].text
      <4>1. Shown(t)
        BY <3>1, <3>4 DEF Mirrored
      <4>2. QED
        BY <4>1 DEF Shown
    <3>5. {<<page[p].tid, page[p].text>> : p \in ActiveItems} = {<<t, todoist[t].text>> : t \in ActiveTasks}
      BY <3>3, <3>4 DEF Items, ActiveItems, ActiveTasks
    <3>6. \A p \in ActiveItems : todoist[page[p].tid].extra # NoExtra => page[p].extra = todoist[page[p].tid].extra
      BY <3>3 DEF Items, ActiveItems
    <3>7. QED
      BY <3>5, <3>6
  <2>3. QED
    BY <2>1, <2>2 DEF BoardMirrors, ItemsAreOne
<1>2. QED
  BY <1>1, NotionInvAlways, PTL

------------------------------------------------------------------------------
(***************************************************************************)
(* brain/organizer.py and brain/todoist.py: any tasks and sections, and    *)
(* any number of days and changes.                                         *)
(***************************************************************************)

\* The labels a task can come to have, and the boards made of them.
LabelSets == {{}, {"blocked"}} \cup {t.hints : t \in BoardTasks}
Boards == [BoardTasks -> [column : Columns \cup {NoColumn}, labels : LabelSets]]
TidyRuns ==
  [phase : {"idle", "move", "label", "done"}, dry : BOOLEAN, fetched : Boards,
   todo : SUBSET BoardTasks, at : SUBSET BoardTasks, moves : SUBSET BoardTasks,
   labelled : SUBSET BoardTasks, errors : Nat, disturbed : BOOLEAN]

BoardTyped == board \in Boards /\ tidyRun \in TidyRuns

\* The run is at one task, which it has moved and is to label; at the end none is left.
AtOneTask ==
  /\ During("label") => \E t \in tidyRun.todo : tidyRun.at = {t}
  /\ ~During("label") => tidyRun.at = {}
  /\ During("done") => tidyRun.todo = {}

\* The run has been at the section of task t, and at its labels.
SeenToColumn(t) == t \notin tidyRun.todo \/ t \in tidyRun.at
SeenToLabels(t) == t \notin tidyRun.todo

\* What a run that is only to list has listed, and what one that applies its
\* changes has made of task t.
Lists ==
  /\ board = tidyRun.fetched
  /\ tidyRun.moves = {t \in BoardTasks : SeenToColumn(t) /\ Misplaced(t, tidyRun.fetched[t])}
  /\ tidyRun.labelled = {t \in BoardTasks : SeenToLabels(t) /\ Unlabelled(t, tidyRun.fetched[t])}
Tidied(t) ==
  LET seen == tidyRun.fetched[t] IN
  /\ board[t].column = IF SeenToColumn(t) /\ Misplaced(t, seen) THEN IdealColumn(t, seen) ELSE seen.column
  /\ board[t].labels = IF SeenToLabels(t) /\ Unlabelled(t, seen) THEN t.hints ELSE seen.labels

AsFarAsItIs ==
  ~During("idle") /\ tidyRun.errors = 0 /\ ~tidyRun.disturbed =>
    IF tidyRun.dry THEN Lists ELSE \A t \in BoardTasks : Tidied(t)

BoardInv == BoardTyped /\ AtOneTask /\ AsFarAsItIs

\* _ideal_section_name and infer_labels: a task that was moved and labelled as
\* they suggest has nothing more to be suggested.
LEMMA SettledByTidying ==
  ASSUME BoardAssumption, NEW t \in BoardTasks, NEW seen, NEW after,
         after.column = IF Misplaced(t, seen) THEN IdealColumn(t, seen) ELSE seen.column,
         after.labels = IF Unlabelled(t, seen) THEN t.hints ELSE seen.labels
  PROVE  ~Misplaced(t, after) /\ ~Unlabelled(t, after)
<1>1. "blocked" \in after.labels <=> "blocked" \in seen.labels
  BY DEF BoardAssumption, Unlabelled
<1>2. ~Unlabelled(t, after)
  BY DEF Unlabelled
<1>3. ~Misplaced(t, after)
  <2>1. CASE "blocked" \in seen.labels \/ t.recurring
    <3>1. IdealColumn(t, after) = IdealColumn(t, seen)
      BY <1>1, <2>1 DEF IdealColumn
    <3> QED BY <3>1 DEF Misplaced
  <2>2. CASE ~("blocked" \in seen.labels \/ t.recurring)
    <3>1. CASE seen.column \in Planned
      <4>1. IdealColumn(t, seen) = NoColumn
        BY <2>2, <3>1 DEF IdealColumn
      <4>2. after.column = seen.column
        BY <4>1 DEF Misplaced, BoardAssumption
      <4>3. IdealColumn(t, after) = NoColumn
        BY <1>1, <2>2, <3>1, <4>2 DEF IdealColumn
      <4> QED BY <4>3 DEF Misplaced, BoardAssumption
    <3>2. CASE seen.column \notin Planned
      <4>1. IdealColumn(t, seen) \notin Planned
        <5>1. t.priority = 1 \/ t.priority = 2 \/ t.priority = 3 \/ t.priority = 4
          BY DEF BoardAssumption
        <5>2. ByPriority(t) \notin Planned
          <6>1. CASE t.priority = 1
            BY <6>1 DEF ByPriority, Planned
          <6>2. CASE t.priority = 2
            BY <6>2 DEF ByPriority, Planned
          <6>3. CASE t.priority = 3
            BY <6>3 DEF ByPriority, Planned
          <6>4. CASE t.priority = 4
            BY <6>4 DEF ByPriority, Planned
          <6> QED BY <5>1, <6>1, <6>2, <6>3, <6>4
        <5> QED BY <2>2, <3>2, <5>2 DEF IdealColumn, Planned
      <4>2. after.column \notin Planned
        BY <3>2, <4>1
      <4>3. IdealColumn(t, after) = IdealColumn(t, seen)
        BY <1>1, <2>2, <3>2, <4>2 DEF IdealColumn
      <4> QED BY <4>3 DEF Misplaced
    <3> QED BY <3>1, <3>2
  <2> QED BY <2>1, <2>2
<1> QED BY <1>2, <1>3

\* A run that has not begun is one.
LEMMA BlankRun ==
  /\ NoTidyRun \in TidyRuns /\ NoTidyRun.phase = "idle"
  /\ NoTidyRun.at = {} /\ NoTidyRun.moves = {} /\ NoTidyRun.labelled = {}
BY DEF NoTidyRun, TidyRuns, Boards, LabelSets

\* The invariant holds of the board as it is found.
LEMMA BoardInvInit == BoardAssumption /\ BoardInit => BoardInv
<1> SUFFICES ASSUME BoardAssumption, BoardInit PROVE BoardInv
  OBVIOUS
<1>1. board \in Boards
  BY DEF BoardInit, Boards, LabelSets
<1>2. tidyRun \in TidyRuns
  BY BlankRun DEF BoardInit
<1> QED BY <1>1, <1>2, BlankRun DEF BoardInit, BoardInv, BoardTyped, AtOneTask, AsFarAsItIs, During

\* get_tasks: what was fetched is the board.
LEMMA FetchKeeps ==
  ASSUME BoardInv, NEW dry \in BOOLEAN, Fetch(dry)
  PROVE  BoardInv'
<1> DEFINE r == [NoTidyRun EXCEPT !.phase = IF BoardTasks = {} THEN "done" ELSE "move",
                                  !.dry = dry, !.fetched = board, !.todo = BoardTasks]
<1>1. board \in Boards
  BY DEF BoardInv, BoardTyped
<1>2. /\ r \in TidyRuns /\ r.phase = (IF BoardTasks = {} THEN "done" ELSE "move") /\ r.dry = dry
      /\ r.fetched = board /\ r.todo = BoardTasks /\ r.at = {} /\ r.moves = {} /\ r.labelled = {}
  <2>1. NoTidyRun \in TidyRuns /\ NoTidyRun.at = {} /\ NoTidyRun.moves = {} /\ NoTidyRun.labelled = {}
    BY BlankRun
  <2> QED BY <1>1, <2>1 DEF TidyRuns
<1>3. tidyRun' = r /\ board' = board
  BY DEF Fetch
<1> HIDE DEF r
<1>4. AtOneTask'
  BY <1>2, <1>3 DEF AtOneTask, During
<1>5. AsFarAsItIs'
  BY <1>2, <1>3 DEF AsFarAsItIs, Lists, Tidied, SeenToColumn, SeenToLabels
<1> QED BY <1>1, <1>2, <1>3, <1>4, <1>5 DEF BoardInv, BoardTyped

\* A move, listed, done or refused, or none.
LEMMA MoveTaskKeeps ==
  ASSUME BoardAssumption, BoardInv, NEW t \in BoardTasks, MoveTask(t)
  PROVE  BoardInv'
<1> DEFINE seen == tidyRun.fetched[t]
           moves == IF Misplaced(t, seen) THEN tidyRun.moves \cup {t} ELSE tidyRun.moves
<1>1. /\ board \in Boards /\ tidyRun \in TidyRuns
      /\ t \in tidyRun.todo /\ tidyRun.phase = "move" /\ tidyRun.at = {}
  BY DEF BoardInv, BoardTyped, MoveTask, During, AtOneTask
<1>2. PICK errors \in Nat :
        tidyRun' = [tidyRun EXCEPT !.moves = moves, !.errors = errors, !.phase = "label", !.at = {t}]
        /\ (errors = 0 => tidyRun.errors = 0)
        /\ board' \in {board, [board EXCEPT ![t].column = IdealColumn(t, seen)]}
        /\ (~Misplaced(t, seen) \/ tidyRun.dry => board' = board)
        /\ (errors = 0 /\ ~tidyRun.dry /\ Misplaced(t, seen) =>
              board' = [board EXCEPT ![t].column = IdealColumn(t, seen)])
  <2>1. CASE ~Misplaced(t, seen)
    <3>1. /\ tidyRun' = [tidyRun EXCEPT !.moves = moves, !.errors = tidyRun.errors, !.phase = "label", !.at = {t}]
          /\ board' = board
      BY <1>1, <2>1 DEF MoveTask, After, TidyRuns
    <3> QED BY <1>1, <2>1, <3>1 DEF TidyRuns
  <2>2. CASE Misplaced(t, seen)
    <3> DEFINE r == [tidyRun EXCEPT !.moves = @ \cup {t}]
    <3>1. Request(r, t, [board EXCEPT ![t].column = IdealColumn(t, seen)])
      BY <2>2 DEF MoveTask
    <3>2. r.dry = tidyRun.dry /\ r.errors = tidyRun.errors /\ r.phase = "move" /\ r.errors \in Nat
      BY <1>1 DEF TidyRuns
    <3>3. After(r, t) =
            [tidyRun EXCEPT !.moves = moves, !.errors = tidyRun.errors, !.phase = "label", !.at = {t}]
      BY <1>1, <2>2 DEF After, TidyRuns
    <3>4. After([r EXCEPT !.errors = @ + 1], t) =
            [tidyRun EXCEPT !.moves = moves, !.errors = tidyRun.errors + 1, !.phase = "label", !.at = {t}]
      BY <1>1, <2>2 DEF After, TidyRuns
    <3>5. CASE /\ tidyRun' = After(r, t)
               /\ (r.dry /\ board' = board) \/ (~r.dry /\ board' = [board EXCEPT ![t].column = IdealColumn(t, seen)])
      BY <2>2, <3>2, <3>3, <3>5
    <3>6. CASE ~r.dry /\ board' = board /\ tidyRun' = After([r EXCEPT !.errors = @ + 1], t)
      <4>1. tidyRun.errors + 1 \in Nat /\ tidyRun.errors + 1 # 0
        BY <3>2
      <4> QED BY <2>2, <3>2, <3>4, <3>6, <4>1
    <3> HIDE DEF r
    <3>7. \/ /\ tidyRun' = After(r, t)
             /\ (r.dry /\ board' = board) \/ (~r.dry /\ board' = [board EXCEPT ![t].column = IdealColumn(t, seen)])
          \/ ~r.dry /\ board' = board /\ tidyRun' = After([r EXCEPT !.errors = @ + 1], t)
      BY <3>1 DEF Request
    <3> QED BY <3>5, <3>6, <3>7
  <2> QED BY <2>1, <2>2
<1>3. /\ tidyRun' \in TidyRuns
      /\ tidyRun'.phase = "label" /\ tidyRun'.at = {t} /\ tidyRun'.todo = tidyRun.todo /\ tidyRun'.dry = tidyRun.dry
      /\ tidyRun'.fetched = tidyRun.fetched /\ tidyRun'.disturbed = tidyRun.disturbed /\ tidyRun'.moves = moves
      /\ tidyRun'.labelled = tidyRun.labelled /\ (tidyRun'.errors = 0 => tidyRun.errors = 0)
  BY <1>1, <1>2 DEF TidyRuns
<1>4. board' \in Boards
  BY <1>1, <1>2 DEF Boards, Misplaced
<1>5. AtOneTask'
  BY <1>1, <1>3 DEF AtOneTask, During
<1>6. date' = date
  BY DEF MoveTask
<1>7. ASSUME NEW x \in BoardTasks
      PROVE  /\ Misplaced(x, tidyRun.fetched[x])' <=> Misplaced(x, tidyRun.fetched[x])
             /\ IdealColumn(x, tidyRun.fetched[x])' = IdealColumn(x, tidyRun.fetched[x])
             /\ SeenToColumn(x)' <=> (SeenToColumn(x) \/ x = t)
             /\ SeenToLabels(x)' <=> SeenToLabels(x)
             /\ (x = t => ~SeenToColumn(x) /\ ~SeenToLabels(x))
  <2>1. /\ Misplaced(x, tidyRun.fetched[x])' <=> Misplaced(x, tidyRun.fetched[x])
        /\ IdealColumn(x, tidyRun.fetched[x])' = IdealColumn(x, tidyRun.fetched[x])
    BY <1>3, <1>6 DEF Misplaced, IdealColumn
  <2> QED BY <1>1, <1>3, <2>1 DEF SeenToColumn, SeenToLabels
<1>8. AsFarAsItIs'
  <2> SUFFICES ASSUME tidyRun'.errors = 0, ~tidyRun'.disturbed
               PROVE  IF tidyRun'.dry THEN Lists' ELSE \A x \in BoardTasks : Tidied(x)'
    BY DEF AsFarAsItIs
  <2>1. IF tidyRun.dry THEN Lists ELSE \A x \in BoardTasks : Tidied(x)
    BY <1>1, <1>3 DEF BoardInv, AsFarAsItIs, During
  <2>2. CASE tidyRun.dry
    <3>1. board' = tidyRun'.fetched
      BY <1>2, <1>3, <2>1, <2>2 DEF Lists
    <3>2. tidyRun'.moves = {x \in BoardTasks : SeenToColumn(x)' /\ Misplaced(x, tidyRun.fetched[x])'}
      BY <1>3, <1>7, <2>1, <2>2 DEF Lists
    <3>3. tidyRun'.labelled = {x \in BoardTasks : SeenToLabels(x)' /\ Unlabelled(x, tidyRun.fetched[x])'}
      BY <1>3, <1>7, <2>1, <2>2 DEF Lists, Unlabelled
    <3> QED BY <1>3, <2>2, <3>1, <3>2, <3>3 DEF Lists
  <2>3. CASE ~tidyRun.dry
    <3> SUFFICES ASSUME NEW x \in BoardTasks PROVE Tidied(x)'
      BY <1>3, <2>3
    <3>1. Tidied(x)
      BY <2>1, <2>3
    <3>2. board'[x].labels = board[x].labels
      BY <1>1, <1>2 DEF Boards
    <3>3. board'[x].column = IF x = t /\ Misplaced(t, seen) THEN IdealColumn(t, seen) ELSE board[x].column
      BY <1>1, <1>2, <1>3, <2>3 DEF Boards
    <3> QED BY <1>3, <1>7, <3>1, <3>2, <3>3 DEF Tidied, Unlabelled
  <2> QED BY <2>2, <2>3
<1> QED BY <1>3, <1>4, <1>5, <1>8 DEF BoardInv, BoardTyped

\* A task's labels, listed, given or refused, or none.
LEMMA LabelTaskKeeps ==
  ASSUME BoardAssumption, BoardInv, NEW t \in BoardTasks, LabelTask(t)
  PROVE  BoardInv'
<1> DEFINE seen == tidyRun.fetched[t]
           labelled == IF Unlabelled(t, seen) THEN tidyRun.labelled \cup {t} ELSE tidyRun.labelled
           phase == IF tidyRun.todo = {t} THEN "done" ELSE "move"
<1>1. /\ board \in Boards /\ tidyRun \in TidyRuns
      /\ t \in tidyRun.todo /\ tidyRun.phase = "label" /\ tidyRun.at = {t}
  BY DEF BoardInv, BoardTyped, LabelTask, During, AtOneTask
<1>2. PICK errors \in Nat :
        tidyRun' = [tidyRun EXCEPT !.labelled = labelled, !.errors = errors, !.phase = phase,
                                     !.at = {}, !.todo = @ \ {t}]
        /\ (errors = 0 => tidyRun.errors = 0)
        /\ board' \in {board, [board EXCEPT ![t].labels = t.hints]}
        /\ (~Unlabelled(t, seen) \/ tidyRun.dry => board' = board)
        /\ (errors = 0 /\ ~tidyRun.dry /\ Unlabelled(t, seen) =>
              board' = [board EXCEPT ![t].labels = t.hints])
  <2>1. CASE ~Unlabelled(t, seen)
    <3>1. /\ tidyRun' = [tidyRun EXCEPT !.labelled = labelled, !.errors = tidyRun.errors, !.phase = phase,
                                        !.at = {}, !.todo = @ \ {t}]
          /\ board' = board
      BY <1>1, <2>1 DEF LabelTask, After, TidyRuns
    <3> QED BY <1>1, <2>1, <3>1 DEF TidyRuns
  <2>2. CASE Unlabelled(t, seen)
    <3> DEFINE r == [tidyRun EXCEPT !.labelled = @ \cup {t}]
    <3>1. Request(r, t, [board EXCEPT ![t].labels = t.hints])
      BY <2>2 DEF LabelTask
    <3>2. /\ r.dry = tidyRun.dry /\ r.errors = tidyRun.errors /\ r.phase = "label"
          /\ r.todo = tidyRun.todo /\ r.errors \in Nat
      BY <1>1 DEF TidyRuns
    <3>3. After(r, t) =
            [tidyRun EXCEPT !.labelled = labelled, !.errors = tidyRun.errors, !.phase = phase,
                                     !.at = {}, !.todo = @ \ {t}]
      BY <1>1, <2>2 DEF After, TidyRuns
    <3>4. After([r EXCEPT !.errors = @ + 1], t) =
            [tidyRun EXCEPT !.labelled = labelled, !.errors = tidyRun.errors + 1, !.phase = phase,
                                     !.at = {}, !.todo = @ \ {t}]
      BY <1>1, <2>2 DEF After, TidyRuns
    <3>5. CASE /\ tidyRun' = After(r, t)
               /\ (r.dry /\ board' = board) \/ (~r.dry /\ board' = [board EXCEPT ![t].labels = t.hints])
      BY <2>2, <3>2, <3>3, <3>5
    <3>6. CASE ~r.dry /\ board' = board /\ tidyRun' = After([r EXCEPT !.errors = @ + 1], t)
      <4>1. tidyRun.errors + 1 \in Nat /\ tidyRun.errors + 1 # 0
        BY <3>2
      <4> QED BY <2>2, <3>2, <3>4, <3>6, <4>1
    <3> HIDE DEF r
    <3>7. \/ /\ tidyRun' = After(r, t)
             /\ (r.dry /\ board' = board) \/ (~r.dry /\ board' = [board EXCEPT ![t].labels = t.hints])
          \/ ~r.dry /\ board' = board /\ tidyRun' = After([r EXCEPT !.errors = @ + 1], t)
      BY <3>1 DEF Request
    <3> QED BY <3>5, <3>6, <3>7
  <2> QED BY <2>1, <2>2
<1>3. /\ tidyRun' \in TidyRuns
      /\ tidyRun'.phase = phase /\ tidyRun'.at = {} /\ tidyRun'.todo = tidyRun.todo \ {t} /\ tidyRun'.dry = tidyRun.dry
      /\ tidyRun'.fetched = tidyRun.fetched /\ tidyRun'.disturbed = tidyRun.disturbed /\ tidyRun'.moves = tidyRun.moves
      /\ tidyRun'.labelled = labelled /\ (tidyRun'.errors = 0 => tidyRun.errors = 0)
  BY <1>1, <1>2 DEF TidyRuns
<1>4. board' \in Boards
  BY <1>1, <1>2 DEF Boards, LabelSets
<1>5. AtOneTask'
  BY <1>1, <1>3 DEF AtOneTask, During
<1>6. date' = date
  BY DEF LabelTask
<1>7. ASSUME NEW x \in BoardTasks
      PROVE  /\ Misplaced(x, tidyRun.fetched[x])' <=> Misplaced(x, tidyRun.fetched[x])
             /\ IdealColumn(x, tidyRun.fetched[x])' = IdealColumn(x, tidyRun.fetched[x])
             /\ SeenToColumn(x)' <=> SeenToColumn(x)
             /\ SeenToLabels(x)' <=> (SeenToLabels(x) \/ x = t)
             /\ (x = t => SeenToColumn(x) /\ ~SeenToLabels(x))
  <2>1. /\ Misplaced(x, tidyRun.fetched[x])' <=> Misplaced(x, tidyRun.fetched[x])
        /\ IdealColumn(x, tidyRun.fetched[x])' = IdealColumn(x, tidyRun.fetched[x])
    BY <1>3, <1>6 DEF Misplaced, IdealColumn
  <2> QED BY <1>1, <1>3, <2>1 DEF SeenToColumn, SeenToLabels
<1>8. AsFarAsItIs'
  <2> SUFFICES ASSUME tidyRun'.errors = 0, ~tidyRun'.disturbed
               PROVE  IF tidyRun'.dry THEN Lists' ELSE \A x \in BoardTasks : Tidied(x)'
    BY DEF AsFarAsItIs
  <2>1. IF tidyRun.dry THEN Lists ELSE \A x \in BoardTasks : Tidied(x)
    BY <1>1, <1>3 DEF BoardInv, AsFarAsItIs, During
  <2>2. CASE tidyRun.dry
    <3>1. board' = tidyRun'.fetched
      BY <1>2, <1>3, <2>1, <2>2 DEF Lists
    <3>2. tidyRun'.moves = {x \in BoardTasks : SeenToColumn(x)' /\ Misplaced(x, tidyRun.fetched[x])'}
      BY <1>3, <1>7, <2>1, <2>2 DEF Lists
    <3>3. tidyRun'.labelled = {x \in BoardTasks : SeenToLabels(x)' /\ Unlabelled(x, tidyRun.fetched[x])'}
      BY <1>3, <1>7, <2>1, <2>2 DEF Lists, Unlabelled
    <3> QED BY <1>3, <2>2, <3>1, <3>2, <3>3 DEF Lists
  <2>3. CASE ~tidyRun.dry
    <3> SUFFICES ASSUME NEW x \in BoardTasks PROVE Tidied(x)'
      BY <1>3, <2>3
    <3>1. Tidied(x)
      BY <2>1, <2>3
    <3>2. board'[x].column = board[x].column
      BY <1>1, <1>2 DEF Boards
    <3>3. board'[x].labels = IF x = t /\ Unlabelled(t, seen) THEN t.hints ELSE board[x].labels
      BY <1>1, <1>2, <1>3, <2>3 DEF Boards
    <3> QED BY <1>3, <1>7, <3>1, <3>2, <3>3 DEF Tidied, Unlabelled
  <2> QED BY <2>2, <2>3
<1> QED BY <1>3, <1>4, <1>5, <1>8 DEF BoardInv, BoardTyped

\* The end of a run.
LEMMA ReportKeeps ==
  ASSUME BoardInv, Report
  PROVE  BoardInv'
BY BlankRun DEF BoardInv, BoardTyped, AtOneTask, AsFarAsItIs, During, Report

\* The invariant says nothing of a run the user or the calendar disturbed.
LEMMA DisturbingKeeps ==
  ASSUME BoardInv, board' \in Boards, tidyRun' = [tidyRun EXCEPT !.disturbed = TRUE]
  PROVE  BoardInv'
<1>1. /\ tidyRun' \in TidyRuns /\ tidyRun'.disturbed /\ tidyRun'.phase = tidyRun.phase
      /\ tidyRun'.todo = tidyRun.todo /\ tidyRun'.at = tidyRun.at
  BY DEF BoardInv, BoardTyped, TidyRuns
<1> QED BY <1>1 DEF BoardInv, BoardTyped, AtOneTask, AsFarAsItIs, During

\* The user's changes.
LEMMA EditKeeps ==
  ASSUME BoardInv, NEW t \in BoardTasks, Edit(t)
  PROVE  BoardInv'
<1>1. board' \in Boards
  <2>1. PICK c \in Columns, ls \in {{}, {"blocked"}, t.hints} :
          board' = [board EXCEPT ![t] = [column |-> c, labels |-> ls]]
    BY DEF Edit
  <2>2. ls \in LabelSets
    BY DEF LabelSets
  <2> QED BY <2>1, <2>2 DEF BoardInv, BoardTyped, Boards
<1> QED BY <1>1, DisturbingKeeps DEF Edit

\* Every step of the board keeps the invariant.
LEMMA BoardInvStep == BoardAssumption /\ BoardInv /\ [BoardNext]_boardVars => BoardInv'
<1> SUFFICES ASSUME BoardAssumption, BoardInv, [BoardNext]_boardVars PROVE BoardInv'
  OBVIOUS
<1>1. ASSUME NEW dry \in BOOLEAN, Fetch(dry) PROVE BoardInv'
  BY <1>1, FetchKeeps
<1>2. CASE Report
  BY <1>2, ReportKeeps
<1>3. CASE NextDate
  <2>1. board' \in Boards /\ tidyRun' = [tidyRun EXCEPT !.disturbed = TRUE]
    BY <1>3 DEF NextDate, BoardInv, BoardTyped
  <2> QED BY <2>1, DisturbingKeeps
<1>4. ASSUME NEW t \in BoardTasks, MoveTask(t) PROVE BoardInv'
  BY <1>4, MoveTaskKeeps
<1>5. ASSUME NEW t \in BoardTasks, LabelTask(t) PROVE BoardInv'
  BY <1>5, LabelTaskKeeps
<1>6. ASSUME NEW t \in BoardTasks, Edit(t) PROVE BoardInv'
  BY <1>6, EditKeeps
<1>7. CASE UNCHANGED boardVars
  <2>1. board' = board /\ date' = date /\ tidyRun' = tidyRun
    BY <1>7 DEF boardVars
  <2>2. ASSUME NEW x \in BoardTasks PROVE Tidied(x)' <=> Tidied(x)
    BY <2>1 DEF Tidied, SeenToColumn, SeenToLabels, Misplaced, IdealColumn, Unlabelled
  <2>3. Lists' <=> Lists
    BY <2>1 DEF Lists, SeenToColumn, SeenToLabels, Misplaced, IdealColumn, Unlabelled
  <2> QED BY <2>1, <2>2, <2>3 DEF BoardInv, BoardTyped, AtOneTask, AsFarAsItIs, During
<1> QED BY <1>1, <1>2, <1>3, <1>4, <1>5, <1>6, <1>7 DEF BoardNext

\* At the end of a run there is no task it has not been at.
LEMMA TidyByInv == BoardAssumption /\ BoardInv => LeavesItTidy
<1> SUFFICES ASSUME BoardAssumption, BoardInv, During("done"), tidyRun.errors = 0, ~tidyRun.disturbed
             PROVE  IF tidyRun.dry
                    THEN board = tidyRun.fetched /\ Analysis(board).misplaced = tidyRun.moves
                         /\ Analysis(board).suggestions = tidyRun.labelled
                    ELSE Analysis(board).misplaced = {} /\ Analysis(board).suggestions = {}
  BY DEF LeavesItTidy
<1>1. IF tidyRun.dry THEN Lists ELSE \A t \in BoardTasks : Tidied(t)
  BY DEF BoardInv, AsFarAsItIs, During
<1>2. \A t \in BoardTasks : SeenToColumn(t) /\ SeenToLabels(t)
  BY DEF BoardInv, AtOneTask, SeenToColumn, SeenToLabels
<1>3. /\ Analysis(board).misplaced = {t \in BoardTasks : Misplaced(t, board[t])}
      /\ Analysis(board).suggestions = {t \in BoardTasks : Unlabelled(t, board[t])}
  BY DEF Analysis
<1>4. CASE tidyRun.dry
  BY <1>1, <1>2, <1>3, <1>4 DEF Lists
<1>5. CASE ~tidyRun.dry
  <2>1. ASSUME NEW t \in BoardTasks PROVE ~Misplaced(t, board[t]) /\ ~Unlabelled(t, board[t])
    <3>1. Tidied(t)
      BY <1>1, <1>5
    <3> QED BY <1>2, <3>1, SettledByTidying DEF Tidied
  <2> QED BY <1>3, <1>5, <2>1
<1> QED BY <1>4, <1>5

\* reorganize_board and format_reorganize_report: a run that applies its changes
\* without an error or a disturbance leaves nothing to suggest, and a dry run lists
\* what an analysis of the board finds.
THEOREM BoardAlwaysLeftTidy == BoardSpec => []LeavesItTidy
<1>1. BoardInit => BoardInv
  BY BoardInvInit, BoardAssumption
<1>2. BoardInv /\ [BoardNext]_boardVars => BoardInv'
  BY BoardInvStep, BoardAssumption
<1>3. BoardInv => LeavesItTidy
  BY TidyByInv, BoardAssumption
<1> QED BY <1>1, <1>2, <1>3, PTL DEF BoardSpec

------------------------------------------------------------------------------
(***************************************************************************)
(* cli.py, llm.py and llm_local.py: any tasks, days and settings, and any  *)
(* number of commands.                                                     *)
(***************************************************************************)

Days == DueDays \cup {Completed}
Entries == BriefTasks \X Days
Requests == {"today | overdue", "7 days", "saturday | sunday", "overdue", "tasks"}
Providers == {Proxy, Groq, Local} \cup UNION {ToSet(s.models) : s \in SampleSettings}
Briefs ==
  [phase : {"none", "fetch", "built", "ask", "ended"}, name : Commands \cup {"none"},
   queries : Seq(Requests), listed : Seq(Entries), complete : BOOLEAN, chain : Seq(Providers),
   asked : Seq(Providers), text : Providers \cup {Raw, NoText}, print : BOOLEAN, llm : BOOLEAN, mailed : BOOLEAN,
   code : -1..1]

BriefTyped ==
  /\ due \in [BriefTasks -> Days] /\ settings \in SampleSettings
  /\ steady \subseteq BriefTasks /\ brief \in Briefs

\* The requests that are left, and the code, in each phase.
PhasesAreKept ==
  /\ brief.phase # "ended" => brief.code = -1
  /\ InPhase("fetch") => brief.queries # <<>>
  /\ ~InPhase("fetch") /\ brief.code # 1 => brief.queries = <<>>

\* No task is listed twice, and one the user left alone as it is.
ListedOnce ==
  \A i, j \in DOMAIN brief.listed : brief.listed[i][1] = brief.listed[j][1] => i = j
ListedAsIs ==
  \A t \in steady, i \in DOMAIN brief.listed : brief.listed[i][1] = t => brief.listed[i][2] = due[t]

\* A filter may have been answered by a full page, and as many tasks are listed.
FullPage == Queries(brief.name) # <<"tasks">> /\ Len(brief.listed) >= FilterLimit

\* What a request that was made answered is listed.
ListsAnswers ==
  ~InPhase("none") /\ brief.complete /\ brief.code # 1 =>
    \A t \in steady, i \in DOMAIN Queries(brief.name) :
      Matches(Queries(brief.name)[i], due[t]) =>
        \/ <<t, due[t]>> \in ToSet(brief.listed)
        \/ Queries(brief.name)[i] \in ToSet(brief.queries)
        \/ FullPage

AsksInPrivate ==
  settings.demo /\ ProxyConfigured(settings) =>
    brief.chain \in Seq({Proxy, Local}) /\ brief.asked \in Seq({Proxy, Local})

BriefInv == BriefTyped /\ PhasesAreKept /\ ListedOnce /\ ListedAsIs /\ ListsAnswers /\ AsksInPrivate

\* _queries: each command makes its own requests.
LEMMA QueriesAre ==
  ASSUME NEW name \in Commands
  PROVE  Queries(name) \in Seq(Requests)
<1>1. CASE name = "daily"
  BY <1>1 DEF Queries, Requests
<1>2. CASE name = "weekend"
  BY <1>2 DEF Queries, Requests
<1>3. CASE name = "weekly"
  BY <1>3 DEF Queries, Requests
<1>6. CASE name = "analyze"
  BY <1>6 DEF Queries, Requests
<1>4. CASE name = "alerts"
  BY <1>4 DEF Queries, Requests
<1>5. CASE name = "generate"
  BY <1>5 DEF Queries, Requests
<1> QED BY <1>1, <1>2, <1>3, <1>4, <1>5, <1>6 DEF Commands

\* SetToSeq lists each element of a finite set once.
LEMMA SetToSeqLists ==
  ASSUME NEW S, IsFiniteSet(S)
  PROVE  /\ SetToSeq(S) \in Seq(S)
         /\ \A i, j \in DOMAIN SetToSeq(S) : SetToSeq(S)[i] = SetToSeq(S)[j] => i = j
         /\ ToSet(SetToSeq(S)) = S
<1> DEFINE n == Cardinality(S)
           Injectives == {f \in [1..n -> S] : IsInjective(f)}
<1>1. n \in Nat /\ ExistsBijection(1..n, S)
  BY FS_NatBijection, FS_CardinalityType
<1>2. PICK g \in Bijection(1..n, S) : TRUE
  BY <1>1 DEF ExistsBijection
<1>3. g \in Injectives
  BY <1>2 DEF Bijection, Injection
<1>4. SetToSeq(S) \in [1..n -> S] /\ IsInjective(SetToSeq(S))
  BY <1>3 DEF SetToSeq
<1> DEFINE s == SetToSeq(S)
<1>5. s \in Injection(1..n, S)
  BY <1>4 DEF Injection
<1>6. Cardinality(1..n) = n
  BY <1>1, FS_Interval
<1>7. s \in Surjection(1..n, S)
  BY <1>5, <1>6, FS_Injection
<1>8. ToSet(s) = S
  BY <1>4, <1>7 DEF Surjection, ToSet
<1>9. s \in Seq(S)
  BY <1>1, <1>4
<1> QED BY <1>4, <1>8, <1>9 DEF IsInjective

\* _merge_task_lists: what was listed, then each task of the answer that was not
\* listed yet.
LEMMA MergedIs ==
  ASSUME NEW earlier \in Seq(Entries), NEW answer \in SUBSET Entries, IsFiniteSet(answer),
         \A i, j \in DOMAIN earlier : earlier[i][1] = earlier[j][1] => i = j,
         \A a, b \in answer : a[1] = b[1] => a = b
  PROVE  /\ Merged(earlier, answer) \in Seq(Entries)
         /\ \A i, j \in DOMAIN Merged(earlier, answer) :
              Merged(earlier, answer)[i][1] = Merged(earlier, answer)[j][1] => i = j
         /\ ToSet(Merged(earlier, answer)) =
              ToSet(earlier) \cup {a \in answer : \A i \in DOMAIN earlier : earlier[i][1] # a[1]}
         /\ Len(earlier) \in Nat /\ Len(Merged(earlier, answer)) \in Nat
         /\ Len(Merged(earlier, answer)) >= Len(earlier)
<1> DEFINE new == {a \in answer : a[1] \notin {earlier[i][1] : i \in DOMAIN earlier}}
           more == SetToSeq(new)
           merged == earlier \o more
<1>1. new \subseteq answer /\ IsFiniteSet(new)
  BY FS_Subset
<1>2. more \in Seq(new) /\ ToSet(more) = new /\ \A i, j \in DOMAIN more : more[i] = more[j] => i = j
  BY <1>1, SetToSeqLists
<1>3. Merged(earlier, answer) = merged
  BY DEF Merged
<1> HIDE DEF more
<1>4. more \in Seq(Entries) /\ merged \in Seq(Entries)
  BY <1>1, <1>2
<1>5. /\ DOMAIN merged = 1..(Len(earlier) + Len(more)) /\ Len(earlier) \in Nat /\ Len(more) \in Nat
      /\ DOMAIN earlier = 1..Len(earlier) /\ DOMAIN more = 1..Len(more)
      /\ Len(merged) = Len(earlier) + Len(more)
      /\ \A i \in DOMAIN earlier : merged[i] = earlier[i]
      /\ \A i \in DOMAIN merged :
            i \notin DOMAIN earlier => i - Len(earlier) \in DOMAIN more /\ merged[i] = more[i - Len(earlier)]
      /\ \A i \in DOMAIN more : i + Len(earlier) \in DOMAIN merged /\ merged[i + Len(earlier)] = more[i]
  BY <1>4
<1>6. \A i \in DOMAIN more : more[i] \in new
  BY <1>2 DEF ToSet
<1> HIDE DEF merged
<1>7. ASSUME NEW i \in DOMAIN merged, NEW j \in DOMAIN merged, merged[i][1] = merged[j][1]
      PROVE  i = j
  <2>1. CASE i \in DOMAIN earlier /\ j \in DOMAIN earlier
    BY <1>5, <1>7, <2>1
  <2>2. CASE i \notin DOMAIN earlier /\ j \notin DOMAIN earlier
    <3>1. more[i - Len(earlier)] = more[j - Len(earlier)]
      BY <1>1, <1>5, <1>6, <1>7, <2>2
    <3>2. i - Len(earlier) = j - Len(earlier)
      BY <1>2, <1>5, <2>2, <3>1
    <3> QED BY <1>5, <3>2
  <2>3. CASE i \in DOMAIN earlier /\ j \notin DOMAIN earlier
    BY <1>5, <1>6, <1>7, <2>3
  <2>4. CASE i \notin DOMAIN earlier /\ j \in DOMAIN earlier
    BY <1>5, <1>6, <1>7, <2>4
  <2> QED BY <2>1, <2>2, <2>3, <2>4
<1>8. ToSet(merged) = ToSet(earlier) \cup ToSet(more)
  <2>1. ASSUME NEW x \in ToSet(merged) PROVE x \in ToSet(earlier) \cup ToSet(more)
    BY <1>5, <2>1 DEF ToSet
  <2>2. ASSUME NEW x \in ToSet(earlier) PROVE x \in ToSet(merged)
    BY <1>5, <2>2 DEF ToSet
  <2>3. ASSUME NEW x \in ToSet(more) PROVE x \in ToSet(merged)
    BY <1>5, <2>3 DEF ToSet
  <2> QED BY <2>1, <2>2, <2>3
<1>9. new = {a \in answer : \A i \in DOMAIN earlier : earlier[i][1] # a[1]}
  OBVIOUS
<1>10. Len(earlier) \in Nat /\ Len(merged) \in Nat /\ Len(merged) >= Len(earlier)
  BY <1>5
<1> QED BY <1>2, <1>3, <1>4, <1>7, <1>8, <1>9, <1>10

\* What a chain of providers is made of.
LEMMA ChainsAre ==
  ASSUME BriefingAssumption, settings \in SampleSettings
  PROVE  /\ GenerateChain(settings, TRUE) \in Seq(Providers) /\ CloudChain(settings, TRUE) \in Seq(Providers)
         /\ settings.demo /\ ProxyConfigured(settings) =>
              /\ GenerateChain(settings, TRUE) \in Seq({Proxy, Local})
              /\ CloudChain(settings, TRUE) \in Seq({Proxy, Local})
<1>1. \A quality \in BOOLEAN : GeminiModels(settings, quality) \in Seq(Providers)
  <2>1. settings.models \in Seq(STRING)
    BY DEF BriefingAssumption
  <2>2. \A i \in DOMAIN settings.models : settings.models[i] \in Providers
    BY DEF Providers, ToSet
  <2>3. settings.models \in [1..Len(settings.models) -> Providers] /\ Len(settings.models) \in Nat
    BY <2>1, <2>2
  <2>4. settings.models \in Seq(Providers)
    BY <2>3
  <2>5. Len(settings.models) > 1 => Tail(settings.models) \in Seq(Providers)
    BY <2>4
  <2> QED BY <2>3, <2>4, <2>5 DEF GeminiModels
<1>2. \A quality \in BOOLEAN : DirectProviders(settings, quality) \in Seq(Providers)
  <2>1. <<Groq>> \in Seq(Providers) /\ <<>> \in Seq(Providers)
    BY DEF Providers
  <2> QED BY <1>1, <2>1 DEF DirectProviders
<1>3. \A quality \in BOOLEAN : CloudChain(settings, quality) \in Seq(Providers)
  <2>1. <<Proxy>> \in Seq(Providers) /\ <<>> \in Seq(Providers)
    BY DEF Providers
  <2> QED BY <1>2, <2>1 DEF CloudChain
<1>4. GenerateChain(settings, TRUE) \in Seq(Providers)
  <2>1. <<Local>> \in Seq(Providers) /\ <<>> \in Seq(Providers)
    BY DEF Providers
  <2>2. CloudChain(settings, FALSE) \in Seq(Providers)
    BY <1>3
  <2>3. GenerateChain(settings, TRUE) \in
          {<<Local>> \o CloudChain(settings, FALSE), <<>> \o CloudChain(settings, FALSE)}
    BY Zenon DEF GenerateChain
  <2>4. \A c \in Seq(Providers) : <<Local>> \o c \in Seq(Providers) /\ <<>> \o c \in Seq(Providers)
    BY <2>1
  <2> QED BY <2>2, <2>3, <2>4, Zenon
<1>5. ASSUME settings.demo, ProxyConfigured(settings)
      PROVE  \A quality \in BOOLEAN : CloudChain(settings, quality) \in Seq({Proxy, Local})
  BY <1>5 DEF CloudChain
<1>6. ASSUME settings.demo, ProxyConfigured(settings)
      PROVE  GenerateChain(settings, TRUE) \in Seq({Proxy, Local})
  <2>1. <<Local>> \in Seq({Proxy, Local}) /\ <<>> \in Seq({Proxy, Local})
    OBVIOUS
  <2>2. CloudChain(settings, FALSE) \in Seq({Proxy, Local})
    BY <1>5, <1>6
  <2>3. GenerateChain(settings, TRUE) \in
          {<<Local>> \o CloudChain(settings, FALSE), <<>> \o CloudChain(settings, FALSE)}
    BY Zenon DEF GenerateChain
  <2>4. \A c \in Seq({Proxy, Local}) : <<Local>> \o c \in Seq({Proxy, Local}) /\ <<>> \o c \in Seq({Proxy, Local})
    BY <2>1
  <2> QED BY <2>2, <2>3, <2>4, Zenon
<1> QED BY <1>3, <1>4, <1>5, <1>6

\* How a command ends.
LEMMA EndsIs ==
  ASSUME brief \in Briefs, NEW code \in {0, 1}
  PROVE  /\ Ends(code) \in Briefs /\ Ends(code).phase = "ended" /\ Ends(code).code = code
         /\ Ends(code).queries = brief.queries /\ Ends(code).listed = brief.listed /\ Ends(code).chain = brief.chain
         /\ Ends(code).asked = brief.asked /\ Ends(code).name = brief.name /\ Ends(code).complete = brief.complete
<1>1. code \in -1..1
  OBVIOUS
<1> QED BY <1>1 DEF Ends, Briefs

\* A command that has not begun is one.
LEMMA BlankBrief ==
  /\ NoCommand \in Briefs /\ NoCommand.phase = "none" /\ NoCommand.code = -1
  /\ NoCommand.queries = <<>> /\ NoCommand.listed = <<>> /\ NoCommand.chain = <<>> /\ NoCommand.asked = <<>>
BY DEF NoCommand, Briefs, Raw

\* The invariant holds before the first command.
LEMMA BriefInvInit == BriefingAssumption /\ BriefingInit => BriefInv
<1> SUFFICES ASSUME BriefingAssumption, BriefingInit PROVE BriefInv
  OBVIOUS
<1>1. BriefTyped
  BY BlankBrief DEF BriefingInit, BriefTyped, Days
<1>2. PhasesAreKept /\ ListedOnce /\ ListedAsIs /\ AsksInPrivate
  BY BlankBrief DEF BriefingInit, PhasesAreKept, InPhase, ListedOnce, ListedAsIs, AsksInPrivate
<1>3. ListsAnswers
  BY BlankBrief DEF BriefingInit, ListsAnswers, InPhase
<1> QED BY <1>1, <1>2, <1>3 DEF BriefInv

\* A command begins with all of its requests to make.
LEMMA RunCommandKeeps ==
  ASSUME BriefInv, NEW name \in Commands, NEW print \in BOOLEAN, NEW llm \in BOOLEAN, RunCommand(name, print, llm)
  PROVE  BriefInv'
<1> DEFINE b == [NoCommand EXCEPT !.phase = IF Queries(name) = <<>> THEN "built" ELSE "fetch", !.name = name,
                               !.queries = Queries(name), !.print = print, !.llm = llm]
<1>1. /\ b \in Briefs /\ b.phase = (IF Queries(name) = <<>> THEN "built" ELSE "fetch") /\ b.name = name
      /\ b.queries = Queries(name) /\ b.code = -1 /\ b.listed = <<>> /\ b.chain = <<>> /\ b.asked = <<>>
  BY BlankBrief, QueriesAre DEF Briefs
<1>2. brief' = b /\ steady' = BriefTasks /\ due' = due /\ settings' = settings
  BY DEF RunCommand, Becomes
<1> HIDE DEF b
<1>3. BriefTyped'
  BY <1>1, <1>2 DEF BriefInv, BriefTyped
<1>4. PhasesAreKept'
  BY <1>1, <1>2 DEF PhasesAreKept, InPhase
<1>6. ListedOnce' /\ ListedAsIs'
  BY <1>1, <1>2 DEF ListedOnce, ListedAsIs
<1>7. AsksInPrivate'
  <2>1. <<>> \in Seq({Proxy, Local})
    OBVIOUS
  <2> QED BY <1>1, <1>2, <2>1 DEF AsksInPrivate
<1>5. ListsAnswers'
  BY <1>1, <1>2 DEF ListsAnswers, ToSet
<1> QED BY <1>3, <1>4, <1>5, <1>6, <1>7 DEF BriefInv

\* The tasks that fit a request, and tasks with their days.
Fitting(query) == {u \in BriefTasks : Matches(query, due[u])}
WithDays(got) == {<<t, due[t]>> : t \in got}

\* What Todoist answers to a request: tasks that fit it, with their days, and all of
\* them unless it is a filter's full page.
LEMMA AnswerIs ==
  ASSUME BriefingAssumption, due \in [BriefTasks -> Days], NEW query, NEW got \in Answers(query, Fitting(query))
  PROVE  /\ WithDays(got) \in SUBSET Entries /\ IsFiniteSet(WithDays(got))
         /\ \A a, c \in WithDays(got) : a[1] = c[1] => a = c
         /\ \A a \in WithDays(got) : a \in BriefTasks \X DueDays
         /\ got \subseteq Fitting(query) /\ IsFiniteSet(got)
         /\ got = Fitting(query) \/ (query # "tasks" /\ Cardinality(got) = FilterLimit)
<1> DEFINE entry == [u \in got |-> <<u, due[u]>>]
<1>1. IsFiniteSet(Fitting(query))
  BY FS_Subset DEF BriefingAssumption, Fitting
<1>2. /\ got \subseteq Fitting(query)
      /\ got = Fitting(query) \/ (query # "tasks" /\ Cardinality(got) = FilterLimit)
  BY DEF Answers, kSubset
<1>3. IsFiniteSet(got)
  BY <1>1, <1>2, FS_Subset
<1>4. entry \in Surjection(got, WithDays(got))
  BY DEF Surjection, WithDays
<1>5. IsFiniteSet(WithDays(got))
  BY <1>3, <1>4, FS_Surjection
<1>6. \A u \in got : u \in BriefTasks /\ due[u] \in DueDays
  BY <1>2 DEF Matches, Days, Fitting
<1>7. \A a \in WithDays(got) : \E u \in got : a = <<u, due[u]>>
  BY DEF WithDays
<1>8. \A a \in WithDays(got) : a \in BriefTasks \X DueDays /\ a[2] = due[a[1]]
  BY <1>6, <1>7
<1>9. \A a, c \in WithDays(got) : a[1] = c[1] => a = c
  BY <1>8
<1>10. WithDays(got) \in SUBSET Entries
  BY <1>8 DEF Entries, Days
<1> QED BY <1>2, <1>3, <1>5, <1>8, <1>9, <1>10

\* A list that names each of some tasks is at least as long as they are many.
LEMMA NamesAreEntries ==
  ASSUME NEW briefed \in Seq(Entries), NEW got, IsFiniteSet(got),
         \A t \in got : \E i \in DOMAIN briefed : briefed[i][1] = t
  PROVE  Len(briefed) \in Nat /\ Len(briefed) >= Cardinality(got)
<1> DEFINE places == 1..Len(briefed)
           names == {briefed[i][1] : i \in places}
           name == [i \in places |-> briefed[i][1]]
<1>1. Len(briefed) \in Nat /\ DOMAIN briefed = places
  OBVIOUS
<1>2. IsFiniteSet(places) /\ Cardinality(places) = Len(briefed)
  BY <1>1, FS_Interval
<1>3. name \in Surjection(places, names)
  BY DEF Surjection
<1>4. IsFiniteSet(names) /\ Cardinality(names) <= Cardinality(places)
  BY <1>2, <1>3, FS_Surjection
<1>5. got \in SUBSET names
  BY <1>1
<1>6. Cardinality(got) <= Cardinality(names) /\ Cardinality(got) \in Nat /\ Cardinality(names) \in Nat
  BY <1>4, <1>5, FS_Subset, FS_CardinalityType
<1> QED BY <1>1, <1>2, <1>4, <1>6

\* A request is answered, or is not, or ends the command.
LEMMA FetchListKeeps ==
  ASSUME BriefingAssumption, BriefInv, FetchList
  PROVE  BriefInv'
<1> DEFINE query == Head(brief.queries)
           rest == Tail(brief.queries)
           next == [brief EXCEPT !.queries = rest, !.phase = IF rest = <<>> THEN "built" ELSE "fetch"]
<1>1. /\ brief \in Briefs /\ brief.phase = "fetch" /\ brief.code = -1 /\ brief.queries # <<>>
      /\ due \in [BriefTasks -> Days] /\ steady \subseteq BriefTasks
  BY DEF BriefInv, BriefTyped, PhasesAreKept, FetchList, InPhase
<1>2. brief.queries \in Seq(Requests) /\ rest \in Seq(Requests) /\ ToSet(brief.queries) = {query} \cup ToSet(rest)
  <2>1. brief.queries \in Seq(Requests)
    BY <1>1 DEF Briefs
  <2>2. rest \in Seq(Requests) /\ Len(rest) = Len(brief.queries) - 1 /\ Len(brief.queries) \in Nat \ {0}
    BY <1>1, <2>1
  <2>3. \A i \in 1..Len(rest) : rest[i] = brief.queries[i + 1]
    BY <1>1, <2>1, <2>2
  <2>4. query = brief.queries[1]
    BY <1>1, <2>1
  <2>5. \A i \in 1..Len(brief.queries) : i = 1 \/ (i - 1 \in 1..Len(rest) /\ brief.queries[i] = rest[i - 1])
    BY <2>2, <2>3
  <2>6. DOMAIN rest = 1..Len(rest) /\ DOMAIN brief.queries = 1..Len(brief.queries)
    BY <2>1, <2>2
  <2> HIDE DEF query, rest
  <2>7. ASSUME NEW q \in ToSet(brief.queries) PROVE q \in {query} \cup ToSet(rest)
    <3>1. PICK i \in 1..Len(brief.queries) : q = brief.queries[i]
      BY <2>6 DEF ToSet
    <3>2. CASE i = 1
      BY <2>4, <3>1, <3>2
    <3>3. CASE i # 1
      BY <2>5, <2>6, <3>1, <3>3 DEF ToSet
    <3> QED BY <3>2, <3>3
  <2>8. ASSUME NEW q \in ToSet(rest) PROVE q \in ToSet(brief.queries)
    <3>1. PICK i \in 1..Len(rest) : q = rest[i]
      BY <2>6 DEF ToSet
    <3>2. i + 1 \in DOMAIN brief.queries
      BY <2>2, <2>6
    <3> QED BY <2>3, <3>1, <3>2 DEF ToSet
  <2>9. query \in ToSet(brief.queries)
    BY <2>2, <2>4, <2>6 DEF ToSet
  <2> QED BY <2>1, <2>2, <2>7, <2>8, <2>9
<1>3. due' = due /\ settings' = settings /\ steady' = steady
  BY DEF FetchList
<1>4. next \in Briefs /\ next.listed = brief.listed /\ next.complete = brief.complete
  BY <1>1, <1>2 DEF Briefs
<1>6. \/ \E got \in Answers(query, Fitting(query)) : brief' = [next EXCEPT !.listed = Merged(@, WithDays(got))]
      \/ brief' = [next EXCEPT !.complete = FALSE]
      \/ brief' = Ends(1)
  BY DEF FetchList, Becomes, Fitting, WithDays
<1>7. CASE brief' = Ends(1)
  <2>1. /\ brief' \in Briefs /\ brief'.phase = "ended" /\ brief'.code = 1
        /\ brief'.listed = brief.listed /\ brief'.chain = brief.chain /\ brief'.asked = brief.asked
    BY <1>1, <1>7, EndsIs
  <2> QED BY <1>3, <2>1 
         DEF BriefInv, BriefTyped, PhasesAreKept, InPhase, ListedOnce, ListedAsIs, ListsAnswers, AsksInPrivate
<1>8. CASE brief' = [next EXCEPT !.complete = FALSE]
  <2>1. /\ brief' \in Briefs /\ brief'.phase = (IF rest = <<>> THEN "built" ELSE "fetch") /\ brief'.code = -1
        /\ brief'.listed = brief.listed /\ brief'.chain = brief.chain /\ brief'.asked = brief.asked
        /\ brief'.queries = rest /\ ~brief'.complete
    BY <1>1, <1>2, <1>8 DEF Briefs
  <2> HIDE DEF rest
  <2> QED BY <1>3, <2>1 
         DEF BriefInv, BriefTyped, PhasesAreKept, InPhase, ListedOnce, ListedAsIs, ListsAnswers, AsksInPrivate
<1>9. ASSUME NEW got \in Answers(query, Fitting(query)), brief' = [next EXCEPT !.listed = Merged(@, WithDays(got))]
      PROVE  BriefInv'
  <2> DEFINE earlier == brief.listed
             entries == WithDays(got)
             merged == Merged(earlier, entries)
  <2>8. /\ entries \in SUBSET Entries /\ IsFiniteSet(entries) /\ \A a, c \in entries : a[1] = c[1] => a = c
        /\ IsFiniteSet(got) /\ got \subseteq Fitting(query)
        /\ got = Fitting(query) \/ (query # "tasks" /\ Cardinality(got) = FilterLimit)
    <3> HIDE DEF query
    <3> QED BY <1>1, AnswerIs
  <2>9. \A u \in got : <<u, due[u]>> \in entries
    BY DEF WithDays
  <2>10. \A a \in entries : a[2] = due[a[1]]
    BY DEF WithDays
  <2> HIDE DEF entries
  <2>1. earlier \in Seq(Entries) /\ \A i, j \in DOMAIN earlier : earlier[i][1] = earlier[j][1] => i = j
    BY <1>1 DEF Briefs, BriefInv, ListedOnce
  <2>2. /\ merged \in Seq(Entries)
        /\ \A i, j \in DOMAIN merged : merged[i][1] = merged[j][1] => i = j
        /\ ToSet(merged) = ToSet(earlier) \cup {a \in entries : \A i \in DOMAIN earlier : earlier[i][1] # a[1]}
        /\ Len(earlier) \in Nat /\ Len(merged) \in Nat /\ Len(merged) >= Len(earlier)
    <3>1. earlier \in Seq(Entries) /\ entries \in SUBSET Entries /\ IsFiniteSet(entries)
      BY <2>1, <2>8
    <3> HIDE DEF earlier
    <3> QED BY <2>1, <2>8, <3>1, MergedIs
  <2> HIDE DEF merged
  <2>3. /\ brief' \in Briefs /\ brief'.phase = (IF rest = <<>> THEN "built" ELSE "fetch") /\ brief'.code = -1
        /\ brief'.listed = merged /\ brief'.chain = brief.chain /\ brief'.asked = brief.asked
        /\ brief'.queries = rest /\ brief'.name = brief.name /\ brief'.complete = brief.complete
    <3>1. brief' = [next EXCEPT !.listed = merged]
      BY <1>4, <1>9 DEF merged, entries
    <3> QED BY <1>1, <1>2, <1>4, <2>2, <3>1 DEF Briefs
  <2> HIDE DEF rest, next
  <2>4. BriefTyped' /\ PhasesAreKept' /\ AsksInPrivate'
    BY <1>3, <2>3 DEF BriefInv, BriefTyped, PhasesAreKept, InPhase, AsksInPrivate
  <2>5. ListedOnce'
    BY <2>2, <2>3 DEF ListedOnce
  <2>6. ListedAsIs'
    <3> SUFFICES ASSUME NEW t \in steady, NEW i \in DOMAIN merged, merged[i][1] = t
                 PROVE  merged[i][2] = due[t]
      BY <1>3, <2>3 DEF ListedAsIs
    <3>1. merged[i] \in ToSet(merged)
      BY DEF ToSet
    <3>2. CASE merged[i] \in ToSet(earlier)
      <4>1. PICK j \in DOMAIN earlier : merged[i] = earlier[j]
        BY <3>2 DEF ToSet
      <4> QED BY <4>1 DEF BriefInv, ListedAsIs
    <3>3. CASE merged[i] \in entries
      BY <2>10, <3>3
    <3> QED BY <2>2, <3>1, <3>2, <3>3
  <2>7. ListsAnswers'
    <3> SUFFICES ASSUME brief.complete, NEW t \in steady, NEW i \in DOMAIN Queries(brief.name),
                        Matches(Queries(brief.name)[i], due[t]), Queries(brief.name)[i] \notin ToSet(rest),
                        <<t, due[t]>> \notin ToSet(merged)
                 PROVE  Queries(brief.name) # <<"tasks">> /\ Len(merged) >= FilterLimit
      BY <1>3, <2>3 DEF ListsAnswers, FullPage
    <3>1. FilterLimit \in Nat /\ Len(merged) \in Nat /\ Len(earlier) \in Nat
      BY <2>2 DEF BriefingAssumption
    <3>2. <<t, due[t]>> \notin ToSet(earlier)
      BY <2>2
    <3>3. Queries(brief.name)[i] \in ToSet(brief.queries) \/ FullPage
      BY <1>1, <3>2 DEF BriefInv, ListsAnswers, InPhase
    <3>4. CASE FullPage
      BY <2>2, <3>1, <3>4 DEF FullPage
    <3>5. CASE Queries(brief.name)[i] \in ToSet(brief.queries)
      <4>1. Queries(brief.name)[i] = query /\ t \in Fitting(query)
        BY <1>1, <1>2, <3>5 DEF Fitting
      <4>2. \A u \in BriefTasks : (\A j \in DOMAIN earlier : earlier[j][1] # u) /\ u \in got =>
              <<u, due[u]>> \in ToSet(merged)
        BY <2>2, <2>9
      <4>3. \A j \in DOMAIN earlier : earlier[j][1] # t
        <5>1. ASSUME NEW j \in DOMAIN earlier, earlier[j][1] = t PROVE <<t, due[t]>> \in ToSet(earlier)
          <6>1. earlier[j] = <<t, due[t]>>
            BY <2>1, <5>1 DEF BriefInv, ListedAsIs, Entries
          <6> QED BY <6>1 DEF ToSet
        <5> QED BY <3>2, <5>1
      <4>4. t \notin got
        BY <1>1, <4>2, <4>3
      <4>5. query # "tasks" /\ Cardinality(got) = FilterLimit
        BY <2>8, <4>1, <4>4
      <4>6. Queries(brief.name) # <<"tasks">>
        BY <4>1, <4>5
      <4>7. ASSUME NEW u \in got PROVE \E j \in DOMAIN merged : merged[j][1] = u
        <5>1. u \in BriefTasks
          BY <2>8, <4>7 DEF Fitting
        <5>2. CASE \A j \in DOMAIN earlier : earlier[j][1] # u
          <6>1. <<u, due[u]>> \in ToSet(merged)
            BY <4>2, <5>1, <5>2
          <6> QED BY <6>1 DEF ToSet
        <5>3. ASSUME NEW j \in DOMAIN earlier, earlier[j][1] = u PROVE \E k \in DOMAIN merged : merged[k][1] = u
          <6>1. earlier[j] \in ToSet(merged)
            BY <2>2 DEF ToSet
          <6> QED BY <5>3, <6>1 DEF ToSet
        <5> QED BY <5>2, <5>3
      <4>8. Len(merged) >= Cardinality(got)
        <5> HIDE DEF earlier
        <5> QED BY <2>2, <2>8, <4>7, NamesAreEntries
      <4> QED BY <4>5, <4>6, <4>8
    <3> QED BY <3>3, <3>4, <3>5
  <2> QED BY <2>4, <2>5, <2>6, <2>7 DEF BriefInv
<1> QED BY <1>6, <1>7, <1>8, <1>9

\* The text, and the chain of providers that are to be asked to improve it.
LEMMA BuildTextKeeps ==
  ASSUME BriefingAssumption, BriefInv, BuildText
  PROVE  BriefInv'
<1>1. brief \in Briefs /\ brief.phase = "built" /\ brief.code = -1 /\ brief.queries = <<>>
  BY DEF BriefInv, BriefTyped, PhasesAreKept, BuildText, InPhase
<1>2. due' = due /\ settings' = settings /\ steady' = steady
  BY DEF BuildText
<1>3. PICK phase \in {"ask", "ended"}, code \in {0, -1},
           chain \in {brief.chain, <<>>, GenerateChain(settings, TRUE), CloudChain(settings, TRUE)} :
        /\ brief' = [brief EXCEPT !.phase = phase, !.code = code, !.chain = chain]
        /\ phase # "ended" => code = -1
  <2>1. CASE brief' = Ends(0)
    <3>1. brief' = [brief EXCEPT !.phase = "ended", !.code = 0, !.chain = brief.chain]
      BY <1>1, <2>1 DEF Ends, Briefs
    <3> QED BY <3>1
  <2> DEFINE chain == IF ~brief.llm THEN <<>>
                      ELSE IF brief.name = "generate" THEN GenerateChain(settings, TRUE)
                      ELSE CloudChain(settings, TRUE)
  <2>2. CASE brief' = [brief EXCEPT !.phase = "ask", !.chain = chain]
    <3>1. chain \in {brief.chain, <<>>, GenerateChain(settings, TRUE), CloudChain(settings, TRUE)}
      BY Zenon
    <3> HIDE DEF chain
    <3>2. brief' = [brief EXCEPT !.phase = "ask", !.code = -1, !.chain = chain]
      BY <1>1, <2>2 DEF Briefs
    <3> QED BY <3>1, <3>2
  <2>3. brief' = Ends(0) \/ brief' = [brief EXCEPT !.phase = "ask", !.chain = chain]
    BY Zenon DEF BuildText, Becomes
  <2> QED BY <2>1, <2>2, <2>3
<1>4. /\ settings \in SampleSettings /\ brief.chain \in Seq(Providers)
      /\ <<>> \in Seq(Providers) /\ <<>> \in Seq({Proxy, Local})
  BY <1>1 DEF BriefInv, BriefTyped, Briefs
<1>5. chain \in Seq(Providers)
  BY <1>3, <1>4, ChainsAre, Zenon
<1>6. settings.demo /\ ProxyConfigured(settings) => chain \in Seq({Proxy, Local})
  <2>1. settings.demo /\ ProxyConfigured(settings) => brief.chain \in Seq({Proxy, Local})
    BY DEF BriefInv, AsksInPrivate
  <2> QED BY <1>3, <1>4, <2>1, ChainsAre, Zenon
<1>7. /\ brief' \in Briefs /\ brief'.phase = phase /\ brief'.code = code /\ brief'.chain = chain
      /\ brief'.queries = <<>> /\ brief'.listed = brief.listed /\ brief'.asked = brief.asked
      /\ brief'.name = brief.name /\ brief'.complete = brief.complete
  <2>1. code \in -1..1
    BY <1>3
  <2> QED BY <1>1, <1>3, <1>5, <2>1 DEF Briefs
<1>8. (BriefTyped /\ PhasesAreKept /\ ListedOnce /\ ListedAsIs)'
  BY <1>2, <1>3, <1>7 DEF BriefInv, BriefTyped, PhasesAreKept, InPhase, ListedOnce, ListedAsIs
<1>9. ListsAnswers'
  BY <1>1, <1>2, <1>3, <1>7 DEF BriefInv, ListsAnswers, InPhase, FullPage
<1>10. AsksInPrivate'
  BY <1>2, <1>6, <1>7 DEF BriefInv, AsksInPrivate, ProxyConfigured
<1> QED BY <1>8, <1>9, <1>10 DEF BriefInv

\* The next provider of the chain is asked, or is not there to be asked.
LEMMA AskProviderKeeps ==
  ASSUME BriefInv, AskProvider
  PROVE  BriefInv'
<1> DEFINE provider == Head(brief.chain)
           asked == IF Returns(settings, provider) = {NoText} THEN brief.asked ELSE Append(brief.asked, provider)
<1>1. /\ brief \in Briefs /\ brief.phase = "ask" /\ brief.code = -1 /\ brief.queries = <<>> /\ brief.chain # <<>>
      /\ brief.chain \in Seq(Providers) /\ brief.asked \in Seq(Providers)
  BY DEF BriefInv, BriefTyped, PhasesAreKept, AskProvider, InPhase, Briefs
<1>2. due' = due /\ settings' = settings /\ steady' = steady
  BY DEF AskProvider
<1>3. /\ provider \in Providers /\ Tail(brief.chain) \in Seq(Providers)
      /\ asked \in Seq(Providers) /\ <<>> \in Seq(Providers)
  BY <1>1
<1>4. settings.demo /\ ProxyConfigured(settings) =>
        Tail(brief.chain) \in Seq({Proxy, Local}) /\ asked \in Seq({Proxy, Local}) /\ <<>> \in Seq({Proxy, Local})
  <2> SUFFICES ASSUME settings.demo, ProxyConfigured(settings)
               PROVE  /\ Tail(brief.chain) \in Seq({Proxy, Local}) /\ asked \in Seq({Proxy, Local})
                      /\ <<>> \in Seq({Proxy, Local})
    OBVIOUS
  <2>1. brief.chain \in Seq({Proxy, Local}) /\ brief.asked \in Seq({Proxy, Local})
    BY DEF BriefInv, AsksInPrivate
  <2> QED BY <1>1, <2>1
<1>5. \A text \in Returns(settings, provider) : text \in Providers \cup {Raw, NoText}
  BY <1>3 DEF Returns, ProxyReturns, GroqReturns, LocalReturns, GeminiReturns, Providers
<1>6. PICK chain \in {<<>>, Tail(brief.chain)}, text \in Providers \cup {Raw, NoText} :
        brief' = [brief EXCEPT !.asked = asked, !.chain = chain, !.text = text]
  <2>1. PICK text \in Returns(settings, provider) :
          brief' = (IF text = NoText THEN [brief EXCEPT !.asked = asked, !.chain = Tail(@)]
                    ELSE [brief EXCEPT !.asked = asked, !.chain = <<>>, !.text = text])
    BY DEF AskProvider, Becomes
  <2> HIDE DEF asked
  <2>2. CASE text = NoText
    <3>1. brief' = [brief EXCEPT !.asked = asked, !.chain = Tail(brief.chain), !.text = brief.text]
      BY <1>1, <2>1, <2>2 DEF Briefs
    <3>2. brief.text \in Providers \cup {Raw, NoText}
      BY <1>1 DEF Briefs
    <3> QED BY <3>1, <3>2
  <2>3. CASE text # NoText
    BY <1>5, <2>1, <2>3
  <2> QED BY <2>2, <2>3
<1> HIDE DEF asked
<1>7. /\ brief' \in Briefs /\ brief'.phase = "ask" /\ brief'.code = -1 /\ brief'.chain = chain /\ brief'.asked = asked
      /\ brief'.queries = <<>> /\ brief'.listed = brief.listed
      /\ brief'.name = brief.name /\ brief'.complete = brief.complete
  BY <1>1, <1>3, <1>6 DEF Briefs
<1>8. (BriefTyped /\ PhasesAreKept /\ ListedOnce /\ ListedAsIs)'
  BY <1>2, <1>7 DEF BriefInv, BriefTyped, PhasesAreKept, InPhase, ListedOnce, ListedAsIs
<1>9. ListsAnswers'
  BY <1>1, <1>2, <1>7 DEF BriefInv, ListsAnswers, InPhase, FullPage
<1>10. AsksInPrivate'
  BY <1>2, <1>4, <1>6, <1>7 DEF AsksInPrivate, ProxyConfigured
<1> QED BY <1>8, <1>9, <1>10 DEF BriefInv

\* The text is printed or mailed.
LEMMA DeliverKeeps ==
  ASSUME BriefInv, Deliver
  PROVE  BriefInv'
<1>1. brief \in Briefs /\ brief.phase = "ask" /\ brief.code = -1 /\ brief.queries = <<>>
  BY DEF BriefInv, BriefTyped, PhasesAreKept, Deliver, InPhase
<1>2. due' = due /\ settings' = settings /\ steady' = steady
  BY DEF Deliver
<1>3. PICK code \in {0, 1}, mailed \in BOOLEAN : brief' = [Ends(code) EXCEPT !.mailed = mailed]
  <2>1. CASE brief' = Ends(0)
    <3>1. brief' = [Ends(0) EXCEPT !.mailed = Ends(0).mailed] /\ Ends(0).mailed \in BOOLEAN
      BY <1>1, <2>1, EndsIs DEF Briefs
    <3> QED BY <3>1
  <2>2. CASE \E sent \in BOOLEAN : brief' = [Ends(IF sent THEN 0 ELSE 1) EXCEPT !.mailed = sent]
    BY <2>2
  <2> QED BY <2>1, <2>2 DEF Deliver, Becomes
<1>4. /\ brief' \in Briefs /\ brief'.phase = "ended" /\ brief'.chain = brief.chain /\ brief'.asked = brief.asked
      /\ brief'.queries = <<>> /\ brief'.listed = brief.listed
      /\ brief'.name = brief.name /\ brief'.complete = brief.complete
  BY <1>1, <1>3, EndsIs DEF Briefs
<1>5. (BriefTyped /\ PhasesAreKept /\ ListedOnce /\ ListedAsIs)'
  BY <1>2, <1>4 DEF BriefInv, BriefTyped, PhasesAreKept, InPhase, ListedOnce, ListedAsIs
<1>6. ListsAnswers'
  BY <1>1, <1>2, <1>4 DEF BriefInv, ListsAnswers, InPhase, FullPage
<1>7. AsksInPrivate'
  BY <1>2, <1>4 DEF BriefInv, AsksInPrivate, ProxyConfigured
<1> QED BY <1>5, <1>6, <1>7 DEF BriefInv

\* Nothing is kept of a command once the next may begin.
LEMMA NextRunKeeps ==
  ASSUME BriefInv, NextRun
  PROVE  BriefInv'
<1>1. brief' = NoCommand /\ due' = due /\ settings' = settings /\ steady' = steady
  BY DEF NextRun, Becomes
<1>2. BriefTyped'
  BY <1>1, BlankBrief DEF BriefInv, BriefTyped
<1>3. PhasesAreKept' /\ ListsAnswers'
  BY <1>1, BlankBrief DEF PhasesAreKept, ListsAnswers, InPhase
<1>4. ListedOnce' /\ ListedAsIs'
  BY <1>1, BlankBrief DEF ListedOnce, ListedAsIs
<1>5. AsksInPrivate'
  <2>1. <<>> \in Seq({Proxy, Local})
    OBVIOUS
  <2> QED BY <1>1, <2>1, BlankBrief DEF AsksInPrivate
<1> QED BY <1>2, <1>3, <1>4, <1>5 DEF BriefInv

\* What the user does to a task says nothing of those left alone.
LEMMA RescheduleKeeps ==
  ASSUME BriefInv, NEW t \in BriefTasks, NEW d \in Days, Reschedule(t, d)
  PROVE  BriefInv'
<1>1. due' = [due EXCEPT ![t] = d] /\ settings' = settings /\ steady' = steady \ {t} /\ brief' = brief
  BY DEF Reschedule
<1>2. BriefTyped'
  BY <1>1 DEF BriefInv, BriefTyped
<1>3. \A u \in steady' : u \in steady /\ due'[u] = due[u]
  BY <1>1 DEF BriefInv, BriefTyped
<1>4. PhasesAreKept' /\ ListedOnce'
  BY <1>1 DEF BriefInv, PhasesAreKept, ListedOnce, InPhase
<1>5. ListedAsIs'
  BY <1>1, <1>3 DEF BriefInv, ListedAsIs
<1>6. ListsAnswers'
  BY <1>1, <1>3 DEF BriefInv, ListsAnswers, InPhase, FullPage
<1>7. AsksInPrivate'
  BY <1>1 DEF BriefInv, AsksInPrivate, ProxyConfigured
<1> QED BY <1>2, <1>4, <1>5, <1>6, <1>7 DEF BriefInv

\* Every step of the command line keeps the invariant.
LEMMA BriefInvStep == BriefingAssumption /\ BriefInv /\ [BriefingNext]_briefVars => BriefInv'
<1> SUFFICES ASSUME BriefingAssumption, BriefInv, [BriefingNext]_briefVars PROVE BriefInv'
  OBVIOUS
<1>1. ASSUME NEW name \in Commands, NEW print \in BOOLEAN, NEW llm \in BOOLEAN, RunCommand(name, print, llm)
      PROVE  BriefInv'
  BY <1>1, RunCommandKeeps
<1>2. CASE FetchList
  BY <1>2, FetchListKeeps
<1>3. CASE BuildText
  BY <1>3, BuildTextKeeps
<1>4. CASE AskProvider
  BY <1>4, AskProviderKeeps
<1>5. CASE Deliver
  BY <1>5, DeliverKeeps
<1>6. CASE NextRun
  BY <1>6, NextRunKeeps
<1>7. ASSUME NEW t \in BriefTasks, NEW d \in DueDays \cup {Completed}, Reschedule(t, d) PROVE BriefInv'
  BY <1>7, RescheduleKeeps DEF Days
<1>8. CASE UNCHANGED briefVars
  <2>1. due' = due /\ settings' = settings /\ steady' = steady /\ brief' = brief
    BY <1>8 DEF briefVars
  <2>2. (BriefTyped /\ PhasesAreKept /\ ListedOnce /\ ListedAsIs)'
    BY <2>1 DEF BriefInv, BriefTyped, PhasesAreKept, InPhase, ListedOnce, ListedAsIs
  <2>3. ListsAnswers'
    BY <2>1 DEF BriefInv, ListsAnswers, InPhase, FullPage
  <2>4. AsksInPrivate'
    BY <2>1 DEF BriefInv, AsksInPrivate, ProxyConfigured
  <2> QED BY <2>2, <2>3, <2>4 DEF BriefInv
<1> QED BY <1>1, <1>2, <1>3, <1>4, <1>5, <1>6, <1>7, <1>8 DEF BriefingNext

\* At the end of a command there is no request left to make.
LEMMA HoldsByInv == BriefInv => BriefingHoldsTheDay
<1> SUFFICES ASSUME BriefInv, InPhase("ended"), brief.code = 0
             PROVE  /\ ListedOnce
                    /\ brief.complete =>
                         \A t \in steady : About(brief.name, due[t]) =>
                           <<t, due[t]>> \in ToSet(brief.listed) \/ FullPage
                    /\ settings.demo /\ ProxyConfigured(settings) => ToSet(brief.asked) \subseteq {Proxy, Local}
  BY DEF BriefingHoldsTheDay, ListedOnce, FullPage
<1>1. ToSet(brief.queries) = {}
  BY DEF BriefInv, PhasesAreKept, InPhase, ToSet
<1>2. \A s \in Seq({Proxy, Local}) : ToSet(s) \subseteq {Proxy, Local}
  BY DEF ToSet
<1> QED BY <1>1, <1>2 DEF BriefInv, ListsAnswers, AsksInPrivate, InPhase, About

\* _cmd_daily and its siblings, _get_active_tasks and improve_text: a briefing that
\* is given out has each task once, each task of its day that the user left alone
\* if every request was answered and no filter can have come to the end of its page,
\* and was shown to no cloud in a private demo.
THEOREM BriefingAlwaysHoldsTheDay == BriefingSpec => []BriefingHoldsTheDay
<1>1. BriefingInit => BriefInv
  BY BriefInvInit, BriefingAssumption
<1>2. BriefInv /\ [BriefingNext]_briefVars => BriefInv'
  BY BriefInvStep, BriefingAssumption
<1>3. BriefInv => BriefingHoldsTheDay
  BY HoldsByInv
<1> QED BY <1>1, <1>2, <1>3, PTL DEF BriefingSpec

------------------------------------------------------------------------------
(***************************************************************************)
(* notion.py and cli.py: any number of setups and rebuilds of a dashboard. *)
(***************************************************************************)

\* The steps a setup is made of.
SetupStepSet ==
  [do : {"sections", "section", "fill", "page", "database", "print"},
   on : Planners \cup Parts \cup {"board", "root", "ids"}]

\* The concatenation of two sequences, by place.
LEMMA JoinIs ==
  ASSUME NEW S, NEW s \in Seq(S), NEW r \in Seq(S)
  PROVE  /\ s \o r \in Seq(S) /\ Len(s \o r) = Len(s) + Len(r)
         /\ \A i \in 1..Len(s) : (s \o r)[i] = s[i]
<1> DEFINE t == s \o r
<1>1. \A i \in 1..Len(s) + Len(r) : t[i] = IF i <= Len(s) THEN s[i] ELSE r[i - Len(s)]
  BY ConcatProperties, Zenon
<1>2. t \in Seq(S) /\ Len(t) = Len(s) + Len(r)
  BY ConcatProperties, Zenon
<1>6. Len(s) \in Nat /\ Len(r) \in Nat
  OBVIOUS
<1> HIDE DEF t
<1>4. \A i \in 1..Len(s) : t[i] = s[i]
  BY <1>1, <1>6
<1> QED BY <1>2, <1>4 DEF t

\* The part of it that is the second.
LEMMA JoinGoesOn ==
  ASSUME NEW S, NEW s \in Seq(S), NEW r \in Seq(S), NEW i \in 1..Len(r)
  PROVE  (s \o r)[Len(s) + i] = r[i]
<1> DEFINE t == s \o r
<1>1. \A j \in 1..Len(s) + Len(r) : t[j] = IF j <= Len(s) THEN s[j] ELSE r[j - Len(s)]
  BY ConcatProperties, Zenon
<1>6. Len(s) \in Nat /\ Len(r) \in Nat
  OBVIOUS
<1> HIDE DEF t
<1>5. t[Len(s) + i] = r[i]
  BY <1>1, <1>6
<1> QED BY <1>5 DEF t

\* Short sequences, by place.
LEMMA OneStepIs ==
  ASSUME NEW S, NEW a \in S
  PROVE  <<a>> \in Seq(S) /\ Len(<<a>>) = 1 /\ <<a>>[1] = a
OBVIOUS

\* And longer ones.
LEMMA FourStepsAre ==
  ASSUME NEW S, NEW a \in S, NEW b \in S, NEW c \in S, NEW d \in S
  PROVE  /\ <<a, b, c, d>> \in Seq(S) /\ Len(<<a, b, c, d>>) = 4
         /\ <<a, b, c, d>>[1] = a /\ <<a, b, c, d>>[2] = b /\ <<a, b, c, d>>[3] = c /\ <<a, b, c, d>>[4] = d
OBVIOUS

\* The steps of a itsPage are steps of a setup.
LEMMA PageStepsAre ==
  ASSUME NEW part \in Parts
  PROVE  /\ Step("page", part) \in SetupStepSet /\ Step("fill", part) \in SetupStepSet
         /\ Step("database", part) \in SetupStepSet
BY DEF Step, SetupStepSet

\* _create_planner_page and _create_board_page at the end of what was done before.
LEMMA PlannerJoins ==
  ASSUME NEW part \in Parts, NEW s \in Seq(SetupStepSet), NEW n \in Nat
  PROVE  Len(s) = n =>
         /\ s \o PlannerPage(part) \in Seq(SetupStepSet) /\ Len(s \o PlannerPage(part)) = n + 3
         /\ \A i \in 1..n : (s \o PlannerPage(part))[i] = s[i]
         /\ (s \o PlannerPage(part))[n + 1] = Step("page", part)
         /\ (s \o PlannerPage(part))[n + 2] = Step("fill", part)
         /\ (s \o PlannerPage(part))[n + 3] = Step("database", part)
<1> DEFINE itsPage == Step("page", part)
           itsFill == Step("fill", part)
           itsDatabase == Step("database", part)
<1>1. itsPage \in SetupStepSet /\ itsFill \in SetupStepSet /\ itsDatabase \in SetupStepSet
  BY PageStepsAre
<1>2. PlannerPage(part) = <<itsPage, itsFill, itsDatabase>>
  BY DEF PlannerPage
<1> HIDE DEF itsPage, itsFill, itsDatabase
<1> DEFINE r == <<itsPage, itsFill, itsDatabase>>
           t == s \o r
<1>3. r \in Seq(SetupStepSet) /\ Len(r) = 3 /\ r[1] = itsPage /\ r[2] = itsFill /\ r[3] = itsDatabase
  BY <1>1
<1> HIDE DEF r
<1>4. r \in Seq(SetupStepSet)
  BY <1>3
<1>5. t \in Seq(SetupStepSet) /\ Len(t) = Len(s) + Len(r)
  BY <1>4, JoinIs, Zenon
<1>6. \A i \in 1..Len(s) : t[i] = s[i]
  BY <1>4, JoinIs, Zenon
<1>7. \A i \in 1..Len(r) : t[Len(s) + i] = r[i]
  BY <1>4, JoinGoesOn, Zenon
<1> HIDE DEF t
<1>8. Len(s) = n =>
        /\ t \in Seq(SetupStepSet) /\ Len(t) = n + 3 /\ \A i \in 1..n : t[i] = s[i]
        /\ t[n + 1] = itsPage /\ t[n + 2] = itsFill /\ t[n + 3] = itsDatabase
  BY <1>3, <1>5, <1>6, <1>7
<1> QED BY <1>2, <1>8, Zenon DEF t, r, itsPage, itsFill, itsDatabase

\* A itsPage without a itsDatabase at the end of what was done before.
LEMMA PlainJoins ==
  ASSUME NEW part \in Parts, NEW s \in Seq(SetupStepSet), NEW n \in Nat
  PROVE  Len(s) = n =>
         /\ s \o PlainPage(part) \in Seq(SetupStepSet) /\ Len(s \o PlainPage(part)) = n + 2
         /\ \A i \in 1..n : (s \o PlainPage(part))[i] = s[i]
         /\ (s \o PlainPage(part))[n + 1] = Step("page", part)
         /\ (s \o PlainPage(part))[n + 2] = Step("fill", part)
<1> DEFINE itsPage == Step("page", part)
           itsFill == Step("fill", part)
<1>1. itsPage \in SetupStepSet /\ itsFill \in SetupStepSet
  BY PageStepsAre
<1>2. PlainPage(part) = <<itsPage, itsFill>>
  BY DEF PlainPage
<1> HIDE DEF itsPage, itsFill
<1> DEFINE r == <<itsPage, itsFill>>
           t == s \o r
<1>3. r \in Seq(SetupStepSet) /\ Len(r) = 2 /\ r[1] = itsPage /\ r[2] = itsFill
  BY <1>1
<1> HIDE DEF r
<1>4. r \in Seq(SetupStepSet)
  BY <1>3
<1>5. t \in Seq(SetupStepSet) /\ Len(t) = Len(s) + Len(r)
  BY <1>4, JoinIs, Zenon
<1>6. \A i \in 1..Len(s) : t[i] = s[i]
  BY <1>4, JoinIs, Zenon
<1>7. \A i \in 1..Len(r) : t[Len(s) + i] = r[i]
  BY <1>4, JoinGoesOn, Zenon
<1> HIDE DEF t
<1>8. Len(s) = n =>
        /\ t \in Seq(SetupStepSet) /\ Len(t) = n + 2 /\ \A i \in 1..n : t[i] = s[i]
        /\ t[n + 1] = itsPage /\ t[n + 2] = itsFill
  BY <1>3, <1>5, <1>6, <1>7
<1> QED BY <1>2, <1>8, Zenon DEF t, r, itsPage, itsFill

\* cmd_notion_setup and setup_dashboard, step by step.
LEMMA SetupStepsAre ==
  /\ Len(SetupSteps) = 22
  /\ SetupSteps[1] = Step("sections", "board")
  /\ SetupSteps[2] = Step("section", "Weekend Planner")
  /\ SetupSteps[3] = Step("section", "Weekly Planner")
  /\ SetupSteps[4] = Step("section", "Daily Planner")
  /\ SetupSteps[5] = Step("fill", "root")
  /\ SetupSteps[6] = Step("page", "command")
  /\ SetupSteps[7] = Step("fill", "command")
  /\ SetupSteps[8] = Step("page", "daily")
  /\ SetupSteps[9] = Step("fill", "daily")
  /\ SetupSteps[10] = Step("database", "daily")
  /\ SetupSteps[11] = Step("page", "weekly")
  /\ SetupSteps[12] = Step("fill", "weekly")
  /\ SetupSteps[13] = Step("database", "weekly")
  /\ SetupSteps[14] = Step("page", "weekend")
  /\ SetupSteps[15] = Step("fill", "weekend")
  /\ SetupSteps[16] = Step("database", "weekend")
  /\ SetupSteps[17] = Step("page", "board")
  /\ SetupSteps[18] = Step("fill", "board")
  /\ SetupSteps[19] = Step("database", "board")
  /\ SetupSteps[20] = Step("page", "blog")
  /\ SetupSteps[21] = Step("fill", "blog")
  /\ SetupSteps[22] = Step("print", "ids")
<1> DEFINE d1 == <<Step("fill", "root")>>
           d2 == d1 \o PlainPage("command")
           d3 == d2 \o PlannerPage("daily")
           d4 == d3 \o PlannerPage("weekly")
           d5 == d4 \o PlannerPage("weekend")
           d6 == d5 \o PlannerPage("board")
           d7 == d6 \o PlainPage("blog")
           first ==
             <<Step("sections", "board"), Step("section", "Weekend Planner"), Step("section", "Weekly Planner"),
               Step("section", "Daily Planner")>>
           most == first \o d7
           last == <<Step("print", "ids")>>
           all == most \o last
<1>1. /\ Step("fill", "root") \in SetupStepSet /\ Step("sections", "board") \in SetupStepSet
      /\ Step("section", "Weekend Planner") \in SetupStepSet /\ Step("section", "Weekly Planner") \in SetupStepSet
      /\ Step("section", "Daily Planner") \in SetupStepSet /\ Step("print", "ids") \in SetupStepSet
  BY DEF Step, SetupStepSet, Planners
<1>2. /\ "command" \in Parts /\ "daily" \in Parts /\ "weekly" \in Parts
      /\ "weekend" \in Parts /\ "board" \in Parts /\ "blog" \in Parts
  BY DEF Parts, WithDatabase
<1>3. SetupSteps = all
  BY DEF SetupSteps, DashboardSteps
<1>4. d1 \in Seq(SetupStepSet) /\ Len(d1) = 1 /\ d1[1] = Step("fill", "root")
  BY <1>1, OneStepIs, Zenon
<1>5. /\ first \in Seq(SetupStepSet) /\ Len(first) = 4 /\ first[1] = Step("sections", "board")
      /\ first[2] = Step("section", "Weekend Planner") /\ first[3] = Step("section", "Weekly Planner")
      /\ first[4] = Step("section", "Daily Planner")
  BY <1>1, FourStepsAre, Zenon
<1>6. last \in Seq(SetupStepSet) /\ Len(last) = 1 /\ last[1] = Step("print", "ids")
  BY <1>1, OneStepIs, Zenon
<1> HIDE DEF d1, first, last
<1>7. /\ d2 \in Seq(SetupStepSet) /\ Len(d2) = 3 /\ \A i \in 1..1 : d2[i] = d1[i]
      /\ d2[2] = Step("page", "command") /\ d2[3] = Step("fill", "command")
  <2>1. 1 \in Nat /\ Len(d1) = 1 /\ d1 \in Seq(SetupStepSet)
    BY <1>4
  <2>2. /\ d2 \in Seq(SetupStepSet) /\ Len(d2) = 1 + 2 /\ \A i \in 1..1 : d2[i] = d1[i]
        /\ d2[1 + 1] = Step("page", "command")
        /\ d2[1 + 2] = Step("fill", "command")
    BY <1>2, <2>1, PlainJoins, Zenon
  <2> HIDE DEF d2
  <2> QED BY <2>2
<1> HIDE DEF d2
<1>8. /\ d3 \in Seq(SetupStepSet) /\ Len(d3) = 6 /\ \A i \in 1..3 : d3[i] = d2[i]
      /\ d3[4] = Step("page", "daily") /\ d3[5] = Step("fill", "daily")
      /\ d3[6] = Step("database", "daily")
  <2>1. 3 \in Nat /\ Len(d2) = 3 /\ d2 \in Seq(SetupStepSet)
    BY <1>7
  <2>2. /\ d3 \in Seq(SetupStepSet) /\ Len(d3) = 3 + 3 /\ \A i \in 1..3 : d3[i] = d2[i]
        /\ d3[3 + 1] = Step("page", "daily")
        /\ d3[3 + 2] = Step("fill", "daily")
        /\ d3[3 + 3] = Step("database", "daily")
    BY <1>2, <2>1, PlannerJoins, Zenon
  <2> HIDE DEF d3
  <2> QED BY <2>2
<1> HIDE DEF d3
<1>9. /\ d4 \in Seq(SetupStepSet) /\ Len(d4) = 9 /\ \A i \in 1..6 : d4[i] = d3[i]
      /\ d4[7] = Step("page", "weekly") /\ d4[8] = Step("fill", "weekly")
      /\ d4[9] = Step("database", "weekly")
  <2>1. 6 \in Nat /\ Len(d3) = 6 /\ d3 \in Seq(SetupStepSet)
    BY <1>8
  <2>2. /\ d4 \in Seq(SetupStepSet) /\ Len(d4) = 6 + 3 /\ \A i \in 1..6 : d4[i] = d3[i]
        /\ d4[6 + 1] = Step("page", "weekly")
        /\ d4[6 + 2] = Step("fill", "weekly")
        /\ d4[6 + 3] = Step("database", "weekly")
    BY <1>2, <2>1, PlannerJoins, Zenon
  <2> HIDE DEF d4
  <2> QED BY <2>2
<1> HIDE DEF d4
<1>10. /\ d5 \in Seq(SetupStepSet) /\ Len(d5) = 12 /\ \A i \in 1..9 : d5[i] = d4[i]
      /\ d5[10] = Step("page", "weekend") /\ d5[11] = Step("fill", "weekend")
      /\ d5[12] = Step("database", "weekend")
  <2>1. 9 \in Nat /\ Len(d4) = 9 /\ d4 \in Seq(SetupStepSet)
    BY <1>9
  <2>2. /\ d5 \in Seq(SetupStepSet) /\ Len(d5) = 9 + 3 /\ \A i \in 1..9 : d5[i] = d4[i]
        /\ d5[9 + 1] = Step("page", "weekend")
        /\ d5[9 + 2] = Step("fill", "weekend")
        /\ d5[9 + 3] = Step("database", "weekend")
    BY <1>2, <2>1, PlannerJoins, Zenon
  <2> HIDE DEF d5
  <2> QED BY <2>2
<1> HIDE DEF d5
<1>11. /\ d6 \in Seq(SetupStepSet) /\ Len(d6) = 15 /\ \A i \in 1..12 : d6[i] = d5[i]
      /\ d6[13] = Step("page", "board") /\ d6[14] = Step("fill", "board")
      /\ d6[15] = Step("database", "board")
  <2>1. 12 \in Nat /\ Len(d5) = 12 /\ d5 \in Seq(SetupStepSet)
    BY <1>10
  <2>2. /\ d6 \in Seq(SetupStepSet) /\ Len(d6) = 12 + 3 /\ \A i \in 1..12 : d6[i] = d5[i]
        /\ d6[12 + 1] = Step("page", "board")
        /\ d6[12 + 2] = Step("fill", "board")
        /\ d6[12 + 3] = Step("database", "board")
    BY <1>2, <2>1, PlannerJoins, Zenon
  <2> HIDE DEF d6
  <2> QED BY <2>2
<1> HIDE DEF d6
<1>12. /\ d7 \in Seq(SetupStepSet) /\ Len(d7) = 17 /\ \A i \in 1..15 : d7[i] = d6[i]
      /\ d7[16] = Step("page", "blog") /\ d7[17] = Step("fill", "blog")
  <2>1. 15 \in Nat /\ Len(d6) = 15 /\ d6 \in Seq(SetupStepSet)
    BY <1>11
  <2>2. /\ d7 \in Seq(SetupStepSet) /\ Len(d7) = 15 + 2 /\ \A i \in 1..15 : d7[i] = d6[i]
        /\ d7[15 + 1] = Step("page", "blog")
        /\ d7[15 + 2] = Step("fill", "blog")
    BY <1>2, <2>1, PlainJoins, Zenon
  <2> HIDE DEF d7
  <2> QED BY <2>2
<1> HIDE DEF d7
<1>13. /\ most \in Seq(SetupStepSet) /\ Len(most) = 21 /\ \A i \in 1..4 : most[i] = first[i]
       /\ \A i \in 1..17 : most[4 + i] = d7[i]
  <2>1. first \in Seq(SetupStepSet) /\ d7 \in Seq(SetupStepSet)
    BY <1>5, <1>12
  <2>2. most \in Seq(SetupStepSet) /\ Len(most) = Len(first) + Len(d7)
    BY <2>1, JoinIs, Zenon
  <2>3. \A i \in 1..Len(first) : most[i] = first[i]
    BY <2>1, JoinIs, Zenon
  <2>4. \A i \in 1..Len(d7) : most[Len(first) + i] = d7[i]
    BY <2>1, JoinGoesOn, Zenon
  <2>5. Len(first) = 4 /\ Len(d7) = 17
    BY <1>5, <1>12
  <2> HIDE DEF most
  <2> QED BY <2>2, <2>3, <2>4, <2>5
<1> HIDE DEF most
<1>14. Len(all) = 22 /\ (\A i \in 1..21 : all[i] = most[i]) /\ all[22] = last[1]
  <2>1. last \in Seq(SetupStepSet) /\ most \in Seq(SetupStepSet)
    BY <1>6, <1>13
  <2>2. Len(all) = Len(most) + Len(last)
    BY <2>1, JoinIs, Zenon
  <2>3. \A i \in 1..Len(most) : all[i] = most[i]
    BY <2>1, JoinIs, Zenon
  <2>4. \A i \in 1..Len(last) : all[Len(most) + i] = last[i]
    BY <2>1, JoinGoesOn, Zenon
  <2> HIDE DEF all
  <2> QED BY <1>6, <1>13, <2>2, <2>3, <2>4
<1> HIDE DEF all
<1>15. \A i \in 1..4 : all[i] = first[i]
  BY <1>13, <1>14
<1>16. \A i \in 5..21 : all[i] = d7[i - 4]
  <2> SUFFICES ASSUME NEW i \in 5..21 PROVE all[i] = d7[i - 4]
    OBVIOUS
  <2>1. i - 4 \in 1..17 /\ 4 + (i - 4) = i
    OBVIOUS
  <2>2. \A j \in 1..17 : most[4 + j] = d7[j]
    BY <1>13
  <2>3. \A j \in 1..21 : all[j] = most[j]
    BY <1>14
  <2>4. all[i] = most[i]
    BY <2>3
  <2>5. most[4 + (i - 4)] = d7[i - 4]
    BY <2>1, <2>2
  <2> QED BY <2>1, <2>4, <2>5
<1>18. all[5] = Step("fill", "root")
  <2>1. all[5] = d7[1]
    BY <1>16
  <2>2. d7[1] = d6[1]
    BY <1>12
  <2>3. d6[1] = d5[1]
    BY <1>11
  <2>4. d5[1] = d4[1]
    BY <1>10
  <2>5. d4[1] = d3[1]
    BY <1>9
  <2>6. d3[1] = d2[1]
    BY <1>8
  <2>7. d2[1] = d1[1]
    BY <1>7
  <2> QED BY <2>1, <2>2, <2>3, <2>4, <2>5, <2>6, <2>7, <1>4, Zenon
<1>19. all[6] = Step("page", "command")
  <2>1. all[6] = d7[2]
    BY <1>16
  <2>2. d7[2] = d6[2]
    BY <1>12
  <2>3. d6[2] = d5[2]
    BY <1>11
  <2>4. d5[2] = d4[2]
    BY <1>10
  <2>5. d4[2] = d3[2]
    BY <1>9
  <2>6. d3[2] = d2[2]
    BY <1>8
  <2> QED BY <2>1, <2>2, <2>3, <2>4, <2>5, <2>6, <1>7, Zenon
<1>20. all[7] = Step("fill", "command")
  <2>1. all[7] = d7[3]
    BY <1>16
  <2>2. d7[3] = d6[3]
    BY <1>12
  <2>3. d6[3] = d5[3]
    BY <1>11
  <2>4. d5[3] = d4[3]
    BY <1>10
  <2>5. d4[3] = d3[3]
    BY <1>9
  <2>6. d3[3] = d2[3]
    BY <1>8
  <2> QED BY <2>1, <2>2, <2>3, <2>4, <2>5, <2>6, <1>7, Zenon
<1>21. all[8] = Step("page", "daily")
  <2>1. all[8] = d7[4]
    BY <1>16
  <2>2. d7[4] = d6[4]
    BY <1>12
  <2>3. d6[4] = d5[4]
    BY <1>11
  <2>4. d5[4] = d4[4]
    BY <1>10
  <2>5. d4[4] = d3[4]
    BY <1>9
  <2> QED BY <2>1, <2>2, <2>3, <2>4, <2>5, <1>8, Zenon
<1>22. all[9] = Step("fill", "daily")
  <2>1. all[9] = d7[5]
    BY <1>16
  <2>2. d7[5] = d6[5]
    BY <1>12
  <2>3. d6[5] = d5[5]
    BY <1>11
  <2>4. d5[5] = d4[5]
    BY <1>10
  <2>5. d4[5] = d3[5]
    BY <1>9
  <2> QED BY <2>1, <2>2, <2>3, <2>4, <2>5, <1>8, Zenon
<1>23. all[10] = Step("database", "daily")
  <2>1. all[10] = d7[6]
    BY <1>16
  <2>2. d7[6] = d6[6]
    BY <1>12
  <2>3. d6[6] = d5[6]
    BY <1>11
  <2>4. d5[6] = d4[6]
    BY <1>10
  <2>5. d4[6] = d3[6]
    BY <1>9
  <2> QED BY <2>1, <2>2, <2>3, <2>4, <2>5, <1>8, Zenon
<1>24. all[11] = Step("page", "weekly")
  <2>1. all[11] = d7[7]
    BY <1>16
  <2>2. d7[7] = d6[7]
    BY <1>12
  <2>3. d6[7] = d5[7]
    BY <1>11
  <2>4. d5[7] = d4[7]
    BY <1>10
  <2> QED BY <2>1, <2>2, <2>3, <2>4, <1>9, Zenon
<1>25. all[12] = Step("fill", "weekly")
  <2>1. all[12] = d7[8]
    BY <1>16
  <2>2. d7[8] = d6[8]
    BY <1>12
  <2>3. d6[8] = d5[8]
    BY <1>11
  <2>4. d5[8] = d4[8]
    BY <1>10
  <2> QED BY <2>1, <2>2, <2>3, <2>4, <1>9, Zenon
<1>26. all[13] = Step("database", "weekly")
  <2>1. all[13] = d7[9]
    BY <1>16
  <2>2. d7[9] = d6[9]
    BY <1>12
  <2>3. d6[9] = d5[9]
    BY <1>11
  <2>4. d5[9] = d4[9]
    BY <1>10
  <2> QED BY <2>1, <2>2, <2>3, <2>4, <1>9, Zenon
<1>27. all[14] = Step("page", "weekend")
  <2>1. all[14] = d7[10]
    BY <1>16
  <2>2. d7[10] = d6[10]
    BY <1>12
  <2>3. d6[10] = d5[10]
    BY <1>11
  <2> QED BY <2>1, <2>2, <2>3, <1>10, Zenon
<1>28. all[15] = Step("fill", "weekend")
  <2>1. all[15] = d7[11]
    BY <1>16
  <2>2. d7[11] = d6[11]
    BY <1>12
  <2>3. d6[11] = d5[11]
    BY <1>11
  <2> QED BY <2>1, <2>2, <2>3, <1>10, Zenon
<1>29. all[16] = Step("database", "weekend")
  <2>1. all[16] = d7[12]
    BY <1>16
  <2>2. d7[12] = d6[12]
    BY <1>12
  <2>3. d6[12] = d5[12]
    BY <1>11
  <2> QED BY <2>1, <2>2, <2>3, <1>10, Zenon
<1>30. all[17] = Step("page", "board")
  <2>1. all[17] = d7[13]
    BY <1>16
  <2>2. d7[13] = d6[13]
    BY <1>12
  <2> QED BY <2>1, <2>2, <1>11, Zenon
<1>31. all[18] = Step("fill", "board")
  <2>1. all[18] = d7[14]
    BY <1>16
  <2>2. d7[14] = d6[14]
    BY <1>12
  <2> QED BY <2>1, <2>2, <1>11, Zenon
<1>32. all[19] = Step("database", "board")
  <2>1. all[19] = d7[15]
    BY <1>16
  <2>2. d7[15] = d6[15]
    BY <1>12
  <2> QED BY <2>1, <2>2, <1>11, Zenon
<1>33. all[20] = Step("page", "blog")
  <2>1. all[20] = d7[16]
    BY <1>16
  <2> QED BY <2>1, <1>12, Zenon
<1>34. all[21] = Step("fill", "blog")
  <2>1. all[21] = d7[17]
    BY <1>16
  <2> QED BY <2>1, <1>12, Zenon
<1>35. all[1] = first[1] /\ all[2] = first[2] /\ all[3] = first[3] /\ all[4] = first[4]
  BY <1>15
<1> QED BY <1>3, <1>5, <1>6, <1>14,
           <1>18, <1>19, <1>20, <1>21, <1>22, <1>23, <1>24, <1>25,
           <1>26, <1>27, <1>28, <1>29, <1>30, <1>31, <1>32, <1>33, <1>34, <1>35, Zenon

\* Where in the setup a section, a itsPage and the rest of a itsPage come to be.
SectionAt(p) == IF p = "Weekend Planner" THEN 2 ELSE IF p = "Weekly Planner" THEN 3 ELSE 4
PageAt(part) ==
  IF part = "command" THEN 6 ELSE IF part = "daily" THEN 8 ELSE IF part = "weekly" THEN 11
  ELSE IF part = "weekend" THEN 14 ELSE IF part = "board" THEN 17 ELSE 20

DashCommands == [name : {"none", "setup", "rebuild"}, at : 1..23, seen : SUBSET Planners, failures : Nat]

DashTyped ==
  /\ sections \in [Planners -> 0..1]
  /\ content \in [Pages -> Nat]
  /\ setups \in Setups /\ known \in 0..setups
  /\ command \in DashCommands

\* How far a command can be.
AtIsThere ==
  /\ command.name = "setup" => setups > 0
  /\ command.name = "none" => command = NotRunning
  /\ command.name = "rebuild" => known # 0 /\ command.at <= 6

\* What a setup has made by the step it is at: the sections, the pages with their
\* databases, and one layout on each itsPage.
SectionsMade ==
  \A p \in Planners :
    /\ command.at > SectionAt(p) => sections[p] = 1
    /\ command.at > 1 /\ command.at <= SectionAt(p) => (p \in command.seen <=> sections[p] = 1)
PagesMade ==
  \A part \in Parts :
    /\ command.at > PageAt(part) => <<"page", part, setups>> \in made
    /\ command.at > PageAt(part) + 2 /\ part \in WithDatabase => <<"database", part, setups>> \in made
FilledOnce ==
  \A part \in Parts : content[<<part, setups>>] = IF command.at > PageAt(part) + 1 THEN 1 ELSE 0
SetupMade ==
  command.name = "setup" =>
    SectionsMade /\ PagesMade /\ FilledOnce /\ (command.at <= 22 => known < setups)

\* The pages of a setup to come are empty.
YetEmpty == \A part \in Parts, k \in Setups : k > setups => content[<<part, k>>] = 0

\* What the configuration names is complete.
KnownWhole ==
  known # 0 =>
    /\ \A p \in Planners : sections[p] = 1
    /\ \A part \in Parts : <<"page", part, known>> \in made
    /\ \A part \in WithDatabase : <<"database", part, known>> \in made /\ content[<<part, known>>] = 1

\* What a rebuild that archived everything has laid out by the step it is at.
RebuildLaid ==
  command.name = "rebuild" /\ command.failures = 0 =>
    /\ command.at > 1 => content[Root] = IF command.at = 2 THEN 0 ELSE 1
    /\ command.at > 3 => content[<<"command", known>>] = IF command.at = 4 THEN 0 ELSE 1

DashInv == DashTyped /\ AtIsThere /\ SetupMade /\ YetEmpty /\ KnownWhole /\ RebuildLaid

\* The place of a step in the setup.
LEMMA SetupStepIs ==
  ASSUME NEW i \in 1..22
  PROVE  /\ SetupSteps[i].do \in {"sections", "section", "page", "fill", "database", "print"}
         /\ SetupSteps[i].do = "sections" => i = 1
         /\ SetupSteps[i].do = "section" => SetupSteps[i].on \in Planners /\ SectionAt(SetupSteps[i].on) = i
         /\ SetupSteps[i].do \in {"page", "database"} => SetupSteps[i].on \in Parts
         /\ SetupSteps[i].do = "fill" =>
              (SetupSteps[i].on = "root" /\ i = 5) \/ (SetupSteps[i].on \in Parts /\ PageAt(SetupSteps[i].on) + 1 = i)
         /\ SetupSteps[i].do = "print" => i = 22
<1> DEFINE Fits(s, n) ==
             /\ s.do \in {"sections", "section", "page", "fill", "database", "print"}
             /\ s.do = "sections" => n = 1
             /\ s.do = "section" => s.on \in Planners /\ SectionAt(s.on) = n
             /\ s.do \in {"page", "database"} => s.on \in Parts
             /\ s.do = "fill" => (s.on = "root" /\ n = 5) \/ (s.on \in Parts /\ PageAt(s.on) + 1 = n)
             /\ s.do = "print" => n = 22
<1>1. Fits(Step("sections", "board"), 1)
  BY DEF Step, Parts, WithDatabase, Planners, SectionAt, PageAt
<1>2. Fits(Step("section", "Weekend Planner"), 2)
  BY DEF Step, Parts, WithDatabase, Planners, SectionAt, PageAt
<1>3. Fits(Step("section", "Weekly Planner"), 3)
  BY DEF Step, Parts, WithDatabase, Planners, SectionAt, PageAt
<1>4. Fits(Step("section", "Daily Planner"), 4)
  BY DEF Step, Parts, WithDatabase, Planners, SectionAt, PageAt
<1>5. Fits(Step("fill", "root"), 5)
  BY DEF Step, Parts, WithDatabase, Planners, SectionAt, PageAt
<1>6. Fits(Step("page", "command"), 6)
  BY DEF Step, Parts, WithDatabase, Planners, SectionAt, PageAt
<1>7. Fits(Step("fill", "command"), 7)
  BY DEF Step, Parts, WithDatabase, Planners, SectionAt, PageAt
<1>8. Fits(Step("page", "daily"), 8)
  BY DEF Step, Parts, WithDatabase, Planners, SectionAt, PageAt
<1>9. Fits(Step("fill", "daily"), 9)
  BY DEF Step, Parts, WithDatabase, Planners, SectionAt, PageAt
<1>10. Fits(Step("database", "daily"), 10)
  BY DEF Step, Parts, WithDatabase, Planners, SectionAt, PageAt
<1>11. Fits(Step("page", "weekly"), 11)
  BY DEF Step, Parts, WithDatabase, Planners, SectionAt, PageAt
<1>12. Fits(Step("fill", "weekly"), 12)
  BY DEF Step, Parts, WithDatabase, Planners, SectionAt, PageAt
<1>13. Fits(Step("database", "weekly"), 13)
  BY DEF Step, Parts, WithDatabase, Planners, SectionAt, PageAt
<1>14. Fits(Step("page", "weekend"), 14)
  BY DEF Step, Parts, WithDatabase, Planners, SectionAt, PageAt
<1>15. Fits(Step("fill", "weekend"), 15)
  BY DEF Step, Parts, WithDatabase, Planners, SectionAt, PageAt
<1>16. Fits(Step("database", "weekend"), 16)
  BY DEF Step, Parts, WithDatabase, Planners, SectionAt, PageAt
<1>17. Fits(Step("page", "board"), 17)
  BY DEF Step, Parts, WithDatabase, Planners, SectionAt, PageAt
<1>18. Fits(Step("fill", "board"), 18)
  BY DEF Step, Parts, WithDatabase, Planners, SectionAt, PageAt
<1>19. Fits(Step("database", "board"), 19)
  BY DEF Step, Parts, WithDatabase, Planners, SectionAt, PageAt
<1>20. Fits(Step("page", "blog"), 20)
  BY DEF Step, Parts, WithDatabase, Planners, SectionAt, PageAt
<1>21. Fits(Step("fill", "blog"), 21)
  BY DEF Step, Parts, WithDatabase, Planners, SectionAt, PageAt
<1>22. Fits(Step("print", "ids"), 22)
  BY DEF Step, Parts, WithDatabase, Planners, SectionAt, PageAt
<1> HIDE DEF Fits
<1>30. Fits(SetupSteps[i], i)
  <2>1. i \in {1, 2, 3, 4, 5, 6, 7, 8, 9, 10, 11, 12, 13, 14, 15, 16, 17, 18, 19, 20, 21, 22}
    OBVIOUS
  <2> QED BY <2>1, <1>1, <1>2, <1>3, <1>4, <1>5, <1>6, <1>7, <1>8, <1>9, <1>10, <1>11, <1>12,
           <1>13, <1>14, <1>15, <1>16, <1>17, <1>18, <1>19, <1>20, <1>21, <1>22, SetupStepsAre, ZenonT(40)
<1> QED BY <1>30 DEF Fits

\* The step at a place of the setup.
LEMMA PlacesAre ==
  /\ \A p \in Planners : SectionAt(p) \in 2..4 /\ SetupSteps[SectionAt(p)] = Step("section", p)
  /\ \A part \in Parts :
       /\ PageAt(part) \in 6..20
       /\ SetupSteps[PageAt(part)] = Step("page", part)
       /\ SetupSteps[PageAt(part) + 1] = Step("fill", part)
       /\ part \in WithDatabase => SetupSteps[PageAt(part) + 2] = Step("database", part)
<1>1. ASSUME NEW p \in Planners
      PROVE  SectionAt(p) \in 2..4 /\ SetupSteps[SectionAt(p)] = Step("section", p)
  <2>1. CASE p = "Weekend Planner"
    <3>1. SectionAt(p) = 2
      BY <2>1, Zenon DEF SectionAt
    <3>2. 2 \in 2..4
      OBVIOUS
    <3> QED BY <2>1, <3>1, <3>2, SetupStepsAre, Zenon
  <2>2. CASE p = "Weekly Planner"
    <3>1. SectionAt(p) = 3
      BY <2>2, Zenon DEF SectionAt
    <3>2. 3 \in 2..4
      OBVIOUS
    <3> QED BY <2>2, <3>1, <3>2, SetupStepsAre, Zenon
  <2>3. CASE p = "Daily Planner"
    <3>1. SectionAt(p) = 4
      BY <2>3, Zenon DEF SectionAt
    <3>2. 4 \in 2..4
      OBVIOUS
    <3> QED BY <2>3, <3>1, <3>2, SetupStepsAre, Zenon
  <2> QED BY <2>1, <2>2, <2>3 DEF Planners
<1>2. ASSUME NEW part \in Parts
      PROVE  /\ PageAt(part) \in 6..20
             /\ SetupSteps[PageAt(part)] = Step("page", part)
             /\ SetupSteps[PageAt(part) + 1] = Step("fill", part)
             /\ part \in WithDatabase => SetupSteps[PageAt(part) + 2] = Step("database", part)
  <2>1. CASE part = "command"
    <3>1. PageAt(part) = 6 /\ PageAt(part) + 1 = 7 /\ PageAt(part) + 2 = 8 /\ 6 \in 6..20
      BY <2>1 DEF PageAt
    <3>2. part \notin WithDatabase
      BY <2>1 DEF WithDatabase
    <3> QED BY <2>1, <3>1, <3>2, SetupStepsAre, Zenon
  <2>2. CASE part = "daily"
    <3>1. PageAt(part) = 8 /\ PageAt(part) + 1 = 9 /\ PageAt(part) + 2 = 10 /\ 8 \in 6..20
      BY <2>2 DEF PageAt
    <3> QED BY <2>2, <3>1, SetupStepsAre, Zenon
  <2>3. CASE part = "weekly"
    <3>1. PageAt(part) = 11 /\ PageAt(part) + 1 = 12 /\ PageAt(part) + 2 = 13 /\ 11 \in 6..20
      BY <2>3 DEF PageAt
    <3> QED BY <2>3, <3>1, SetupStepsAre, Zenon
  <2>4. CASE part = "weekend"
    <3>1. PageAt(part) = 14 /\ PageAt(part) + 1 = 15 /\ PageAt(part) + 2 = 16 /\ 14 \in 6..20
      BY <2>4 DEF PageAt
    <3> QED BY <2>4, <3>1, SetupStepsAre, Zenon
  <2>5. CASE part = "board"
    <3>1. PageAt(part) = 17 /\ PageAt(part) + 1 = 18 /\ PageAt(part) + 2 = 19 /\ 17 \in 6..20
      BY <2>5 DEF PageAt
    <3> QED BY <2>5, <3>1, SetupStepsAre, Zenon
  <2>6. CASE part = "blog"
    <3>1. PageAt(part) = 20 /\ PageAt(part) + 1 = 21 /\ PageAt(part) + 2 = 22 /\ 20 \in 6..20
      BY <2>6 DEF PageAt
    <3>2. part \notin WithDatabase
      BY <2>6 DEF WithDatabase
    <3> QED BY <2>6, <3>1, <3>2, SetupStepsAre, Zenon
  <2> QED BY <2>1, <2>2, <2>3, <2>4, <2>5, <2>6 DEF Parts, WithDatabase
<1> QED BY <1>1, <1>2

\* rebuild_dashboard, step by step.
LEMMA RebuildStepsAre ==
  /\ Len(RebuildSteps) = 5
  /\ RebuildSteps[1].do = "archive" /\ RebuildSteps[1].on = "root"
  /\ RebuildSteps[2].do = "fill" /\ RebuildSteps[2].on = "root"
  /\ RebuildSteps[3].do = "archive" /\ RebuildSteps[3].on = "command"
  /\ RebuildSteps[4].do = "fill" /\ RebuildSteps[4].on = "command"
  /\ RebuildSteps[5].do = "stamp"
BY DEF RebuildSteps, Step

\* What a step does, and of what.
LEMMA StepIs == \A do, on : Step(do, on).do = do /\ Step(do, on).on = on
BY DEF Step

\* The same, of what the steps do and are about.
LEMMA PlacedAre ==
  /\ \A p \in Planners :
       SectionAt(p) \in 2..4 /\ SetupSteps[SectionAt(p)].do = "section" /\ SetupSteps[SectionAt(p)].on = p
  /\ \A part \in Parts :
       /\ PageAt(part) \in 6..20
       /\ SetupSteps[PageAt(part)].do = "page" /\ SetupSteps[PageAt(part)].on = part
       /\ SetupSteps[PageAt(part) + 1].do = "fill" /\ SetupSteps[PageAt(part) + 1].on = part
  /\ \A part \in WithDatabase :
       SetupSteps[PageAt(part) + 2].do = "database" /\ SetupSteps[PageAt(part) + 2].on = part
  /\ SetupSteps[1].do = "sections"
<1>1. ASSUME NEW p \in Planners
      PROVE  SectionAt(p) \in 2..4 /\ SetupSteps[SectionAt(p)].do = "section" /\ SetupSteps[SectionAt(p)].on = p
  <2>1. SectionAt(p) \in 2..4 /\ SetupSteps[SectionAt(p)] = Step("section", p)
    BY PlacesAre
  <2>2. Step("section", p).do = "section" /\ Step("section", p).on = p
    BY StepIs, Zenon
  <2> QED BY <2>1, <2>2, Zenon
<1>2. ASSUME NEW part \in Parts
      PROVE  /\ PageAt(part) \in 6..20
             /\ SetupSteps[PageAt(part)].do = "page" /\ SetupSteps[PageAt(part)].on = part
             /\ SetupSteps[PageAt(part) + 1].do = "fill" /\ SetupSteps[PageAt(part) + 1].on = part
  <2>1. /\ PageAt(part) \in 6..20 /\ SetupSteps[PageAt(part)] = Step("page", part)
        /\ SetupSteps[PageAt(part) + 1] = Step("fill", part)
    BY PlacesAre
  <2>2. /\ Step("page", part).do = "page" /\ Step("page", part).on = part
        /\ Step("fill", part).do = "fill" /\ Step("fill", part).on = part
    BY StepIs, Zenon
  <2> QED BY <2>1, <2>2, Zenon
<1>3. ASSUME NEW part \in WithDatabase
      PROVE  SetupSteps[PageAt(part) + 2].do = "database" /\ SetupSteps[PageAt(part) + 2].on = part
  <2>1. part \in Parts
    BY DEF Parts
  <2>2. SetupSteps[PageAt(part) + 2] = Step("database", part)
    BY <2>1, PlacesAre
  <2>3. Step("database", part).do = "database" /\ Step("database", part).on = part
    BY StepIs, Zenon
  <2> QED BY <2>2, <2>3, Zenon
<1>4. SetupSteps[1].do = "sections"
  <2>1. SetupSteps[1] = Step("sections", "board") /\ Step("sections", "board").do = "sections"
    BY SetupStepsAre, StepIs, Zenon
  <2> QED BY <2>1, Zenon
<1> QED BY <1>1, <1>2, <1>3, <1>4

\* The step a command is at is one of its own.
LEMMA CurrentIs ==
  ASSUME DashInv, NEW do, Next_(do)
  PROVE  /\ Current.do = do
         /\ \/ command.name = "setup" /\ command.at \in 1..22 /\ Current = SetupSteps[command.at]
            \/ command.name = "rebuild" /\ command.at \in 1..5 /\ Current = RebuildSteps[command.at]
<1>1. Current.do = do /\ ~(command.at > Len(StepsOf(command.name))) /\ command \in DashCommands
  BY DEF Next_, Through, DashInv, DashTyped
<1>2. command.at \in 1..23 /\ command.name \in {"none", "setup", "rebuild"}
  BY <1>1 DEF DashCommands
<1>3. CASE command.name = "none"
  <2>1. StepsOf(command.name) = <<>>
    BY <1>3 DEF StepsOf
  <2>2. Len(<<>>) = 0
    OBVIOUS
  <2> QED BY <1>1, <1>2, <2>1, <2>2
<1>4. CASE command.name = "setup"
  <2>1. StepsOf(command.name) = SetupSteps
    BY <1>4 DEF StepsOf
  <2>2. Len(SetupSteps) = 22
    BY SetupStepsAre
  <2> QED BY <1>1, <1>2, <1>4, <2>1, <2>2 DEF Current
<1>5. CASE command.name = "rebuild"
  <2>1. StepsOf(command.name) = RebuildSteps
    BY <1>5 DEF StepsOf
  <2>2. Len(RebuildSteps) = 5
    BY RebuildStepsAre
  <2> QED BY <1>1, <1>2, <1>5, <2>1, <2>2 DEF Current
<1> QED BY <1>2, <1>3, <1>4, <1>5

\* The place of a step in a rebuild.
LEMMA RebuildStepIs ==
  ASSUME NEW i \in 1..5
  PROVE  /\ RebuildSteps[i].do = "archive" =>
              (i = 1 /\ RebuildSteps[i].on = "root") \/ (i = 3 /\ RebuildSteps[i].on = "command")
         /\ RebuildSteps[i].do = "fill" =>
              (i = 2 /\ RebuildSteps[i].on = "root") \/ (i = 4 /\ RebuildSteps[i].on = "command")
         /\ RebuildSteps[i].do = "stamp" => i = 5
         /\ RebuildSteps[i].do \in {"archive", "fill", "stamp"}
<1>1. i = 1 \/ i = 2 \/ i = 3 \/ i = 4 \/ i = 5
  OBVIOUS
<1> QED BY <1>1, RebuildStepsAre

\* Only a setup makes, reads or prints anything but pages.
LEMMA SetupStepIn ==
  ASSUME DashInv, NEW do, Next_(do), do \notin {"archive", "fill", "stamp"}
  PROVE  command.name = "setup" /\ command.at \in 1..22 /\ Current = SetupSteps[command.at] /\ Current.do = do
BY CurrentIs, RebuildStepIs

\* Moving on changes the place alone.
LEMMA OnwardsIs ==
  ASSUME DashInv, command.at \in 1..22
  PROVE  /\ Onwards \in DashCommands /\ Onwards.at = command.at + 1 /\ Onwards.name = command.name
         /\ Onwards.seen = command.seen /\ Onwards.failures = command.failures
BY DEF Onwards, DashInv, DashTyped, DashCommands

\* No command runs.
LEMMA NotRunningIs ==
  /\ NotRunning \in DashCommands /\ NotRunning.name = "none" /\ NotRunning.at = 1
  /\ NotRunning.seen = {} /\ NotRunning.failures = 0
BY DEF NotRunning, DashCommands

\* A step that is not about sections leaves what is known of them.
LEMMA SectionsStay ==
  ASSUME DashInv, command.name = "setup", command.at \in 1..22,
         SetupSteps[command.at].do \notin {"sections", "section"},
         command' = Onwards, sections' = sections
  PROVE  SectionsMade'
<1>1. command'.at = command.at + 1 /\ command'.seen = command.seen
  BY OnwardsIs
<1>2. SectionsMade
  BY DEF DashInv, SetupMade
<1>3. command.at # 1 /\ \A p \in Planners : command.at # SectionAt(p) /\ SectionAt(p) \in 2..4
  BY PlacedAre
<1>4. ASSUME NEW p \in Planners
      PROVE  /\ command'.at > SectionAt(p) => sections'[p] = 1
             /\ command'.at > 1 /\ command'.at <= SectionAt(p) => (p \in command'.seen <=> sections'[p] = 1)
  BY <1>1, <1>2, <1>3 DEF SectionsMade
<1> QED BY <1>4 DEF SectionsMade

\* A step that makes no itsPage or itsDatabase leaves what is known of them.
LEMMA PagesStay ==
  ASSUME DashInv, command.name = "setup", command.at \in 1..22,
         SetupSteps[command.at].do \notin {"page", "database"},
         command' = Onwards, made' = made, setups' = setups
  PROVE  PagesMade'
<1>1. command'.at = command.at + 1
  BY OnwardsIs
<1>2. PagesMade
  BY DEF DashInv, SetupMade
<1>3. ASSUME NEW part \in Parts
      PROVE  /\ command'.at > PageAt(part) => <<"page", part, setups>> \in made'
             /\ command'.at > PageAt(part) + 2 /\ part \in WithDatabase => <<"database", part, setups>> \in made'
  <2>1. PageAt(part) \in 6..20 /\ command.at # PageAt(part)
    BY PlacedAre
  <2>2. part \in WithDatabase => command.at # PageAt(part) + 2
    BY PlacedAre
  <2>3. /\ command.at > PageAt(part) => <<"page", part, setups>> \in made
        /\ command.at > PageAt(part) + 2 /\ part \in WithDatabase => <<"database", part, setups>> \in made
    BY <1>2 DEF PagesMade
  <2>4. /\ command'.at > PageAt(part) => command.at > PageAt(part)
        /\ command'.at > PageAt(part) + 2 /\ part \in WithDatabase => command.at > PageAt(part) + 2
    BY <1>1, <2>1, <2>2
  <2> QED BY <2>3, <2>4
<1> QED BY <1>3 DEF PagesMade

\* A step that fills no itsPage leaves what is known of the layouts.
LEMMA FillsStay ==
  ASSUME DashInv, command.name = "setup", command.at \in 1..22,
         SetupSteps[command.at].do # "fill",
         command' = Onwards, content' = content, setups' = setups
  PROVE  FilledOnce'
<1>1. command'.at = command.at + 1
  BY OnwardsIs
<1>2. FilledOnce
  BY DEF DashInv, SetupMade
<1>3. \A part \in Parts : PageAt(part) \in 6..20 /\ command.at # PageAt(part) + 1
  BY PlacedAre
<1>4. ASSUME NEW part \in Parts
      PROVE  content'[<<part, setups>>] = IF command'.at > PageAt(part) + 1 THEN 1 ELSE 0
  <2>1. command'.at > PageAt(part) + 1 <=> command.at > PageAt(part) + 1
    BY <1>1, <1>3
  <2>2. content[<<part, setups>>] = IF command.at > PageAt(part) + 1 THEN 1 ELSE 0
    BY <1>2 DEF FilledOnce
  <2> QED BY <2>1, <2>2
<1> QED BY <1>4 DEF FilledOnce

\* A command that stops leaves what is known of every setup.
LEMMA StopKeeps ==
  ASSUME DashTyped', command' = NotRunning, YetEmpty', KnownWhole'
  PROVE  DashInv'
<1>1. command'.name = "none"
  BY NotRunningIs
<1> QED BY <1>1 DEF DashInv, AtIsThere, SetupMade, RebuildLaid

\* get_sections.
LEMMA ReadSectionsKeeps ==
  ASSUME DashInv, ReadSections
  PROVE  DashInv'
<1>1. command.name = "setup" /\ command.at \in 1..22 /\ Current = SetupSteps[command.at] /\ Current.do = "sections"
  BY SetupStepIn DEF ReadSections
<1>2. command.at = 1
  BY <1>1, SetupStepIs
<1> DEFINE found == {p \in Planners : sections[p] > 0}
<1>3. /\ command' = [Onwards EXCEPT !.seen = found]
      /\ sections' = sections /\ made' = made /\ content' = content /\ known' = known /\ setups' = setups
  BY DEF ReadSections
<1>4. found \in SUBSET Planners
  OBVIOUS
<1>5. command' \in DashCommands /\ command'.at = 2 /\ command'.name = "setup" /\ command'.seen = found
  BY <1>1, <1>2, <1>3, <1>4, OnwardsIs DEF DashCommands
<1>6. DashTyped' /\ AtIsThere' /\ YetEmpty' /\ KnownWhole' /\ RebuildLaid'
  BY <1>1, <1>3, <1>5 DEF DashInv, DashTyped, AtIsThere, YetEmpty, KnownWhole, RebuildLaid
<1>7. SectionsMade'
  <2>1. \A p \in Planners : SectionAt(p) \in 2..4 /\ sections[p] \in 0..1
    BY PlacedAre DEF DashInv, DashTyped
  <2> QED BY <1>3, <1>5, <2>1 DEF SectionsMade
<1>8. PagesMade' /\ FilledOnce'
  <2>1. \A part \in Parts : PageAt(part) \in 6..20
    BY PlacedAre
  <2>2. FilledOnce /\ PagesMade
    BY <1>1 DEF DashInv, SetupMade
  <2> QED BY <1>2, <1>3, <1>5, <2>1, <2>2 DEF PagesMade, FilledOnce
<1>9. known' < setups'
  BY <1>1, <1>2, <1>3 DEF DashInv, SetupMade
<1> QED BY <1>6, <1>7, <1>8, <1>9 DEF DashInv, SetupMade

\* create_section, if need be, done or lost.
LEMMA CreateSectionKeeps ==
  ASSUME DashInv, CreateSection
  PROVE  DashInv'
<1> DEFINE q == Current.on
<1>1. command.name = "setup" /\ command.at \in 1..22 /\ Current = SetupSteps[command.at] /\ Current.do = "section"
  BY SetupStepIn DEF CreateSection
<1>2. q \in Planners /\ SectionAt(q) = command.at
  BY <1>1, SetupStepIs
<1>3. /\ sections' = IF q \in command.seen THEN sections ELSE [sections EXCEPT ![q] = @ + 1]
      /\ made' = made /\ content' = content /\ known' = known /\ setups' = setups
      /\ command' = Onwards \/ command' = NotRunning
  BY DEF CreateSection
<1> HIDE DEF q
<1>4. /\ sections \in [Planners -> 0..1] /\ SectionsMade
      /\ \A p \in Planners : SectionAt(p) \in 2..4
  BY <1>1, PlacedAre DEF DashInv, DashTyped, SetupMade
<1>5. q \in command.seen <=> sections[q] = 1
  BY <1>1, <1>2, <1>4 DEF SectionsMade
<1>6. /\ sections' \in [Planners -> 0..1] /\ sections'[q] = 1
      /\ \A p \in Planners : p # q => sections'[p] = sections[p]
  <2>1. CASE q \in command.seen
    BY <1>2, <1>3, <1>4, <1>5, <2>1
  <2>2. CASE q \notin command.seen
    <3>1. sections[q] = 0 /\ sections' = [sections EXCEPT ![q] = @ + 1]
      BY <1>2, <1>3, <1>4, <1>5, <2>2
    <3> QED BY <1>2, <1>4, <3>1
  <2> QED BY <2>1, <2>2
<1>7. KnownWhole'
  BY <1>3, <1>6 DEF DashInv, KnownWhole
<1>8. YetEmpty'
  BY <1>3 DEF DashInv, YetEmpty
<1>9. CASE command' = NotRunning
  <2>1. DashTyped'
    BY <1>3, <1>6, <1>9, NotRunningIs DEF DashInv, DashTyped
  <2> QED BY <1>7, <1>8, <1>9, <2>1, StopKeeps
<1>10. CASE command' = Onwards
  <2>1. /\ command' \in DashCommands /\ command'.at = command.at + 1 /\ command'.name = "setup"
        /\ command'.seen = command.seen
    BY <1>1, <1>10, OnwardsIs
  <2>2. DashTyped' /\ AtIsThere' /\ RebuildLaid'
    BY <1>1, <1>3, <1>6, <2>1 DEF DashInv, DashTyped, AtIsThere, RebuildLaid
  <2>3. ASSUME NEW p \in Planners
        PROVE  /\ command'.at > SectionAt(p) => sections'[p] = 1
               /\ command'.at > 1 /\ command'.at <= SectionAt(p) => (p \in command'.seen <=> sections'[p] = 1)
    <3>1. CASE p = q
      BY <1>1, <1>2, <1>6, <2>1, <3>1
    <3>2. CASE p # q
      <4>1. SectionAt(p) # command.at
        BY <1>1, <3>2, PlacedAre DEF q
      <4>2. sections'[p] = sections[p]
        BY <1>6, <3>2
      <4>3. /\ command.at > SectionAt(p) => sections[p] = 1
            /\ command.at > 1 /\ command.at <= SectionAt(p) => (p \in command.seen <=> sections[p] = 1)
        BY <1>4 DEF SectionsMade
      <4>4. command.at > 1
        BY <1>1, <1>2, <1>4
      <4> QED BY <1>1, <1>4, <2>1, <4>1, <4>2, <4>3, <4>4
    <3> QED BY <3>1, <3>2
  <2>4. SectionsMade'
    BY <2>3 DEF SectionsMade
  <2>5. PagesMade' /\ FilledOnce'
    BY <1>1, <1>3, <1>10, PagesStay, FillsStay
  <2>6. command'.at <= 22 => known' < setups'
    BY <1>1, <1>3, <2>1 DEF DashInv, SetupMade
  <2> QED BY <1>7, <1>8, <2>2, <2>4, <2>5, <2>6 DEF DashInv, SetupMade
<1> QED BY <1>3, <1>9, <1>10

\* create_page and create_database, done or lost.
LEMMA CreatePartKeeps ==
  ASSUME DashInv, CreatePart
  PROVE  DashInv'
<1> DEFINE do == Current.do
           on == Current.on
<1>1. /\ command.name = "setup" /\ command.at \in 1..22 /\ Current = SetupSteps[command.at]
      /\ do \in {"page", "database"}
  <2>1. CASE Next_("page")
    BY <2>1, SetupStepIn
  <2>2. CASE Next_("database")
    BY <2>2, SetupStepIn
  <2> QED BY <2>1, <2>2 DEF CreatePart
<1>2. /\ made' = made \cup {<<do, on, setups>>}
      /\ sections' = sections /\ content' = content /\ known' = known /\ setups' = setups
      /\ command' = Onwards \/ command' = NotRunning
  BY DEF CreatePart
<1>3. KnownWhole'
  BY <1>2 DEF DashInv, KnownWhole
<1>4. YetEmpty'
  BY <1>2 DEF DashInv, YetEmpty
<1>5. CASE command' = NotRunning
  <2>1. DashTyped'
    BY <1>2, <1>5, NotRunningIs DEF DashInv, DashTyped
  <2> QED BY <1>3, <1>4, <1>5, <2>1, StopKeeps
<1>6. CASE command' = Onwards
  <2>1. command' \in DashCommands /\ command'.at = command.at + 1 /\ command'.name = "setup"
    BY <1>1, <1>6, OnwardsIs
  <2>2. DashTyped' /\ AtIsThere' /\ RebuildLaid'
    BY <1>1, <1>2, <2>1 DEF DashInv, DashTyped, AtIsThere, RebuildLaid
  <2>3. ASSUME NEW part \in Parts
        PROVE  /\ command'.at > PageAt(part) => <<"page", part, setups>> \in made'
               /\ command'.at > PageAt(part) + 2 /\ part \in WithDatabase => <<"database", part, setups>> \in made'
    <3>1. /\ command.at > PageAt(part) => <<"page", part, setups>> \in made
          /\ command.at > PageAt(part) + 2 /\ part \in WithDatabase => <<"database", part, setups>> \in made
      BY <1>1 DEF DashInv, SetupMade, PagesMade
    <3>2. command.at = PageAt(part) => <<"page", part, setups>> \in made'
      <4> SUFFICES ASSUME command.at = PageAt(part) PROVE <<"page", part, setups>> \in made'
        OBVIOUS
      <4>1. do = "page" /\ on = part
        BY <1>1, PlacedAre
      <4> QED BY <1>2, <4>1
    <3>3. command.at = PageAt(part) + 2 /\ part \in WithDatabase => <<"database", part, setups>> \in made'
      <4> SUFFICES ASSUME command.at = PageAt(part) + 2, part \in WithDatabase
                   PROVE  <<"database", part, setups>> \in made'
        OBVIOUS
      <4>1. do = "database" /\ on = part
        BY <1>1, PlacedAre
      <4> QED BY <1>2, <4>1
    <3>4. PageAt(part) \in 6..20
      BY PlacedAre
    <3>5. /\ command'.at > PageAt(part) => command.at > PageAt(part) \/ command.at = PageAt(part)
          /\ command'.at > PageAt(part) + 2 => command.at > PageAt(part) + 2 \/ command.at = PageAt(part) + 2
      BY <1>1, <2>1, <3>4
    <3> QED BY <1>2, <3>1, <3>2, <3>3, <3>5
  <2>4. PagesMade'
    BY <1>2, <2>3 DEF PagesMade
  <2>5. SectionsMade' /\ FilledOnce'
    BY <1>1, <1>2, <1>6, SectionsStay, FillsStay
  <2>6. command'.at <= 22 => known' < setups'
    BY <1>1, <1>2, <2>1 DEF DashInv, SetupMade
  <2> QED BY <1>3, <1>4, <2>2, <2>4, <2>5, <2>6 DEF DashInv, SetupMade
<1> QED BY <1>2, <1>5, <1>6

\* The parts of a dashboard.
LEMMA PartsAre ==
  "root" \notin Parts /\ "command" \in Parts /\ "command" \notin WithDatabase /\ WithDatabase \subseteq Parts
BY DEF Parts, WithDatabase

\* The itsPage a request is about.
LEMMA PageIs ==
  ASSUME DashInv, command.name \in {"setup", "rebuild"}
  PROVE  /\ Page("root") = Root /\ Root \in Pages
         /\ \A part \in Parts : Page(part) = <<part, IF command.name = "setup" THEN setups ELSE known>>
         /\ \A part \in Parts, k \in Setups : <<part, k>> \in Pages /\ <<part, k>> # Root
         /\ setups \in Setups /\ known \in Setups
<1>1. setups \in Setups /\ known \in Setups
  BY DashboardAssumption DEF DashInv, DashTyped, Setups, DashboardAssumption
<1>2. Page("root") = Root /\ Root \in Pages
  BY DEF Page, Pages
<1>3. \A part \in Parts : Page(part) = <<part, IF command.name = "setup" THEN setups ELSE known>>
  BY PartsAre DEF Page
<1>4. ASSUME NEW part \in Parts, NEW k \in Setups PROVE <<part, k>> \in Pages /\ <<part, k>> # Root
  BY PartsAre DEF Pages, Root
<1> QED BY <1>1, <1>2, <1>3, <1>4

\* What a request makes of one itsPage it makes of no other.
LEMMA ContentMoves ==
  ASSUME DashInv, NEW p \in Pages, NEW n \in Nat, content' = [content EXCEPT ![p] = n]
  PROVE  content' \in [Pages -> Nat] /\ content'[p] = n /\ \A r \in Pages : r # p => content'[r] = content[r]
BY DEF DashInv, DashTyped

\* append_blocks, done or lost, by a setup or a rebuild.
LEMMA FillKeeps ==
  ASSUME DashInv, Fill
  PROVE  DashInv'
<1> DEFINE on == Current.on
           p == Page(on)
<1>1. /\ content' = [content EXCEPT ![p] = content[p] + 1]
      /\ sections' = sections /\ made' = made /\ known' = known /\ setups' = setups
      /\ command' = Onwards \/ command' = NotRunning
  BY DEF Fill
<1>2. \/ /\ command.name = "setup" /\ command.at \in 1..22 /\ Current = SetupSteps[command.at]
         /\ on = "root" \/ (on \in Parts /\ PageAt(on) + 1 = command.at)
      \/ /\ command.name = "rebuild" /\ command.at \in 1..5
         /\ (command.at = 2 /\ on = "root") \/ (command.at = 4 /\ on = "command")
  <2>1. /\ Current.do = "fill"
        /\ \/ command.name = "setup" /\ command.at \in 1..22 /\ Current = SetupSteps[command.at]
           \/ command.name = "rebuild" /\ command.at \in 1..5 /\ Current = RebuildSteps[command.at]
    BY CurrentIs DEF Fill
  <2> QED BY <2>1, SetupStepIs, RebuildStepIs
<1>3. /\ Root \in Pages /\ setups \in Setups /\ known \in Setups
      /\ \A part \in Parts, k \in Setups : <<part, k>> \in Pages /\ <<part, k>> # Root
      /\ p = IF on = "root" THEN Root ELSE <<on, IF command.name = "setup" THEN setups ELSE known>>
  BY <1>2, PageIs DEF Page
<1>4. on = "root" \/ on \in Parts
  BY <1>2, PartsAre
<1>5. p \in Pages
  BY <1>3, <1>4, PartsAre
<1> HIDE DEF p, on
<1>6. content[p] \in Nat /\ content \in [Pages -> Nat]
  BY <1>5 DEF DashInv, DashTyped
<1>7. /\ content' \in [Pages -> Nat] /\ content'[p] = content[p] + 1
      /\ \A r \in Pages : r # p => content'[r] = content[r]
  <2>1. content[p] + 1 \in Nat
    BY <1>6
  <2> QED BY <1>1, <1>5, <2>1, ContentMoves
<1>8. known <= setups /\ known \in Nat /\ setups \in Nat
  BY DashboardAssumption DEF DashInv, DashTyped, Setups, DashboardAssumption
<1>9. YetEmpty'
  <2> SUFFICES ASSUME NEW part \in Parts, NEW k \in Setups, k > setups PROVE content'[<<part, k>>] = 0
    BY <1>1 DEF YetEmpty
  <2>1. content[<<part, k>>] = 0
    BY DEF DashInv, YetEmpty
  <2>2. k # setups /\ k # known
    BY <1>8 DEF Setups
  <2>3. <<part, k>> # p
    BY <1>3, <2>2
  <2> QED BY <1>3, <1>7, <2>1, <2>3
<1>10. KnownWhole'
  <2> SUFFICES ASSUME known # 0, NEW part \in WithDatabase PROVE content'[<<part, known>>] = 1
    BY <1>1 DEF DashInv, KnownWhole
  <2>1. content[<<part, known>>] = 1 /\ part \in Parts
    BY PartsAre DEF DashInv, KnownWhole
  <2>2. <<part, known>> # p
    <3>1. CASE command.name = "setup"
      <4>1. known # setups
        BY <1>2, <1>8, <3>1 DEF DashInv, SetupMade
      <4> QED BY <1>3, <2>1, <3>1, <4>1
    <3>2. CASE command.name = "rebuild"
      <4>1. on = "root" \/ on = "command"
        BY <1>2, <3>2
      <4> QED BY <1>3, <2>1, <4>1, PartsAre
    <3> QED BY <1>2, <3>1, <3>2
  <2> QED BY <1>3, <1>7, <2>1, <2>2
<1>11. CASE command' = NotRunning
  <2>1. DashTyped'
    BY <1>1, <1>7, <1>11, NotRunningIs DEF DashInv, DashTyped
  <2> QED BY <1>9, <1>10, <1>11, <2>1, StopKeeps
<1>12. CASE command' = Onwards
  <2>1. /\ command' \in DashCommands /\ command'.at = command.at + 1 /\ command'.name = command.name
        /\ command'.failures = command.failures
    BY <1>2, <1>12, OnwardsIs
  <2>2. DashTyped' /\ AtIsThere'
    BY <1>1, <1>2, <1>7, <2>1 DEF DashInv, DashTyped, AtIsThere
  <2>3. SetupMade'
    <3>1. CASE command.name = "setup"
      <4>1. SectionsMade' /\ PagesMade'
        <5>1. SetupSteps[command.at].do = "fill"
          BY <1>2, <3>1, CurrentIs DEF Fill
        <5> QED BY <1>1, <1>2, <1>12, <3>1, <5>1, SectionsStay, PagesStay
      <4>2. ASSUME NEW part \in Parts
            PROVE  content'[<<part, setups>>] = IF command'.at > PageAt(part) + 1 THEN 1 ELSE 0
        <5>1. content[<<part, setups>>] = IF command.at > PageAt(part) + 1 THEN 1 ELSE 0
          BY <3>1 DEF DashInv, SetupMade, FilledOnce
        <5>2. PageAt(part) \in 6..20 /\ command.at \in 1..22 /\ <<part, setups>> \in Pages
          BY <1>2, <1>3, <3>1, PlacedAre
        <5>3. CASE on = part
          <6>1. p = <<part, setups>> /\ PageAt(part) + 1 = command.at
            BY <1>2, <1>3, <3>1, <5>3, PartsAre
          <6> QED BY <1>7, <2>1, <5>1, <5>2, <6>1
        <5>4. CASE on # part
          <6>1. <<part, setups>> # p
            BY <1>3, <3>1, <5>4
          <6>2. command.at # PageAt(part) + 1
            BY <1>2, <3>1, <5>4, PlacedAre DEF on
          <6> QED BY <1>7, <2>1, <5>1, <5>2, <6>1, <6>2
        <5> QED BY <5>3, <5>4
      <4>3. FilledOnce'
        BY <1>1, <4>2 DEF FilledOnce
      <4>4. command'.at <= 22 => known' < setups'
        BY <1>1, <1>2, <2>1, <3>1 DEF DashInv, SetupMade
      <4> QED BY <4>1, <4>3, <4>4 DEF SetupMade
    <3>2. CASE command.name # "setup"
      BY <2>1, <3>2 DEF SetupMade
    <3> QED BY <3>1, <3>2
  <2>4. RebuildLaid'
    <3> SUFFICES ASSUME command.name = "rebuild", command.failures = 0
                 PROVE  /\ command'.at > 1 => content'[Root] = IF command'.at = 2 THEN 0 ELSE 1
                        /\ command'.at > 3 => content'[<<"command", known>>] = IF command'.at = 4 THEN 0 ELSE 1
      BY <1>1, <2>1 DEF RebuildLaid
    <3>1. /\ command.at > 1 => content[Root] = IF command.at = 2 THEN 0 ELSE 1
          /\ command.at > 3 => content[<<"command", known>>] = IF command.at = 4 THEN 0 ELSE 1
      BY DEF DashInv, RebuildLaid
    <3>2. <<"command", known>> \in Pages /\ <<"command", known>> # Root
      BY <1>3, PartsAre
    <3>3. CASE command.at = 2 /\ on = "root"
      <4>1. p = Root
        BY <1>3, <3>3
      <4> QED BY <1>7, <2>1, <3>1, <3>3, <4>1
    <3>4. CASE command.at = 4 /\ on = "command"
      <4>1. p = <<"command", known>>
        BY <1>3, <3>4
      <4> QED BY <1>3, <1>7, <2>1, <3>1, <3>2, <3>4, <4>1
    <3> QED BY <1>2, <3>3, <3>4
  <2> QED BY <1>9, <1>10, <2>2, <2>3, <2>4 DEF DashInv
<1> QED BY <1>1, <1>11, <1>12

\* archive_blocks, to the end or not.
LEMMA ArchiveKeeps ==
  ASSUME DashInv, Archive
  PROVE  DashInv'
<1> DEFINE on == Current.on
           p == Page(on)
<1>1. /\ sections' = sections /\ made' = made /\ known' = known /\ setups' = setups
      /\ \/ content' = [content EXCEPT ![p] = 0] /\ command' = Onwards
         \/ content' = content /\ command' = [Onwards EXCEPT !.failures = @ + 1]
  BY DEF Archive
<1>2. /\ command.name = "rebuild" /\ command.at \in 1..5
      /\ (command.at = 1 /\ on = "root") \/ (command.at = 3 /\ on = "command")
  <2>1. /\ Current.do = "archive"
        /\ \/ command.name = "setup" /\ command.at \in 1..22 /\ Current = SetupSteps[command.at]
           \/ command.name = "rebuild" /\ command.at \in 1..5 /\ Current = RebuildSteps[command.at]
    BY CurrentIs DEF Archive
  <2> QED BY <2>1, SetupStepIs, RebuildStepIs
<1>3. /\ Root \in Pages /\ setups \in Setups /\ known \in Setups
      /\ \A part \in Parts, k \in Setups : <<part, k>> \in Pages /\ <<part, k>> # Root
      /\ p = IF on = "root" THEN Root ELSE <<"command", known>>
  BY <1>2, PageIs DEF Page
<1>4. p \in Pages
  BY <1>3, PartsAre
<1> HIDE DEF p, on
<1>5. /\ content \in [Pages -> Nat] /\ known <= setups /\ known # 0 /\ known \in Nat /\ setups \in Nat
      /\ command.failures \in Nat
  BY <1>2, DashboardAssumption DEF DashInv, DashTyped, AtIsThere, Setups, DashboardAssumption, DashCommands
<1>6. /\ command' \in DashCommands /\ command'.at = command.at + 1 /\ command'.name = "rebuild"
      /\ command'.failures = 0 => content' = [content EXCEPT ![p] = 0] /\ command.failures = 0
  <2>1. CASE command' = Onwards /\ content' = [content EXCEPT ![p] = 0]
    BY <1>2, <2>1, OnwardsIs
  <2>2. CASE command' = [Onwards EXCEPT !.failures = @ + 1]
    <3>1. /\ Onwards \in DashCommands /\ Onwards.at = command.at + 1
          /\ Onwards.name = "rebuild" /\ Onwards.failures = command.failures
      BY <1>2, OnwardsIs
    <3>2. /\ command' \in DashCommands /\ command'.at = Onwards.at
          /\ command'.name = Onwards.name /\ command'.failures = command.failures + 1
      BY <1>5, <2>2, <3>1 DEF DashCommands
    <3> QED BY <1>5, <3>1, <3>2
  <2> QED BY <1>1, <2>1, <2>2
<1>7. content' \in [Pages -> Nat] /\ \A r \in Pages : r # p => content'[r] = content[r]
  <2>1. 0 \in Nat
    OBVIOUS
  <2>2. CASE content' = [content EXCEPT ![p] = 0]
    BY <1>4, <2>1, <2>2, ContentMoves
  <2>3. CASE content' = content
    BY <1>5, <2>3
  <2> QED BY <1>1, <2>2, <2>3
<1>8. YetEmpty'
  <2> SUFFICES ASSUME NEW part \in Parts, NEW k \in Setups, k > setups PROVE content'[<<part, k>>] = 0
    BY <1>1 DEF YetEmpty
  <2>1. content[<<part, k>>] = 0
    BY DEF DashInv, YetEmpty
  <2>2. k # known
    BY <1>5 DEF Setups
  <2>3. <<part, k>> # p
    BY <1>3, <2>2
  <2> QED BY <1>3, <1>7, <2>1, <2>3
<1>9. KnownWhole'
  <2> SUFFICES ASSUME NEW part \in WithDatabase PROVE content'[<<part, known>>] = 1
    BY <1>1 DEF DashInv, KnownWhole
  <2>1. content[<<part, known>>] = 1 /\ part \in Parts /\ part # "command"
    BY <1>5, PartsAre DEF DashInv, KnownWhole
  <2>2. <<part, known>> # p
    BY <1>3, <2>1
  <2> QED BY <1>3, <1>7, <2>1, <2>2
<1>10. DashTyped' /\ AtIsThere' /\ SetupMade'
  BY <1>1, <1>2, <1>5, <1>6, <1>7 DEF DashInv, DashTyped, AtIsThere, SetupMade
<1>11. RebuildLaid'
  <2> SUFFICES ASSUME command'.failures = 0
               PROVE  /\ command'.at > 1 => content'[Root] = IF command'.at = 2 THEN 0 ELSE 1
                      /\ command'.at > 3 => content'[<<"command", known>>] = IF command'.at = 4 THEN 0 ELSE 1
    BY <1>1 DEF RebuildLaid
  <2>1. content'[p] = 0
    BY <1>4, <1>5, <1>6
  <2>2. /\ command.at > 1 => content[Root] = IF command.at = 2 THEN 0 ELSE 1
        /\ command.at > 3 => content[<<"command", known>>] = IF command.at = 4 THEN 0 ELSE 1
    BY <1>2, <1>6 DEF DashInv, RebuildLaid
  <2>3. <<"command", known>> \in Pages /\ <<"command", known>> # Root
    BY <1>3, PartsAre
  <2>4. CASE command.at = 1 /\ on = "root"
    BY <1>3, <1>6, <2>1, <2>4
  <2>5. CASE command.at = 3 /\ on = "command"
    BY <1>3, <1>6, <1>7, <2>1, <2>2, <2>3, <2>5
  <2> QED BY <1>2, <2>4, <2>5
<1> QED BY <1>8, <1>9, <1>10, <1>11 DEF DashInv

\* update_sync_status.
LEMMA StampKeeps ==
  ASSUME DashInv, Stamp
  PROVE  DashInv'
<1>1. command.name = "rebuild" /\ command.at = 5
  <2>1. /\ Current.do = "stamp"
        /\ \/ command.name = "setup" /\ command.at \in 1..22 /\ Current = SetupSteps[command.at]
           \/ command.name = "rebuild" /\ command.at \in 1..5 /\ Current = RebuildSteps[command.at]
    BY CurrentIs DEF Stamp
  <2> QED BY <2>1, SetupStepIs, RebuildStepIs
<1>2. /\ command' = Onwards
      /\ sections' = sections /\ made' = made /\ content' = content /\ known' = known /\ setups' = setups
  BY DEF Stamp
<1>3. /\ command' \in DashCommands /\ command'.at = 6 /\ command'.name = "rebuild"
      /\ command'.failures = command.failures
  BY <1>1, <1>2, OnwardsIs
<1>4. DashTyped' /\ AtIsThere' /\ SetupMade'
  BY <1>1, <1>2, <1>3 DEF DashInv, DashTyped, AtIsThere, SetupMade
<1>5. YetEmpty' /\ KnownWhole'
  BY <1>2 DEF DashInv, YetEmpty, KnownWhole
<1>6. RebuildLaid'
  BY <1>1, <1>2, <1>3 DEF DashInv, RebuildLaid
<1> QED BY <1>4, <1>5, <1>6 DEF DashInv

\* The ids that are printed are of a dashboard that is there.
LEMMA PrintIdsKeeps ==
  ASSUME DashInv, PrintIds
  PROVE  DashInv'
<1>1. command.name = "setup" /\ command.at \in 1..22 /\ Current = SetupSteps[command.at] /\ Current.do = "print"
  BY SetupStepIn DEF PrintIds
<1>2. command.at = 22
  BY <1>1, SetupStepIs
<1>3. /\ command' = Onwards /\ known' = setups
      /\ sections' = sections /\ made' = made /\ content' = content /\ setups' = setups
  BY DEF PrintIds
<1>4. command' \in DashCommands /\ command'.at = 23 /\ command'.name = "setup"
  BY <1>1, <1>2, <1>3, OnwardsIs
<1>5. setups \in Nat /\ setups > 0
  BY <1>1, DashboardAssumption DEF DashInv, DashTyped, AtIsThere, Setups, DashboardAssumption
<1>6. DashTyped' /\ AtIsThere' /\ RebuildLaid'
  BY <1>1, <1>3, <1>4, <1>5 DEF DashInv, DashTyped, AtIsThere, RebuildLaid
<1>7. YetEmpty'
  BY <1>3 DEF DashInv, YetEmpty
<1>8. SectionsMade' /\ PagesMade' /\ FilledOnce'
  BY <1>1, <1>3, SectionsStay, PagesStay, FillsStay
<1>9. KnownWhole'
  <2>1. ASSUME NEW q \in Planners PROVE sections[q] = 1
    <3>1. SectionAt(q) \in 2..4
      BY PlacedAre
    <3> QED BY <1>1, <1>2, <3>1 DEF DashInv, SetupMade, SectionsMade
  <2>2. ASSUME NEW part \in Parts
        PROVE  /\ <<"page", part, setups>> \in made
               /\ part \in WithDatabase => <<"database", part, setups>> \in made
               /\ part \in WithDatabase => content[<<part, setups>>] = 1
    <3>1. /\ PageAt(part) \in 6..20
          /\ command'.at > PageAt(part) => <<"page", part, setups>> \in made
          /\ command'.at > PageAt(part) + 2 /\ part \in WithDatabase => <<"database", part, setups>> \in made
          /\ content[<<part, setups>>] = IF command'.at > PageAt(part) + 1 THEN 1 ELSE 0
      BY <1>3, <1>8, PlacedAre DEF PagesMade, FilledOnce
    <3>2. command'.at > PageAt(part) /\ command'.at > PageAt(part) + 1 /\ command'.at > PageAt(part) + 2
      BY <1>4, <3>1
    <3> QED BY <3>1, <3>2
  <2>3. ASSUME NEW part \in Parts PROVE <<"page", part, setups>> \in made
    BY <2>2
  <2>4. ASSUME NEW part \in WithDatabase
        PROVE  <<"database", part, setups>> \in made /\ content[<<part, setups>>] = 1
    <3>1. part \in Parts
      BY PartsAre
    <3> QED BY <2>2, <3>1
  <2> QED BY <1>3, <2>1, <2>3, <2>4 DEF KnownWhole
<1> QED BY <1>4, <1>6, <1>7, <1>8, <1>9 DEF DashInv, SetupMade

\* The end of a command.
LEMMA EndCommandKeeps ==
  ASSUME DashInv, EndCommand
  PROVE  DashInv'
<1>1. /\ command' = NotRunning
      /\ sections' = sections /\ made' = made /\ content' = content /\ known' = known /\ setups' = setups
  BY DEF EndCommand
<1>2. DashTyped' /\ YetEmpty' /\ KnownWhole'
  BY <1>1, NotRunningIs DEF DashInv, DashTyped, YetEmpty, KnownWhole
<1> QED BY <1>1, <1>2, StopKeeps

\* A setup begins with pages of its own.
LEMMA SetupKeeps ==
  ASSUME DashInv, Setup
  PROVE  DashInv'
<1>1. /\ setups < MaxSetups /\ setups' = setups + 1 /\ command' = [NotRunning EXCEPT !.name = "setup"]
      /\ sections' = sections /\ made' = made /\ content' = content /\ known' = known
  BY DEF Setup
<1>2. command' \in DashCommands /\ command'.at = 1 /\ command'.name = "setup"
  BY <1>1, NotRunningIs DEF DashCommands
<1>3. setups \in Nat /\ known \in Nat /\ known <= setups /\ setups + 1 \in Setups
  BY <1>1, DashboardAssumption DEF DashInv, DashTyped, Setups, DashboardAssumption
<1>4. DashTyped' /\ AtIsThere' /\ KnownWhole' /\ RebuildLaid'
  BY <1>1, <1>2, <1>3 DEF DashInv, DashTyped, AtIsThere, KnownWhole, RebuildLaid
<1>5. YetEmpty'
  <2>1. \A k \in Setups : k > setups + 1 => k > setups
    BY <1>3 DEF Setups
  <2> QED BY <1>1, <2>1 DEF DashInv, YetEmpty
<1>6. SectionsMade'
  <2>1. \A p \in Planners : SectionAt(p) \in 2..4
    BY PlacedAre
  <2> QED BY <1>2, <2>1 DEF SectionsMade
<1>7. PagesMade' /\ FilledOnce'
  <2>1. \A part \in Parts : PageAt(part) \in 6..20
    BY PlacedAre
  <2>2. \A part \in Parts : content[<<part, setups + 1>>] = 0
    BY <1>3 DEF DashInv, YetEmpty
  <2>3. PagesMade'
    BY <1>2, <2>1 DEF PagesMade
  <2>4. FilledOnce'
    BY <1>1, <1>2, <2>1, <2>2 DEF FilledOnce
  <2> QED BY <2>3, <2>4
<1> QED BY <1>1, <1>3, <1>4, <1>5, <1>6, <1>7 DEF DashInv, SetupMade

\* A rebuild begins on the dashboard that is configured.
LEMMA RebuildKeeps ==
  ASSUME DashInv, Rebuild
  PROVE  DashInv'
<1>1. /\ known # 0 /\ command' = [NotRunning EXCEPT !.name = "rebuild"]
      /\ sections' = sections /\ made' = made /\ content' = content /\ known' = known /\ setups' = setups
  BY DEF Rebuild
<1>2. command' \in DashCommands /\ command'.at = 1 /\ command'.name = "rebuild"
  BY <1>1, NotRunningIs DEF DashCommands
<1> QED BY <1>1, <1>2 DEF DashInv, DashTyped, AtIsThere, SetupMade, YetEmpty, KnownWhole, RebuildLaid

\* The invariant holds before the first command.
LEMMA DashInvInit == DashboardInit => DashInv
<1> SUFFICES ASSUME DashboardInit PROVE DashInv
  OBVIOUS
<1>1. /\ sections = [p \in Planners |-> 0] /\ content = [p \in Pages |-> 0] /\ known = 0
      /\ command = NotRunning /\ setups = 0
  BY DEF DashboardInit
<1>2. DashTyped
  BY <1>1, NotRunningIs, DashboardAssumption DEF DashTyped, Setups, DashboardAssumption
<1>3. YetEmpty
  BY <1>1 DEF YetEmpty, Pages
<1> QED BY <1>1, <1>2, <1>3, NotRunningIs DEF DashInv, AtIsThere, SetupMade, KnownWhole, RebuildLaid

\* Every step of the two commands keeps the invariant.
LEMMA DashInvStep == DashInv /\ [DashboardNext]_dashboardVars => DashInv'
<1> SUFFICES ASSUME DashInv, [DashboardNext]_dashboardVars PROVE DashInv'
  OBVIOUS
<1>1. CASE UNCHANGED dashboardVars
  BY <1>1 DEF dashboardVars, DashInv, DashTyped, AtIsThere, SetupMade, SectionsMade, PagesMade, FilledOnce,
              YetEmpty, KnownWhole, RebuildLaid
<1> QED BY <1>1, SetupKeeps, RebuildKeeps, ReadSectionsKeeps, CreateSectionKeeps, CreatePartKeeps, FillKeeps,
           ArchiveKeeps, StampKeeps, PrintIdsKeeps, EndCommandKeeps DEF DashboardNext

\* The invariant comes to the property.
LEMMA WholeByInv == DashInv => DashboardIsWhole
<1> SUFFICES ASSUME DashInv PROVE DashboardIsWhole
  OBVIOUS
<1>1. \A p \in Planners : sections[p] <= 1
  BY DEF DashInv, DashTyped
<1>2. command.name = "rebuild" /\ Through /\ command.failures = 0 =>
        content[Root] = 1 /\ content[<<"command", known>>] = 1
  <2> SUFFICES ASSUME command.name = "rebuild", Through, command.failures = 0
               PROVE  content[Root] = 1 /\ content[<<"command", known>>] = 1
    OBVIOUS
  <2>1. StepsOf(command.name) = RebuildSteps /\ command.at \in 1..23
    BY DEF StepsOf, DashInv, DashTyped, DashCommands
  <2>2. command.at > 5
    BY <2>1, RebuildStepsAre DEF Through
  <2> QED BY <2>1, <2>2 DEF DashInv, RebuildLaid
<1> QED BY <1>1, <1>2 DEF DashInv, KnownWhole, DashboardIsWhole

\* cmd_notion_setup, setup_dashboard and rebuild_dashboard: however often they are run
\* and wherever they fail, each planner has one section at most, what the configuration
\* names is complete, and a rebuild that archived everything leaves each layout once.
THEOREM DashboardAlwaysWhole == DashboardSpec => []DashboardIsWhole
<1>1. DashboardInit => DashInv
  BY DashInvInit
<1>2. DashInv /\ [DashboardNext]_dashboardVars => DashInv'
  BY DashInvStep
<1>3. DashInv => DashboardIsWhole
  BY WholeByInv
<1> QED BY <1>1, <1>2, <1>3, PTL DEF DashboardSpec

------------------------------------------------------------------------------
(***************************************************************************)
(* brain/queue/scheduler.py: any set of tenants, any schedules and any     *)
(* minutes the clock may show.                                             *)
(***************************************************************************)

\* The slots of a plan follow the clock (the keys of _check_tenant).
LEMMA SlotMonotone ==
  ASSUME NEW p \in Plans, NEW m \in Nat, NEW n \in Nat, m <= n
  PROVE  Slot(p, m) <= Slot(p, n)
BY DEF Slot, Hour, Day, Plans

\* A correction within the hour leaves every slot as it is.
LEMMA SlotOfHour ==
  ASSUME NEW p \in Plans, NEW m \in Nat, NEW n \in Nat, Hour(m) = Hour(n)
  PROVE  Slot(p, m) = Slot(p, n)
<1>1. CASE p = "overdue"
  BY <1>1 DEF Slot
<1>2. CASE p # "overdue"
  <2>1. \A k \in Nat : k \div 1440 = (k \div 60) \div 24
    OBVIOUS
  <2>2. QED
    BY <1>2, <2>1 DEF Slot, Hour, Day
<1>3. QED
  BY <1>1, <1>2

\* A slot is a number, and one of the slots the clock can reach.
LEMMA SlotIsSlot ==
  ASSUME NEW p \in Plans, NEW m \in Moments
  PROVE  Slot(p, m) \in Slots /\ Slot(p, m) \in Nat
BY SchedulerAssumption DEF Slots, Slot, Hour, Day

\* Every slot is a number.
LEMMA SlotsAreNumbers == \A s \in Slots : s \in Nat
BY SchedulerAssumption DEF Slots, Slot, Hour, Day
------------------------------------------------------------------------------
\* Type correctness of the scheduler's state (TenantScheduler and its tenants).
THEOREM SchedulerTypeCorrect == SchedulerSpec => []SchedulerTypeOK
<1>1. SchedulerInit => SchedulerTypeOK
  <2> SUFFICES ASSUME SchedulerInit
               PROVE  SchedulerTypeOK
    OBVIOUS
  <2>1. /\ lastCheck \in [Tenants -> [Plans -> Slots \cup {NoSlot}]]
        /\ submitted \in [Tenants -> [Plans -> [Slots -> Nat]]]
    BY DEF SchedulerInit
  <2>2. QED
    BY <2>1 DEF SchedulerInit, SchedulerTypeOK
<1>2. SchedulerTypeOK /\ [SchedulerNext]_schedulerVars => SchedulerTypeOK'
  <2> SUFFICES ASSUME SchedulerTypeOK, [SchedulerNext]_schedulerVars
               PROVE  SchedulerTypeOK'
    OBVIOUS
  <2> USE DEF SchedulerTypeOK
  <2>1. CASE ListTenants
    BY <2>1 DEF ListTenants, tenantVars
  <2>2. CASE TickFails
    BY <2>2 DEF TickFails, tenantVars
  <2>3. CASE \E t \in Tenants : CheckTenant(t)
    <3> PICK t \in Tenants : CheckTenant(t)
      BY <2>3
    <3>1. lastCheck' \in [Tenants -> [Plans -> Slots \cup {NoSlot}]]
      BY SlotIsSlot DEF CheckTenant
    <3>2. submitted' \in [Tenants -> [Plans -> [Slots -> Nat]]]
      BY DEF CheckTenant
    <3>3. QED
      BY <3>1, <3>2 DEF CheckTenant, tenantVars
  <2>4. CASE TickEnds
    BY <2>4 DEF TickEnds, tickVars, tenantVars
  <2>5. CASE Wake
    BY <2>5 DEF Wake, tickVars, tenantVars
  <2>6. CASE TimePasses \/ ClockCorrected
    BY <2>6 DEF TimePasses, ClockCorrected, tickVars, tenantVars
  <2>7. CASE \E t \in Tenants : UpdateConfig(t) \/ DeactivateTenant(t)
    BY <2>7 DEF UpdateConfig, DeactivateTenant, tickVars, tenantVars
  <2>8. CASE WorkerWrites \/ Stop
    BY <2>8 DEF WorkerWrites, Stop, tickVars, tenantVars
  <2>9. CASE UNCHANGED schedulerVars
    BY <2>9 DEF schedulerVars, tickVars, tenantVars
  <2>10. QED
    BY <2>1, <2>2, <2>3, <2>4, <2>5, <2>6, <2>7, <2>8, <2>9 DEF SchedulerNext, Tick
<1>3. QED
  BY <1>1, <1>2, PTL DEF SchedulerSpec
------------------------------------------------------------------------------
\* The remembered key is the newest one: nothing later was submitted, the tick
\* at hand is not earlier than it, and the clock never falls behind the tick.
NewestKey ==
  /\ \A t \in Tenants, p \in Plans :
       /\ lastCheck[t][p] <= Slot(p, at)
       /\ \A s \in Slots : submitted[t][p][s] > 0 => s <= lastCheck[t][p]
  /\ \A p \in Plans : Slot(p, at) <= Slot(p, now)

SchedulerInv == NewestKey /\ SubmittedOnce /\ MarkedIsSubmitted

\* A key is a number: a slot, or none yet.
LEMMA KeyIsNumber ==
  ASSUME SchedulerTypeOK, NEW t \in Tenants, NEW p \in Plans
  PROVE  lastCheck[t][p] \in Int
<1>1. lastCheck[t][p] \in Slots \cup {NoSlot}
  BY DEF SchedulerTypeOK
<1>2. NoSlot \in Int
  BY DEF NoSlot
<1>3. CASE lastCheck[t][p] \in Slots
  BY <1>3, SlotsAreNumbers
<1>4. QED
  BY <1>1, <1>2, <1>3

\* Nothing was submitted before the first tick.
LEMMA SchedulerInvInit == SchedulerInit => SchedulerInv
BY SchedulerAssumption, SlotIsSlot, SlotsAreNumbers
   DEF SchedulerInit, SchedulerInv, NewestKey, SubmittedOnce, MarkedIsSubmitted, NoSlot

\* A new tick is of the minute the clock shows (ListTenants, TickFails).
LEMMA TickKeepsInv ==
  ASSUME SchedulerTypeOK, SchedulerInv, at' = now,
         UNCHANGED <<now, lastCheck, submitted>>
  PROVE  SchedulerInv'
<1>1. ASSUME NEW t \in Tenants, NEW p \in Plans
      PROVE  lastCheck[t][p] <= Slot(p, now)
  <2>1. /\ Slot(p, at) \in Int
        /\ Slot(p, now) \in Int
        /\ lastCheck[t][p] \in Int
    <3>1. /\ Slot(p, at) \in Nat
          /\ Slot(p, now) \in Nat
      BY SlotIsSlot DEF SchedulerTypeOK
    <3>2. QED
      BY <3>1, KeyIsNumber
  <2>2. lastCheck[t][p] <= Slot(p, at) /\ Slot(p, at) <= Slot(p, now)
    BY DEF SchedulerInv, NewestKey
  <2>3. QED
    BY <2>1, <2>2
<1>2. \A p \in Plans : Slot(p, now) <= Slot(p, now)
  BY SlotIsSlot DEF SchedulerTypeOK
<1>3. NewestKey'
  BY <1>1, <1>2 DEF SchedulerInv, NewestKey, Slot, Hour, Day
<1>4. QED
  BY <1>3 DEF SchedulerInv, SubmittedOnce, MarkedIsSubmitted

\* A due plan's slot is newer than its key, so it was never submitted before.
LEMMA CheckKeepsInv ==
  ASSUME SchedulerTypeOK, SchedulerInv, NEW t \in Tenants, CheckTenant(t)
  PROVE  SchedulerInv'
<1> DEFINE mark(u, p) == u = t /\ p \in Due(t)
<1>1. \A p \in Plans : Slot(p, at) \in Slots /\ Slot(p, at) \in Nat
  BY SlotIsSlot DEF SchedulerTypeOK
<1>2. ASSUME NEW u \in Tenants, NEW p \in Plans
      PROVE  /\ lastCheck[u][p] \in Int
             /\ lastCheck'[u][p] = IF mark(u, p) THEN Slot(p, at) ELSE lastCheck[u][p]
             /\ \A s \in Slots :
                  /\ submitted[u][p][s] \in Nat
                  /\ submitted'[u][p][s] =
                       IF mark(u, p) /\ s = Slot(p, at) THEN submitted[u][p][s] + 1
                       ELSE submitted[u][p][s]
  <2>1. lastCheck[u][p] \in Int
    BY KeyIsNumber
  <2>2. lastCheck'[u][p] = IF mark(u, p) THEN Slot(p, at) ELSE lastCheck[u][p]
    BY DEF CheckTenant, SchedulerTypeOK
  <2>3. \A s \in Slots : submitted[u][p][s] \in Nat
    BY DEF SchedulerTypeOK
  <2>4. \A s \in Slots :
          submitted'[u][p][s] =
            IF mark(u, p) /\ s = Slot(p, at) THEN submitted[u][p][s] + 1
            ELSE submitted[u][p][s]
    BY DEF CheckTenant, SchedulerTypeOK
  <2>5. QED
    BY <2>1, <2>2, <2>3, <2>4
<1>3. ASSUME NEW p \in Due(t)
      PROVE  submitted[t][p][Slot(p, at)] = 0
  <2>1. p \in Plans /\ lastCheck[t][p] # Slot(p, at)
    BY DEF Due
  <2>2. lastCheck[t][p] < Slot(p, at)
    BY <1>1, <1>2, <2>1 DEF SchedulerInv, NewestKey
  <2>3. QED
    BY <1>1, <1>2, <2>1, <2>2 DEF SchedulerInv, NewestKey
<1>4. NewestKey'
  <2>1. ASSUME NEW u \in Tenants, NEW p \in Plans
        PROVE  /\ lastCheck'[u][p] <= Slot(p, at)
               /\ \A s \in Slots : submitted'[u][p][s] > 0 => s <= lastCheck'[u][p]
    <3>1. CASE mark(u, p)
      BY <1>1, <1>2, <3>1, SlotsAreNumbers DEF SchedulerInv, NewestKey
    <3>2. CASE ~mark(u, p)
      BY <1>2, <3>2 DEF SchedulerInv, NewestKey
    <3>3. QED
      BY <3>1, <3>2
  <2>2. at' = at /\ now' = now
    BY DEF CheckTenant
  <2>3. QED
    BY <2>1, <2>2 DEF SchedulerInv, NewestKey, Slot, Hour, Day
<1>5. SubmittedOnce'
  <2>1. ASSUME NEW u \in Tenants, NEW p \in Plans, NEW s \in Slots
        PROVE  submitted'[u][p][s] <= 1
    BY <1>2, <1>3 DEF SchedulerInv, SubmittedOnce
  <2>2. QED
    BY <2>1 DEF SubmittedOnce
<1>6. MarkedIsSubmitted'
  <2>1. ASSUME NEW u \in Tenants, NEW p \in Plans, lastCheck'[u][p] # NoSlot
        PROVE  submitted'[u][p][lastCheck'[u][p]] > 0
    <3>1. CASE mark(u, p)
      BY <1>1, <1>2, <3>1
    <3>2. CASE ~mark(u, p)
      <4>1. lastCheck[u][p] \in Slots
        BY <1>2, <2>1, <3>2 DEF SchedulerTypeOK
      <4>2. QED
        BY <1>2, <2>1, <3>2, <4>1 DEF SchedulerInv, MarkedIsSubmitted
    <3>3. QED
      BY <3>1, <3>2
  <2>2. QED
    BY <2>1 DEF MarkedIsSubmitted
<1>7. QED
  BY <1>4, <1>5, <1>6 DEF SchedulerInv

\* The clock may go on, or back within the hour, without passing a slot.
LEMMA ClockKeepsInv ==
  ASSUME SchedulerTypeOK, SchedulerInv, TimePasses \/ ClockCorrected
  PROVE  SchedulerInv'
<1>1. UNCHANGED <<at, lastCheck, submitted>>
  BY DEF TimePasses, ClockCorrected, tickVars
<1>2. ASSUME NEW p \in Plans
      PROVE  Slot(p, at) <= Slot(p, now')
  <2>1. now \in Nat /\ now' \in Nat
    BY SchedulerAssumption DEF SchedulerTypeOK, TimePasses, ClockCorrected
  <2>2. Slot(p, now) <= Slot(p, now')
    <3>1. CASE TimePasses
      <4>1. now <= now'
        BY <2>1, <3>1 DEF TimePasses
      <4>2. QED
        BY <2>1, <4>1, SlotMonotone
    <3>2. CASE ClockCorrected
      <4>1. Hour(now) = Hour(now')
        BY <3>2 DEF ClockCorrected
      <4>2. Slot(p, now) = Slot(p, now')
        BY <2>1, <4>1, SlotOfHour
      <4>3. Slot(p, now) \in Nat
        BY SlotIsSlot DEF SchedulerTypeOK
      <4>4. QED
        BY <4>2, <4>3
    <3>3. QED
      BY <3>1, <3>2
  <2>3. Slot(p, at) \in Nat /\ Slot(p, now) \in Nat
    BY SlotIsSlot DEF SchedulerTypeOK
  <2>4. Slot(p, now') \in Nat
    BY SlotIsSlot DEF TimePasses, ClockCorrected
  <2>5. Slot(p, at) <= Slot(p, now)
    BY DEF SchedulerInv, NewestKey
  <2>6. QED
    BY <2>2, <2>3, <2>4, <2>5
<1>3. NewestKey'
  BY <1>1, <1>2 DEF SchedulerInv, NewestKey, Slot, Hour, Day
<1>4. QED
  BY <1>1, <1>3 DEF SchedulerInv, SubmittedOnce, MarkedIsSubmitted

\* Whatever leaves the clock, the tick, the keys and the jobs alone keeps it.
LEMMA OthersKeepInv ==
  ASSUME SchedulerInv, UNCHANGED <<now, at, lastCheck, submitted>>
  PROVE  SchedulerInv'
BY DEF SchedulerInv, NewestKey, SubmittedOnce, MarkedIsSubmitted, Slot, Hour, Day

\* The keys, the jobs and the clock agree in every reachable state.
LEMMA SchedulerInvAlways == SchedulerSpec => []SchedulerInv
<1>1. SchedulerTypeOK /\ SchedulerInv /\ [SchedulerNext]_schedulerVars => SchedulerInv'
  <2> SUFFICES ASSUME SchedulerTypeOK, SchedulerInv, [SchedulerNext]_schedulerVars
               PROVE  SchedulerInv'
    OBVIOUS
  <2>1. CASE ListTenants \/ TickFails
    BY <2>1, TickKeepsInv DEF ListTenants, TickFails
  <2>2. CASE \E t \in Tenants : CheckTenant(t)
    BY <2>2, CheckKeepsInv
  <2>3. CASE TimePasses \/ ClockCorrected
    BY <2>3, ClockKeepsInv
  <2>4. CASE TickEnds \/ Wake
    BY <2>4, OthersKeepInv DEF TickEnds, Wake, tickVars
  <2>5. CASE \E t \in Tenants : UpdateConfig(t) \/ DeactivateTenant(t)
    BY <2>5, OthersKeepInv DEF UpdateConfig, DeactivateTenant, tickVars
  <2>6. CASE WorkerWrites \/ Stop \/ UNCHANGED schedulerVars
    BY <2>6, OthersKeepInv DEF WorkerWrites, Stop, schedulerVars, tickVars
  <2>7. QED
    BY <2>1, <2>2, <2>3, <2>4, <2>5, <2>6 DEF SchedulerNext, Tick
<1>2. QED
  BY <1>1, SchedulerInvInit, SchedulerTypeCorrect, PTL DEF SchedulerSpec

\* No slot is submitted twice by one process (_check_tenant and _last_check).
THEOREM SlotsSubmittedOnce == SchedulerSpec => []SubmittedOnce
<1>1. SchedulerInv => SubmittedOnce
  BY DEF SchedulerInv
<1>2. QED
  BY <1>1, SchedulerInvAlways, PTL

\* No slot is remembered as served whose job was not enqueued (_check_tenant).
THEOREM MarksAreJobs == SchedulerSpec => []MarkedIsSubmitted
<1>1. SchedulerInv => MarkedIsSubmitted
  BY DEF SchedulerInv
<1>2. QED
  BY <1>1, SchedulerInvAlways, PTL
------------------------------------------------------------------------------
(***************************************************************************)
(* The types of the components, and of all of them in one behaviour.       *)
(***************************************************************************)

\* brain/pipeline: layers, runs and their log have the values of MedallionTypeOK.
THEOREM MedallionTypeCorrect == MedallionSpec => []MedallionTypeOK
<1>1. MedallionInv => MedallionTypeOK
  BY DEF MedallionInv, LayersTyped, MedallionTypeOK, Seconds, Stages, Works
<1> QED BY <1>1, MedallionInvInit, MedallionInvStep, PTL DEF MedallionSpec

\* What goes with the silver rows: the gold rows, what is about to go there, and counts.
RowsAreCounted ==
  /\ goldRows \in [SqlTenants -> [RecordIds -> Versioned]]
  /\ \A layer \in DOMAIN stats : stats[layer] \in Nat

\* A table has a number of rows.
LEMMA RowsCount ==
  /\ \A rows \in SUBSET (RecordIds \X Versions) : Cardinality(rows) \in Nat
  /\ \A rows \in SUBSET RecordIds : Cardinality(rows) \in Nat
<1>1. IsFiniteSet(1..MaxBatches)
  BY SqlAssumption, FS_Interval DEF SqlAssumption
<1>2. IsFiniteSet(Versions)
  BY <1>1, SqlAssumption, FS_Product DEF Versions, SqlAssumption
<1>3. IsFiniteSet(RecordIds \X Versions)
  BY <1>2, SqlAssumption, FS_Product DEF SqlAssumption
<1>4. ASSUME NEW rows \in SUBSET (RecordIds \X Versions) PROVE Cardinality(rows) \in Nat
  BY <1>3, FS_Subset, FS_CardinalityType
<1>5. ASSUME NEW rows \in SUBSET RecordIds PROVE Cardinality(rows) \in Nat
  BY SqlAssumption, FS_Subset, FS_CardinalityType DEF SqlAssumption
<1> QED BY <1>4, <1>5

\* Every statement leaves a table of rows and its count.
LEMMA CountedStep ==
  ASSUME SqlInv, RowsAreCounted, [SqlNext]_sqlVars
  PROVE  RowsAreCounted'
<1>1. CASE UNCHANGED sqlVars
  BY <1>1 DEF sqlVars, RowsAreCounted
<1>2. ASSUME NEW n \in Nat, NEW layer, stats' = [stats EXCEPT ![layer] = n]
      PROVE  \A l \in DOMAIN stats' : stats'[l] \in Nat
  BY <1>2 DEF RowsAreCounted
<1>3. ASSUME NEW t \in SqlTenants, NEW records \in [RecordIds -> SUBSET Places], BronzeIngest(t, records)
      PROVE  RowsAreCounted'
  <2>1. PICK rows : /\ rows \in SUBSET (RecordIds \X Versions)
                    /\ stats' = [stats EXCEPT !.bronze = Cardinality(rows)]
    BY <1>3 DEF BronzeIngest
  <2> QED BY <1>2, <1>3, <2>1, RowsCount DEF BronzeIngest, RowsAreCounted
<1>4. ASSUME NEW t \in SqlTenants, SilverDelete(t) PROVE RowsAreCounted'
  BY <1>4 DEF SilverDelete, RowsAreCounted
<1>5. ASSUME NEW t \in SqlTenants, GoldDelete(t) PROVE RowsAreCounted'
  <2>1. NoRecords \in [RecordIds -> Versioned]
    BY DEF NoRecords, Versioned
  <2> QED BY <1>5, <2>1 DEF GoldDelete, RowsAreCounted
<1>6. CASE SilverInsert
  <2>1. PICK f : stats' = [stats EXCEPT !.silver = Cardinality(Held(f))]
    BY <1>6 DEF SilverInsert
  <2>2. Held(f) \in SUBSET RecordIds
    BY DEF Held
  <2> QED BY <1>2, <1>6, <2>1, <2>2, RowsCount DEF SilverInsert, RowsAreCounted
<1>7. CASE GoldInsert
  <2>1. Held(step.scored) \in SUBSET RecordIds
    BY DEF Held
  <2>2. step.scored \in [RecordIds -> Versioned] /\ step.tenant \in SqlTenants
    BY <1>7 DEF GoldInsert, SqlInv, SqlSteps
  <2>3. goldRows' \in [SqlTenants -> [RecordIds -> Versioned]]
    BY <1>7, <2>2 DEF GoldInsert, RowsAreCounted
  <2> QED BY <1>2, <1>7, <2>1, <2>3, RowsCount DEF GoldInsert, RowsAreCounted
<1>8. CASE Interrupted
  BY <1>8 DEF Interrupted, RowsAreCounted
<1> QED BY <1>1, <1>3, <1>4, <1>5, <1>6, <1>7, <1>8 DEF SqlNext

\* brain/engine/processor.py: the tables and the catalog's counts are what SqlTypeOK says.
THEOREM SqlTypeCorrect == SqlSpec => []SqlTypeOK
<1>1. SqlInit => SqlInv /\ RowsAreCounted
  BY SqlInvInit DEF SqlInit, RowsAreCounted, NoRecords, Versioned
<1>2. SqlInv /\ RowsAreCounted /\ [SqlNext]_sqlVars => (SqlInv /\ RowsAreCounted)'
  BY SqlInvStep, CountedStep
<1>3. SqlInv /\ RowsAreCounted => SqlTypeOK
  BY DEF SqlInv, RowsAreCounted, SqlTypeOK, Versioned
<1> QED BY <1>1, <1>2, <1>3, PTL DEF SqlSpec

\* The labels of a task are its own or "blocked", the days and changes are counted.
LabelledAsTold(t, seen) == seen.column \in Columns \cup {NoColumn} /\ seen.labels \subseteq t.hints \cup {"blocked"}
BoardCounted ==
  /\ \A t \in BoardTasks : LabelledAsTold(t, board[t])
  /\ date \in 0..LastDate /\ edits \in 0..MaxEdits

\* A request moves or labels its task, or does nothing.
LEMMA RequestMeans ==
  ASSUME NEW r, NEW t, NEW effect, Request(r, t, effect)
  PROVE  board' \in {board, effect}
BY DEF Request

LEMMA BoardCountedStep ==
  ASSUME BoardInv, BoardCounted, [BoardNext]_boardVars
  PROVE  BoardCounted'
<1>1. board \in Boards
  BY DEF BoardInv, BoardTyped
<1>2. ASSUME NEW t \in BoardTasks, NEW seen, LabelledAsTold(t, seen), board' \in {board, [board EXCEPT ![t] = seen]}
      PROVE  \A u \in BoardTasks : LabelledAsTold(u, board'[u])
  BY <1>1, <1>2 DEF Boards, BoardCounted
<1>3. CASE UNCHANGED boardVars
  BY <1>3 DEF boardVars, BoardCounted
<1>4. CASE (\E dry \in BOOLEAN : Fetch(dry)) \/ Report
  BY <1>4 DEF Fetch, Report, BoardCounted
<1>5. CASE NextDate
  BY <1>5, BoardAssumption DEF NextDate, BoardCounted, BoardAssumption
<1>6. ASSUME NEW t \in BoardTasks, MoveTask(t) PROVE BoardCounted'
  <2>1. PICK seen : seen = tidyRun.fetched[t]
    OBVIOUS
  <2>2. CASE Misplaced(t, seen)
    <3>1. board' \in {board, [board EXCEPT ![t].column = IdealColumn(t, seen)]}
      BY <1>6, <2>1, <2>2, RequestMeans DEF MoveTask
    <3>2. PICK new : new = [board[t] EXCEPT !.column = IdealColumn(t, seen)]
      OBVIOUS
    <3>3. LabelledAsTold(t, new)
      BY <1>1, <2>2, <3>2 DEF Misplaced, LabelledAsTold, BoardCounted, Boards
    <3>4. board' \in {board, [board EXCEPT ![t] = new]}
      BY <3>1, <3>2
    <3> QED BY <1>2, <1>6, <3>3, <3>4 DEF MoveTask, BoardCounted
  <2>3. CASE ~Misplaced(t, seen)
    BY <1>6, <2>1, <2>3 DEF MoveTask, BoardCounted
  <2> QED BY <2>2, <2>3
<1>7. ASSUME NEW t \in BoardTasks, LabelTask(t) PROVE BoardCounted'
  <2>1. CASE Unlabelled(t, tidyRun.fetched[t])
    <3>1. board' \in {board, [board EXCEPT ![t].labels = t.hints]}
      BY <1>7, <2>1, RequestMeans DEF LabelTask
    <3>2. PICK new : new = [board[t] EXCEPT !.labels = t.hints]
      OBVIOUS
    <3>3. LabelledAsTold(t, new)
      BY <1>1, <3>2 DEF LabelledAsTold, BoardCounted, Boards
    <3>4. board' \in {board, [board EXCEPT ![t] = new]}
      BY <3>1, <3>2
    <3> QED BY <1>2, <1>7, <3>3, <3>4 DEF LabelTask, BoardCounted
  <2>2. CASE ~Unlabelled(t, tidyRun.fetched[t])
    BY <1>7, <2>2 DEF LabelTask, BoardCounted
  <2> QED BY <2>1, <2>2
<1>8. ASSUME NEW t \in BoardTasks, Edit(t) PROVE BoardCounted'
  <2>1. PICK c \in Columns, ls \in {{}, {"blocked"}, t.hints} :
          board' = [board EXCEPT ![t] = [column |-> c, labels |-> ls]]
    BY <1>8 DEF Edit
  <2>2. LabelledAsTold(t, [column |-> c, labels |-> ls])
    BY DEF LabelledAsTold
  <2>3. \A u \in BoardTasks : LabelledAsTold(u, board'[u])
    BY <1>2, <2>1, <2>2
  <2> QED BY <1>8, <2>3, BoardAssumption DEF Edit, BoardCounted, BoardAssumption
<1> QED BY <1>3, <1>4, <1>5, <1>6, <1>7, <1>8 DEF BoardNext

\* reorganize_board: the tasks' sections and labels, and the place of the run.
THEOREM BoardTypeCorrect == BoardSpec => []BoardTypeOK
<1>1. BoardInit => BoardInv /\ BoardCounted
  <2>1. BoardInit => BoardCounted
    BY BoardAssumption DEF BoardInit, BoardCounted, LabelledAsTold, BoardAssumption
  <2> QED BY <2>1, BoardInvInit, BoardAssumption
<1>2. BoardInv /\ BoardCounted /\ [BoardNext]_boardVars => (BoardInv /\ BoardCounted)'
  BY BoardInvStep, BoardCountedStep, BoardAssumption
<1>3. BoardInv /\ BoardCounted => BoardTypeOK
  BY DEF BoardInv, BoardCounted, LabelledAsTold, BoardTyped, AtOneTask, TidyRuns, During, BoardTypeOK
<1> QED BY <1>1, <1>2, <1>3, PTL DEF BoardSpec

\* What the counters say of the dashboard: a section, page or database is of a setup
\* that was begun, and each command lays a page out once, if it still has to or not.
StillFills(p) ==
  \/ /\ command.name = "setup"
     /\ \/ p = Root /\ command.at <= 5
        \/ \E part \in Parts : p = <<part, setups>> /\ command.at <= PageAt(part) + 1
  \/ /\ command.name = "rebuild"
     /\ (p = Root /\ command.at <= 2) \/ (p = <<"command", known>> /\ command.at <= 4)
LaidOutOnceEach ==
  \A p \in Pages : content[p] + (IF StillFills(p) THEN 1 ELSE 0) <= setups + rebuilds
DashCounted ==
  /\ rebuilds \in 0..MaxRebuilds
  /\ setups = 0 => \A p \in Planners : sections[p] = 0
  /\ made \subseteq {"page", "database"} \X Parts \X Setups
  /\ LaidOutOnceEach

\* A page that is not laid out once more is not due to be more often.
LEMMA LaidOutStays ==
  ASSUME DashInv, DashCounted, setups' = setups, rebuilds' = rebuilds,
         \A p \in Pages : content'[p] \in Nat /\ content'[p] <= content[p],
         \A p \in Pages : StillFills(p)' => StillFills(p)
  PROVE  LaidOutOnceEach'
<1>1. setups \in Nat /\ rebuilds \in Nat
  BY DashboardAssumption DEF DashInv, DashTyped, Setups, DashCounted, DashboardAssumption
<1>2. ASSUME NEW p \in Pages
      PROVE  content'[p] + (IF StillFills(p)' THEN 1 ELSE 0) <= setups + rebuilds
  <2>1. content[p] + (IF StillFills(p) THEN 1 ELSE 0) <= setups + rebuilds /\ content[p] \in Nat
    BY DEF DashCounted, LaidOutOnceEach, DashInv, DashTyped
  <2>2. StillFills(p)' => StillFills(p)
    OBVIOUS
  <2> HIDE DEF LaidOutOnceEach
  <2> QED BY <1>1, <2>1, <2>2
<1> QED BY <1>2 DEF LaidOutOnceEach

\* Going on or ending, a command has no more pages to lay out.
LEMMA FillsNoMore ==
  ASSUME DashInv, setups' = setups, command.name = "setup" \/ known' = known,
         \/ command' = NotRunning
         \/ command'.name = command.name /\ command'.at \in Nat /\ command'.at >= command.at
  PROVE  \A p \in Pages : StillFills(p)' => StillFills(p)
<1>1. command.at \in Nat
  BY DEF DashInv, DashTyped, DashCommands
<1>2. \A part \in Parts : PageAt(part) \in Nat
  BY PlacedAre
<1>3. CASE command' = NotRunning
  BY <1>3, NotRunningIs DEF StillFills
<1>4. CASE command'.name = command.name /\ command'.at \in Nat /\ command'.at >= command.at
  <2> SUFFICES ASSUME NEW p \in Pages, StillFills(p)' PROVE StillFills(p)
    OBVIOUS
  <2>1. CASE command.name = "setup" /\ p = Root /\ command'.at <= 5
    BY <1>1, <1>4, <2>1 DEF StillFills
  <2>2. ASSUME command.name = "setup",
               NEW part \in Parts, p = <<part, setups>>, command'.at <= PageAt(part) + 1
        PROVE  StillFills(p)
    <3>1. command.at <= PageAt(part) + 1
      BY <1>1, <1>2, <1>4, <2>2
    <3> QED BY <2>2, <3>1 DEF StillFills
  <2>3. CASE command.name = "rebuild" /\ p = Root /\ command'.at <= 2
    BY <1>1, <1>4, <2>3 DEF StillFills
  <2>4. CASE command.name = "rebuild" /\ p = <<"command", known>> /\ command'.at <= 4
    BY <1>1, <1>4, <2>4 DEF StillFills
  <2> QED BY <1>4, <2>1, <2>2, <2>3, <2>4 DEF StillFills
<1> QED BY <1>3, <1>4

\* append_blocks: the page it is about was due, and is not any more.
LEMMA FillCounts ==
  ASSUME DashInv, DashCounted, Fill
  PROVE  LaidOutOnceEach'
<1>0. PICK on, p : on = Current.on /\ p = Page(on)
  OBVIOUS
<1>1. /\ content' = [content EXCEPT ![p] = content[p] + 1]
      /\ known' = known /\ setups' = setups /\ rebuilds' = rebuilds
      /\ command' = Onwards \/ command' = NotRunning
  BY <1>0 DEF Fill
<1>2. \/ /\ command.name = "setup" /\ command.at \in 1..22
         /\ (on = "root" /\ command.at = 5) \/ (on \in Parts /\ PageAt(on) + 1 = command.at)
      \/ /\ command.name = "rebuild" /\ command.at \in 1..5
         /\ (command.at = 2 /\ on = "root") \/ (command.at = 4 /\ on = "command")
  <2>1. /\ Current.do = "fill"
        /\ \/ command.name = "setup" /\ command.at \in 1..22 /\ Current = SetupSteps[command.at]
           \/ command.name = "rebuild" /\ command.at \in 1..5 /\ Current = RebuildSteps[command.at]
    BY CurrentIs DEF Fill
  <2> QED BY <1>0, <2>1, SetupStepIs, RebuildStepIs
<1>3. /\ p = IF on = "root" THEN Root ELSE <<on, IF command.name = "setup" THEN setups ELSE known>>
      /\ \A part \in Parts, k \in Setups : <<part, k>> \in Pages /\ <<part, k>> # Root
      /\ Root \in Pages /\ setups \in Setups /\ known \in Setups
  BY <1>0, <1>2, PageIs DEF Page
<1>4. p \in Pages
  BY <1>2, <1>3, PartsAre
<1>5. command' = NotRunning \/ (command'.name = command.name /\ command'.at = command.at + 1)
  BY <1>1, <1>2, OnwardsIs
<1>6. \A part \in Parts : PageAt(part) \in Nat
  BY PlacedAre
<1>7. StillFills(p)
  <2>1. CASE command.name = "setup" /\ on = "root" /\ command.at = 5
    BY <1>3, <2>1 DEF StillFills
  <2>2. CASE command.name = "setup" /\ on \in Parts /\ PageAt(on) + 1 = command.at
    <3>1. p = <<on, setups>>
      BY <1>3, <2>2, PartsAre
    <3> QED BY <1>2, <2>2, <3>1 DEF StillFills
  <2>3. CASE command.name = "rebuild"
    BY <1>2, <1>3, <2>3 DEF StillFills
  <2> QED BY <1>2, <2>1, <2>2, <2>3
<1>8. ~StillFills(p)'
  <2> SUFFICES ASSUME command' # NotRunning, StillFills(p)' PROVE FALSE
    BY <1>5, NotRunningIs DEF StillFills
  <2>1. command'.name = command.name /\ command'.at = command.at + 1
    BY <1>5
  <2>2. CASE command.name = "setup" /\ on = "root" /\ command.at = 5
    <3>1. p = Root /\ \A part \in Parts : p # <<part, setups>>
      BY <1>3, <2>2
    <3> QED BY <1>1, <2>1, <2>2, <3>1 DEF StillFills
  <2>3. CASE command.name = "setup" /\ on \in Parts /\ PageAt(on) + 1 = command.at
    <3>1. p = <<on, setups>> /\ p # Root
      BY <1>3, <2>3, PartsAre
    <3>2. ASSUME NEW part \in Parts, p = <<part, setups>> PROVE part = on
      BY <3>1, <3>2
    <3>3. PageAt(on) \in Nat
      BY <1>6, <2>3
    <3>4. PICK part \in Parts : p = <<part, setups>> /\ command'.at <= PageAt(part) + 1
      BY <1>1, <2>1, <2>3, <3>1 DEF StillFills
    <3>5. part = on
      BY <3>2, <3>4
    <3> QED BY <2>1, <2>3, <3>3, <3>4, <3>5
  <2>4. CASE command.name = "rebuild" /\ on = "root" /\ command.at = 2
    <3>1. p = Root /\ <<"command", known>> # Root
      BY <1>3, <2>4, PartsAre
    <3> QED BY <1>1, <2>1, <2>4, <3>1 DEF StillFills
  <2>5. CASE command.name = "rebuild" /\ on = "command" /\ command.at = 4
    <3>1. p = <<"command", known>> /\ <<"command", known>> # Root
      BY <1>3, <2>5, PartsAre
    <3> QED BY <1>1, <2>1, <2>5, <3>1 DEF StillFills
  <2> QED BY <1>2, <2>2, <2>3, <2>4, <2>5
<1>9. \A r \in Pages : StillFills(r)' => StillFills(r)
  <2>1. command.at \in Nat
    BY <1>2
  <2>2. command'.name = command.name /\ command'.at = command.at + 1 => command'.at \in Nat /\ command'.at >= command.at
    BY <2>1
  <2> QED BY <1>1, <1>5, <2>2, FillsNoMore
<1>10. content[p] \in Nat
  BY <1>4 DEF DashInv, DashTyped
<1>11. /\ content'[p] = content[p] + 1
       /\ \A r \in Pages : r # p => content'[r] = content[r]
  <2>1. content[p] + 1 \in Nat
    BY <1>10
  <2> QED BY <1>1, <1>4, <2>1, ContentMoves
<1>12. setups \in Nat /\ rebuilds \in Nat
  BY DashboardAssumption DEF DashInv, DashTyped, Setups, DashCounted, DashboardAssumption
<1>13. ASSUME NEW r \in Pages
       PROVE  content'[r] + (IF StillFills(r)' THEN 1 ELSE 0) <= setups + rebuilds
  <2>1. content[r] + (IF StillFills(r) THEN 1 ELSE 0) <= setups + rebuilds /\ content[r] \in Nat
    BY DEF DashCounted, LaidOutOnceEach, DashInv, DashTyped
  <2>2. CASE r = p
    BY <1>7, <1>8, <1>11, <1>12, <2>1, <2>2
  <2>3. CASE r # p
    BY <1>9, <1>11, <1>12, <2>1, <2>3
  <2> QED BY <2>2, <2>3
<1> QED BY <1>1, <1>13 DEF LaidOutOnceEach

\* setup_dashboard and rebuild_dashboard: one command more, which lays out each page once.
LEMMA BegunCounts ==
  ASSUME DashInv, DashCounted, Setup \/ Rebuild
  PROVE  DashCounted'
<1>1. /\ command = NotRunning /\ sections' = sections /\ made' = made /\ content' = content
      /\ \/ setups < MaxSetups /\ setups' = setups + 1 /\ rebuilds' = rebuilds
         \/ rebuilds < MaxRebuilds /\ rebuilds' = rebuilds + 1 /\ setups' = setups
  BY DEF Setup, Rebuild
<1>2. setups \in Nat /\ rebuilds \in Nat
  BY DashboardAssumption DEF DashInv, DashTyped, Setups, DashCounted, DashboardAssumption
<1>3. setups' + rebuilds' = setups + rebuilds + 1
  BY <1>1, <1>2
<1>4. ASSUME NEW p \in Pages
      PROVE  content'[p] + (IF StillFills(p)' THEN 1 ELSE 0) <= setups' + rebuilds'
  <2>1. content[p] + (IF StillFills(p) THEN 1 ELSE 0) <= setups + rebuilds /\ content[p] \in Nat
    BY DEF DashCounted, LaidOutOnceEach, DashInv, DashTyped
  <2>2. ~StillFills(p)
    BY <1>1, NotRunningIs DEF StillFills
  <2> QED BY <1>1, <1>2, <1>3, <2>1, <2>2
<1>5. rebuilds' \in 0..MaxRebuilds /\ (setups' = 0 => setups = 0)
  BY <1>1, <1>2, DashboardAssumption DEF DashCounted, DashboardAssumption
<1> QED BY <1>1, <1>4, <1>5 DEF DashCounted, LaidOutOnceEach

\* The other steps lay nothing out.
LEMMA DashCountedStep ==
  ASSUME DashInv, DashCounted, [DashboardNext]_dashboardVars
  PROVE  DashCounted'
<1>1. CASE UNCHANGED dashboardVars
  BY <1>1 DEF dashboardVars, DashCounted, LaidOutOnceEach, StillFills
<1>2. CASE Setup \/ Rebuild
  BY <1>2, BegunCounts
<1>3. CASE Fill
  <2>1. LaidOutOnceEach'
    BY <1>3, FillCounts
  <2> QED BY <1>3, <2>1 DEF Fill, DashCounted
<1>4. command.at \in Nat /\ \A p \in Pages : content[p] \in Nat
  BY DEF DashInv, DashTyped, DashCommands
<1>5. ASSUME setups' = setups, rebuilds' = rebuilds, content' = content,
             command.name = "setup" \/ known' = known,
             command' = NotRunning \/ (command'.name = command.name /\ command'.at \in Nat /\ command'.at >= command.at)
      PROVE  LaidOutOnceEach'
  <2>1. \A p \in Pages : StillFills(p)' => StillFills(p)
    BY <1>5, FillsNoMore
  <2>2. \A p \in Pages : content'[p] \in Nat /\ content'[p] <= content[p]
    BY <1>4, <1>5
  <2> QED BY <1>5, <2>1, <2>2, LaidOutStays
<1>6. ASSUME command.at \in 1..22
      PROVE  Onwards.name = command.name /\ Onwards.at \in Nat /\ Onwards.at >= command.at
  BY <1>6, OnwardsIs
<1>7. CASE ReadSections
  <2>1. command.name = "setup" /\ command.at \in 1..22
    BY <1>7, SetupStepIn DEF ReadSections
  <2>2. command'.name = command.name /\ command'.at = Onwards.at
    <3>1. Onwards \in DashCommands
      BY <2>1, OnwardsIs
    <3> QED BY <1>6, <1>7, <2>1, <3>1 DEF ReadSections, DashCommands
  <2>3. LaidOutOnceEach'
    BY <1>5, <1>6, <1>7, <2>1, <2>2 DEF ReadSections
  <2> QED BY <1>7, <2>3 DEF ReadSections, DashCounted
<1>8. CASE CreateSection
  <2>1. command.name = "setup" /\ command.at \in 1..22
    BY <1>8, SetupStepIn DEF CreateSection
  <2>2. LaidOutOnceEach'
    BY <1>5, <1>6, <1>8, <2>1 DEF CreateSection
  <2>3. setups # 0
    BY <2>1, DashboardAssumption DEF DashInv, AtIsThere, DashTyped, Setups, DashboardAssumption
  <2> QED BY <1>8, <2>2, <2>3 DEF CreateSection, DashCounted
<1>9. CASE CreatePart
  <2>1. PICK do \in {"page", "database"} : Next_(do)
    BY <1>9 DEF CreatePart
  <2>2. command.name = "setup" /\ command.at \in 1..22 /\ Current = SetupSteps[command.at] /\ Current.do = do
    BY <2>1, SetupStepIn
  <2>3. Current.on \in Parts
    BY <2>1, <2>2, SetupStepIs
  <2>4. setups \in Setups
    BY DEF DashInv, DashTyped
  <2>5. made' \subseteq {"page", "database"} \X Parts \X Setups
    BY <1>9, <2>1, <2>2, <2>3, <2>4 DEF CreatePart, DashCounted
  <2>6. LaidOutOnceEach'
    BY <1>5, <1>6, <1>9, <2>2 DEF CreatePart
  <2> QED BY <1>9, <2>5, <2>6 DEF CreatePart, DashCounted
<1>10. CASE Archive
  <2>1. command.name = "rebuild" /\ command.at \in 1..5
    <3>1. Next_("archive")
      BY <1>10 DEF Archive
    <3> QED BY <3>1, CurrentIs, SetupStepIs
  <2>2. command'.name = command.name /\ command'.at = Onwards.at
    <3>1. Onwards \in DashCommands /\ Onwards.name = command.name
      BY <2>1, OnwardsIs
    <3> QED BY <1>10, <3>1 DEF Archive, DashCommands
  <2>3. command.at \in 1..22
    BY <2>1
  <2>4. \A p \in Pages : StillFills(p)' => StillFills(p)
    BY <1>6, <1>10, <2>2, <2>3, FillsNoMore DEF Archive
  <2>5. \A p \in Pages : content'[p] \in Nat /\ content'[p] <= content[p]
    <3>1. content \in [Pages -> Nat]
      BY DEF DashInv, DashTyped
    <3>2. PICK q : content' = [content EXCEPT ![q] = 0] \/ content' = content
      BY <1>10 DEF Archive
    <3> QED BY <3>1, <3>2
  <2>6. LaidOutOnceEach'
    BY <1>10, <2>4, <2>5, LaidOutStays DEF Archive
  <2> QED BY <1>10, <2>6 DEF Archive, DashCounted
<1>11. CASE Stamp
  <2>1. command.at \in 1..22
    <3>1. Next_("stamp")
      BY <1>11 DEF Stamp
    <3> QED BY <3>1, CurrentIs
  <2>2. LaidOutOnceEach'
    BY <1>5, <1>6, <1>11, <2>1 DEF Stamp
  <2> QED BY <1>11, <2>2 DEF Stamp, DashCounted
<1>12. CASE PrintIds
  <2>1. command.name = "setup" /\ command.at \in 1..22
    BY <1>12, SetupStepIn DEF PrintIds
  <2>2. LaidOutOnceEach'
    BY <1>5, <1>6, <1>12, <2>1 DEF PrintIds
  <2> QED BY <1>12, <2>2 DEF PrintIds, DashCounted
<1>13. CASE EndCommand
  <2>1. LaidOutOnceEach'
    BY <1>5, <1>13 DEF EndCommand
  <2> QED BY <1>13, <2>1 DEF EndCommand, DashCounted
<1> QED BY <1>1, <1>2, <1>3, <1>7, <1>8, <1>9, <1>10, <1>11, <1>12, <1>13 DEF DashboardNext

\* cmd_notion_setup and rebuild_dashboard: no page is laid out more often than the
\* commands were run, and what there is was made by one of them.
THEOREM DashboardTypeCorrect == DashboardSpec => []DashboardTypeOK
<1>1. DashboardInit => DashInv /\ DashCounted
  <2> SUFFICES ASSUME DashboardInit PROVE DashCounted
    BY DashInvInit
  <2>1. \A p \in Pages : content[p] = 0 /\ ~StillFills(p)
    BY NotRunningIs DEF DashboardInit, StillFills
  <2>2. setups = 0 /\ rebuilds = 0
    BY DEF DashboardInit
  <2>3. LaidOutOnceEach
    BY <2>1, <2>2 DEF LaidOutOnceEach
  <2> QED BY <2>2, <2>3, DashboardAssumption DEF DashboardInit, DashCounted, DashboardAssumption
<1>2. DashInv /\ DashCounted /\ [DashboardNext]_dashboardVars => (DashInv /\ DashCounted)'
  BY DashInvStep, DashCountedStep
<1>3. DashInv /\ DashCounted => DashboardTypeOK
  <2> SUFFICES ASSUME DashInv, DashCounted PROVE DashboardTypeOK
    OBVIOUS
  <2>1. setups \in 0..MaxSetups /\ rebuilds \in 0..MaxRebuilds /\ MaxSetups \in Nat /\ MaxRebuilds \in Nat
    BY DashboardAssumption DEF DashInv, DashTyped, Setups, DashCounted, DashboardAssumption
  <2>2. sections \in [Planners -> 0..MaxSetups]
    <3>1. sections \in [Planners -> 0..1] /\ (setups = 0 => \A p \in Planners : sections[p] = 0)
      BY DEF DashInv, DashTyped, DashCounted
    <3>2. \A p \in Planners : sections[p] \in 0..MaxSetups
      BY <2>1, <3>1
    <3> QED BY <3>1, <3>2
  <2>3. ASSUME NEW p \in Pages PROVE content[p] \in 0..MaxSetups + MaxRebuilds
    <3>1. content[p] + (IF StillFills(p) THEN 1 ELSE 0) <= setups + rebuilds /\ content[p] \in Nat
      BY DEF DashCounted, LaidOutOnceEach, DashInv, DashTyped
    <3> QED BY <2>1, <3>1
  <2>4. content \in [Pages -> 0..MaxSetups + MaxRebuilds]
    BY <2>3 DEF DashInv, DashTyped
  <2>5. known \in Setups
    BY <2>1 DEF DashInv, DashTyped, Setups
  <2> QED BY <2>2, <2>4, <2>5 DEF DashboardTypeOK, DashCounted
<1> QED BY <1>1, <1>2, <1>3, PTL DEF DashboardSpec

\* A command lists tasks that are due some day.
ListsTheDue == ToSet(brief.listed) \subseteq BriefTasks \X DueDays

LEMMA ListsTheDueStep ==
  ASSUME BriefingAssumption, BriefInv, ListsTheDue, [BriefingNext]_briefVars
  PROVE  ListsTheDue'
<1>1. brief \in Briefs /\ due \in [BriefTasks -> Days] /\ ListedOnce
  BY DEF BriefInv, BriefTyped
<1>2. ASSUME brief'.listed = brief.listed PROVE ListsTheDue'
  BY <1>2 DEF ListsTheDue
<1>3. ASSUME brief'.listed = <<>> PROVE ListsTheDue'
  BY <1>3 DEF ListsTheDue, ToSet
<1>4. CASE UNCHANGED briefVars
  BY <1>2, <1>4 DEF briefVars
<1>5. ASSUME NEW name \in Commands, NEW print \in BOOLEAN, NEW llm \in BOOLEAN, RunCommand(name, print, llm)
      PROVE  ListsTheDue'
  <2>1. brief'.listed = <<>>
    BY <1>5 DEF RunCommand, Becomes, NoCommand
  <2> QED BY <1>3, <2>1
<1>6. ASSUME NEW code PROVE Ends(code).listed = brief.listed
  BY <1>1 DEF Ends, Briefs
<1>7. CASE FetchList
  <2> DEFINE query == Head(brief.queries)
             rest == Tail(brief.queries)
             next == [brief EXCEPT !.queries = rest, !.phase = IF rest = <<>> THEN "built" ELSE "fetch"]
  <2>1. \/ \E got \in Answers(query, Fitting(query)) : brief' = [next EXCEPT !.listed = Merged(@, WithDays(got))]
        \/ brief' = [next EXCEPT !.complete = FALSE]
        \/ brief' = Ends(1)
    BY <1>7 DEF FetchList, Becomes, Fitting, WithDays
  <2> HIDE DEF rest
  <2>2. /\ next.listed = brief.listed /\ [next EXCEPT !.complete = FALSE].listed = brief.listed
        /\ \A answer : [next EXCEPT !.listed = Merged(@, answer)].listed = Merged(brief.listed, answer)
    BY <1>1 DEF Briefs
  <2> HIDE DEF next
  <2>3. ASSUME NEW got \in Answers(query, Fitting(query)), brief' = [next EXCEPT !.listed = Merged(@, WithDays(got))]
        PROVE  ListsTheDue'
    <3> DEFINE answer == WithDays(got)
    <3>1. /\ answer \in SUBSET Entries /\ IsFiniteSet(answer) /\ \A a, c \in answer : a[1] = c[1] => a = c
          /\ \A a \in answer : a \in BriefTasks \X DueDays
      <4> HIDE DEF query
      <4> QED BY <1>1, AnswerIs
    <3>2. brief'.listed = Merged(brief.listed, answer)
      BY <2>2, <2>3
    <3> HIDE DEF answer
    <3>3. PICK earlier : earlier = brief.listed
      OBVIOUS
    <3>4. earlier \in Seq(Entries) /\ \A i, j \in DOMAIN earlier : earlier[i][1] = earlier[j][1] => i = j
      BY <1>1, <3>3 DEF Briefs, ListedOnce
    <3>5. ToSet(Merged(earlier, answer)) \subseteq ToSet(earlier) \cup answer
      BY <3>1, <3>4, MergedIs
    <3> QED BY <3>1, <3>2, <3>3, <3>5 DEF ListsTheDue
  <2> QED BY <1>2, <1>6, <2>1, <2>2, <2>3
<1>8. CASE BuildText
  <2>1. \/ brief' = Ends(0)
        \/ \E chain : brief' = [brief EXCEPT !.phase = "ask", !.chain = chain]
    BY <1>8 DEF BuildText, Becomes
  <2>2. brief'.listed = brief.listed
    BY <1>1, <1>6, <2>1 DEF Briefs
  <2> QED BY <1>2, <2>2
<1>9. CASE AskProvider
  <2>1. \E asked, chain, text :
          \/ brief' = [brief EXCEPT !.asked = asked, !.chain = chain]
          \/ brief' = [brief EXCEPT !.asked = asked, !.chain = chain, !.text = text]
    BY <1>9 DEF AskProvider, Becomes
  <2>2. brief'.listed = brief.listed
    BY <1>1, <2>1 DEF Briefs
  <2> QED BY <1>2, <2>2
<1>10. CASE Deliver
  <2>1. \/ brief' = Ends(0)
        \/ \E code, sent : brief' = [Ends(code) EXCEPT !.mailed = sent]
    BY <1>10 DEF Deliver, Becomes
  <2>2. brief'.listed = brief.listed
    BY <1>1, <1>6, <2>1 DEF Briefs, Ends
  <2> QED BY <1>2, <2>2
<1>11. CASE NextRun
  <2>1. brief'.listed = <<>>
    BY <1>11 DEF NextRun, Becomes, NoCommand
  <2> QED BY <1>3, <2>1
<1>12. ASSUME NEW t \in BriefTasks, NEW d \in DueDays \cup {Completed}, Reschedule(t, d) PROVE ListsTheDue'
  BY <1>2, <1>12 DEF Reschedule
<1> QED BY <1>4, <1>5, <1>7, <1>8, <1>9, <1>10, <1>11, <1>12 DEF BriefingNext

\* cli.py: tasks and their days, the command and its exit code, and what it listed:
\* never a task that was completed.
THEOREM BriefTypeCorrect == BriefingSpec => []BriefTypeOK
<1>1. BriefingInit => BriefInv /\ ListsTheDue
  <2>1. BriefingInit => ListsTheDue
    BY DEF BriefingInit, ListsTheDue, NoCommand, ToSet
  <2> QED BY <2>1, BriefInvInit, BriefingAssumption
<1>2. BriefInv /\ ListsTheDue /\ [BriefingNext]_briefVars => (BriefInv /\ ListsTheDue)'
  BY BriefInvStep, ListsTheDueStep, BriefingAssumption
<1>3. BriefInv /\ ListsTheDue => BriefTypeOK
  BY DEF BriefInv, BriefTyped, ListsTheDue, BriefTypeOK, Days, Briefs
<1> QED BY <1>1, <1>2, <1>3, PTL DEF BriefingSpec

\* A task or an item there is has a section or a database, and a text of the user's;
\* a sync writes tasks that were there, and goes through items that are.
RealTasks == {NoTask} \cup [section : {"planner", "other"}, text : Texts, extra : SomeExtra]
RealPages == {NoPage} \cup [db : Databases, tid : TodoIds \cup {NoId}, text : Texts, extra : SomeExtra, done : BOOLEAN]
GoesThrough(r) ==
  /\ r.tasks \in [TodoIds -> RealTasks]
  /\ r.phase \in {"write planner", "write board"} => \A t \in r.left : r.tasks[t] # NoTask
  /\ r.phase \in {"create", "link"} => \A p \in r.left : page[p] # NoPage
  /\ \A p \in r.stale : page[p] # NoPage
NotionReal ==
  /\ todoist \in [TodoIds -> RealTasks]
  /\ page \in [PageIds -> RealPages]
  /\ \A s \in Syncers : GoesThrough(syncer[s])

\* Items stay, so a sync that has not moved goes through items that are there.
LEMMA GoesOnThrough ==
  ASSUME NEW r \in Syncs, LeftAt(r), GoesThrough(r),
         \A p \in PageIds : page'[p] = NoPage => page[p] = NoPage
  PROVE  GoesThrough(r)'
<1>1. r.stale \in SUBSET PageIds
  BY DEF Syncs
<1>2. r.phase \in {"create", "link"} => r.left \subseteq PageIds
  BY DEF LeftAt
<1> QED BY <1>1, <1>2 DEF GoesThrough

\* One sync moves, the items stay.
LEMMA RealMoves ==
  ASSUME NotionInv, NotionReal, NEW s \in Syncers, NEW v,
         syncer' = [syncer EXCEPT ![s] = v], GoesThrough(v)',
         todoist' \in [TodoIds -> RealTasks], page' \in [PageIds -> RealPages],
         \A p \in PageIds : page'[p] = NoPage => page[p] = NoPage
  PROVE  NotionReal'
<1>1. ASSUME NEW q \in Syncers PROVE GoesThrough(syncer[q])'
  <2>1. CASE q = s
    <3>1. syncer'[q] = v
      BY <2>1 DEF NotionInv, NotionShapes
    <3> QED BY <3>1 DEF GoesThrough
  <2>2. CASE q # s
    <3>1. PICK r : r = syncer[q] /\ r = syncer'[q]
      BY <2>2 DEF NotionInv, NotionShapes
    <3>2. r \in Syncs /\ LeftAt(r) /\ GoesThrough(r)
      BY <3>1 DEF NotionInv, NotionShapes, NotionReal
    <3>3. GoesThrough(r)'
      BY <3>2, GoesOnThrough
    <3> QED BY <3>1, <3>3 DEF GoesThrough
  <2> QED BY <2>1, <2>2
<1> QED BY <1>1 DEF NotionReal

\* The servers stay as they are.
LEMMA RealOnlyMoves ==
  ASSUME NotionInv, NotionReal, NEW s \in Syncers, NEW v,
         syncer' = [syncer EXCEPT ![s] = v], GoesThrough(v), UNCHANGED <<todoist, page>>
  PROVE  NotionReal'
<1>1. GoesThrough(v)'
  BY DEF GoesThrough
<1>2. todoist' \in [TodoIds -> RealTasks] /\ page' \in [PageIds -> RealPages]
  BY DEF NotionReal
<1> QED BY <1>1, <1>2, RealMoves

\* A request to Notion writes one item there is, or not.
LEMMA RealAsk ==
  ASSUME NotionInv, NotionReal, NEW s \in Syncers, NEW p \in PageIds, NEW item \in RealPages, item # NoPage,
         NEW after \in Syncs, LeftAt(after), GoesThrough(after), Ask(s, [page EXCEPT ![p] = item], after),
         todoist' = todoist
  PROVE  NotionReal'
<1>1. page \in [PageIds -> RealPages] /\ todoist \in [TodoIds -> RealTasks]
  BY DEF NotionReal
<1>2. PICK v \in Syncs :
           /\ syncer' = [syncer EXCEPT ![s] = v] /\ page' \in {[page EXCEPT ![p] = item], page}
           /\ v.phase = after.phase /\ v.tasks = after.tasks /\ v.found = after.found /\ v.left = after.left
           /\ v.stale = after.stale /\ v.pushed = after.pushed
  BY AskMeans
<1>3. /\ page' \in [PageIds -> RealPages]
      /\ \A q \in PageIds : page'[q] = NoPage => page[q] = NoPage
  BY <1>1, <1>2
<1>4. GoesThrough(v) /\ LeftAt(v)
  BY <1>2 DEF GoesThrough, LeftAt
<1>5. GoesThrough(v)'
  BY <1>3, <1>4, GoesOnThrough
<1> QED BY <1>1, <1>2, <1>3, <1>5, RealMoves

\* What a sync at work is like.
LEMMA RealSync ==
  ASSUME NotionInv, NotionReal, NEW s \in Syncers
  PROVE  syncer[s] \in Syncs /\ LeftAt(syncer[s]) /\ GoesThrough(syncer[s])
BY DEF NotionInv, NotionShapes, NotionReal

\* Reading, planning and stopping write nothing to the servers.
LEMMA RealReads ==
  ASSUME NotionInv, NotionReal, NEW s \in Syncers,
         \/ StartSync(s) \/ FetchTasks(s) \/ QueryDatabase(s) \/ DatabaseDone(s) \/ FindNotionOnly(s)
         \/ FinishSync(s) \/ ReadFails(s) \/ SyncerDies(s)
  PROVE  NotionReal'
<1>1. PICK r \in Syncs : r = syncer[s] /\ LeftAt(r) /\ GoesThrough(r)
  BY RealSync
<1>2. AtRest.tasks \in [TodoIds -> RealTasks] /\ AtRest.phase = "idle" /\ AtRest.stale = {} /\ AtRest \in Syncs
  BY RestIsSync DEF AtRest, RealTasks
<1>3. todoist \in [TodoIds -> RealTasks] /\ page \in [PageIds -> RealPages]
  BY DEF NotionReal
<1>4. CASE StartSync(s)
  <2>1. PICK v : v = [AtRest EXCEPT !.phase = "planner"]
    OBVIOUS
  <2>2. GoesThrough(v)
    BY <1>2, <2>1 DEF GoesThrough, AtRest
  <2> QED BY <1>4, <2>1, <2>2, RealOnlyMoves DEF StartSync, Set, servers
<1>5. CASE FinishSync(s) \/ SyncerDies(s)
  <2>1. GoesThrough(AtRest)
    BY <1>2 DEF GoesThrough
  <2> QED BY <1>5, <2>1, RealOnlyMoves DEF FinishSync, SyncerDies, Set, servers
<1>6. CASE FetchTasks(s)
  <2>1. PICK phase, tasks : /\ phase \in {"query planner", "query board"} /\ tasks \in [TodoIds -> RealTasks]
                            /\ syncer' = [syncer EXCEPT ![s] = [r EXCEPT !.phase = phase, !.tasks = tasks]]
    <3> DEFINE wanted == {t \in TodoIds : todoist[t] # NoTask /\ (r.phase = "planner" => todoist[t].section = "planner")}
               tasks == [t \in TodoIds |-> IF t \in wanted THEN todoist[t] ELSE NoTask]
               phase == IF r.phase = "planner" THEN "query planner" ELSE "query board"
    <3>1. syncer' = [syncer EXCEPT ![s] = [r EXCEPT !.phase = phase, !.tasks = tasks]]
      BY <1>1, <1>6 DEF FetchTasks, Set
    <3>2. NoTask \in RealTasks
      BY DEF RealTasks
    <3>3. tasks \in [TodoIds -> RealTasks]
      BY <1>3, <3>2
    <3> HIDE DEF tasks
    <3> QED BY <3>1, <3>3
  <2>2. PICK v : v = [r EXCEPT !.phase = phase, !.tasks = tasks]
    OBVIOUS
  <2>3. v.phase = phase /\ v.tasks = tasks /\ v.stale = r.stale
    BY <2>2 DEF Syncs
  <2>4. GoesThrough(v)
    BY <1>1, <2>1, <2>3 DEF GoesThrough
  <2> QED BY <1>6, <2>1, <2>2, <2>4, RealOnlyMoves DEF FetchTasks, servers
<1>7. CASE QueryDatabase(s)
  <2>1. PICK db, got : db = (IF r.phase = "query planner" THEN "planner" ELSE "board") /\ got = Fetched(s)
    OBVIOUS
  <2>2. PICK ph, fd, st :
          /\ ph = (IF db = "planner" THEN "write planner" ELSE "write board")
          /\ fd = Existing(db) /\ st = Stale(db, got)
    OBVIOUS
  <2>3. \/ syncer' = [syncer EXCEPT ![s] = [r EXCEPT !.phase = "board"]]
        \/ syncer' = [syncer EXCEPT ![s] = [r EXCEPT !.phase = ph, !.found = fd, !.left = got, !.stale = st]]
    BY <1>1, <1>7, <2>1, <2>2 DEF QueryDatabase, Set
  <2>4. \A t \in got : r.tasks[t] # NoTask
    BY <1>1, <2>1 DEF Fetched
  <2>5. \A p \in st : page[p] # NoPage
    <3>1. \A e \in Existing(db) : page[e[2]].tid # NoId
      BY DEF Existing
    <3>2. NoPage.tid = NoId
      BY DEF NoPage
    <3> QED BY <2>2, <3>1, <3>2 DEF Stale
  <2>6. CASE syncer' = [syncer EXCEPT ![s] = [r EXCEPT !.phase = "board"]]
    <3>1. PICK v : v = [r EXCEPT !.phase = "board"]
      OBVIOUS
    <3>2. v.phase = "board" /\ v.tasks = r.tasks /\ v.stale = r.stale
      BY <3>1 DEF Syncs
    <3>3. GoesThrough(v)
      BY <1>1, <3>2 DEF GoesThrough
    <3> QED BY <1>7, <2>6, <3>1, <3>3, RealOnlyMoves DEF QueryDatabase, servers
  <2>7. CASE syncer' = [syncer EXCEPT ![s] = [r EXCEPT !.phase = ph, !.found = fd, !.left = got, !.stale = st]]
    <3>1. PICK v : v = [r EXCEPT !.phase = ph, !.found = fd, !.left = got, !.stale = st]
      OBVIOUS
    <3>2. v.phase = ph /\ v.tasks = r.tasks /\ v.left = got /\ v.stale = st
      BY <3>1 DEF Syncs
    <3>3. ph \in {"write planner", "write board"}
      BY <2>2
    <3>4. GoesThrough(v)
      BY <1>1, <2>4, <2>5, <3>2, <3>3 DEF GoesThrough
    <3> QED BY <1>7, <2>7, <3>1, <3>4, RealOnlyMoves DEF QueryDatabase, servers
  <2> QED BY <2>3, <2>6, <2>7
<1>8. CASE DatabaseDone(s)
  <2>1. PICK ph : ph \in {"board", "push"} /\ syncer' = [syncer EXCEPT ![s] = [r EXCEPT !.phase = ph]]
    BY <1>1, <1>8 DEF DatabaseDone, Set
  <2>2. PICK v : v = [r EXCEPT !.phase = ph]
    OBVIOUS
  <2>3. v.phase = ph /\ v.tasks = r.tasks /\ v.stale = r.stale
    BY <2>2 DEF Syncs
  <2>4. GoesThrough(v)
    BY <1>1, <2>1, <2>3 DEF GoesThrough
  <2> QED BY <1>8, <2>1, <2>2, <2>4, RealOnlyMoves DEF DatabaseDone, servers
<1>9. CASE FindNotionOnly(s)
  <2>1. PICK items : items = {p \in Items("planner") : page[p].tid = NoId}
    OBVIOUS
  <2>2. \A p \in items : page[p] # NoPage
    BY <2>1 DEF Items, NoPage, Nowhere
  <2>3. PICK v : v = [r EXCEPT !.phase = "create", !.left = items]
    OBVIOUS
  <2>4. v.phase = "create" /\ v.tasks = r.tasks /\ v.stale = r.stale /\ v.left = items
    BY <2>3 DEF Syncs
  <2>5. GoesThrough(v)
    BY <1>1, <2>2, <2>4 DEF GoesThrough
  <2>6. syncer' = [syncer EXCEPT ![s] = v] /\ UNCHANGED <<todoist, page>>
    BY <1>1, <1>9, <2>1, <2>3 DEF FindNotionOnly, Set, servers
  <2> QED BY <2>5, <2>6, RealOnlyMoves
<1>10. CASE ReadFails(s)
  <2>1. PICK ph : syncer' = [syncer EXCEPT ![s] = [r EXCEPT !.clean = FALSE, !.left = {}, !.phase = ph]]
    BY <1>1, <1>10 DEF ReadFails, Set
  <2>2. PICK v : v = [r EXCEPT !.clean = FALSE, !.left = {}, !.phase = ph]
    OBVIOUS
  <2>3. v.left = {} /\ v.tasks = r.tasks /\ v.stale = r.stale
    BY <2>2 DEF Syncs
  <2>4. GoesThrough(v)
    BY <1>1, <2>3 DEF GoesThrough
  <2> QED BY <1>10, <2>1, <2>2, <2>4, RealOnlyMoves DEF ReadFails, servers
<1> QED BY <1>4, <1>5, <1>6, <1>7, <1>8, <1>9, <1>10

\* Writing puts a fetched task, marks an item that is there, or gives it an id.
LEMMA RealWrites ==
  ASSUME NotionInv, NotionReal, NEW s \in Syncers, WriteTask(s) \/ MarkStale(s) \/ LinkPage(s)
  PROVE  NotionReal'
<1>1. PICK r \in Syncs : r = syncer[s] /\ LeftAt(r) /\ GoesThrough(r)
  BY RealSync
<1>2. page \in [PageIds -> RealPages]
  BY DEF NotionReal
<1>3. NoPage.db = Nowhere /\ NoTask.section = Nowhere /\ Nowhere \notin Databases
  BY DEF NoPage, NoTask, Nowhere, Databases
<1>4. \A x \in RealPages :
        x # NoPage => x \in [db : Databases, tid : TodoIds \cup {NoId}, text : Texts, extra : SomeExtra, done : BOOLEAN]
  BY DEF RealPages
<1>5. \A x \in [db : Databases, tid : TodoIds \cup {NoId}, text : Texts, extra : SomeExtra, done : BOOLEAN] :
        x \in RealPages /\ x # NoPage
  BY <1>3 DEF RealPages
<1>6. CASE WriteTask(s)
  <2>1. PICK db, t : db = (IF r.phase = "write planner" THEN "planner" ELSE "board") /\ t = CHOOSE x \in r.left : TRUE
    OBVIOUS
  <2>2. PICK own : own = {e[2] : e \in {x \in r.found : x[1] = t}}
    OBVIOUS
  <2>3. /\ r.phase \in {"write planner", "write board"} /\ r.left # {} /\ todoist' = todoist
        /\ \E p \in IF own # {} THEN own ELSE NewPage :
             Ask(s, [page EXCEPT ![p] = Properties(db, t, r.tasks[t], page[p])], [r EXCEPT !.left = r.left \ {t}])
    BY <1>1, <1>6, <2>1, <2>2 DEF WriteTask
  <2>p. PICK p \in (IF own # {} THEN own ELSE NewPage) :
          Ask(s, [page EXCEPT ![p] = Properties(db, t, r.tasks[t], page[p])], [r EXCEPT !.left = r.left \ {t}])
    BY <2>3
  <2>n. PICK new : new = Properties(db, t, r.tasks[t], page[p])
    OBVIOUS
  <2>4. p \in (IF own # {} THEN own ELSE NewPage)
        /\ Ask(s, [page EXCEPT ![p] = new], [r EXCEPT !.left = r.left \ {t}])
    BY <2>p, <2>n
  <2>5. t \in r.left /\ r.left \subseteq TodoIds
    BY <1>1, <2>1, <2>3 DEF LeftAt
  <2>6. p \in PageIds
    <3>1. r.found \in SUBSET (TodoIds \X PageIds)
      BY DEF Syncs
    <3>2. \A e \in r.found : e[2] \in PageIds
      BY <3>1
    <3> QED BY <2>2, <2>4, <3>2 DEF NewPage
  <2>7. r.tasks[t] \in [section : {"planner", "other"}, text : Texts, extra : SomeExtra]
    BY <1>1, <2>3, <2>5 DEF GoesThrough, RealTasks
  <2>8. new \in RealPages /\ new # NoPage
    <3>1. db \in Databases /\ r.tasks[t].text \in Texts /\ r.tasks[t].extra \in SomeExtra
      BY <2>1, <2>7 DEF Databases
    <3>x. page[p].extra \in SomeExtra
      BY <1>2, <2>6 DEF RealPages, NoPage, SomeExtra
    <3>2. new \in [db : Databases, tid : TodoIds \cup {NoId}, text : Texts, extra : SomeExtra, done : BOOLEAN]
      BY <2>n, <2>5, <3>1, <3>x DEF Properties
    <3> QED BY <1>5, <3>2
  <2>9. PICK after : after = [r EXCEPT !.left = r.left \ {t}]
    OBVIOUS
  <2>10. after \in Syncs /\ after.phase = r.phase /\ after.tasks = r.tasks /\ after.left = r.left \ {t}
         /\ after.stale = r.stale /\ after.pushed = r.pushed
    BY <2>9 DEF Syncs
  <2>11. LeftAt(after) /\ GoesThrough(after)
    BY <1>1, <2>3, <2>10 DEF LeftAt, GoesThrough
  <2> QED BY <2>3, <2>4, <2>6, <2>8, <2>9, <2>10, <2>11, RealAsk
<1>7. CASE MarkStale(s)
  <2>1. PICK p : p = CHOOSE x \in r.stale : TRUE
    OBVIOUS
  <2>2. /\ r.phase = "write board" /\ r.stale # {} /\ todoist' = todoist
        /\ Ask(s, [page EXCEPT ![p].done = TRUE], [r EXCEPT !.stale = r.stale \ {p}])
    BY <1>1, <1>7, <2>1 DEF MarkStale, In
  <2>3. p \in r.stale /\ p \in PageIds /\ page[p] # NoPage
    BY <1>1, <2>1, <2>2 DEF Syncs, GoesThrough
  <2>4. PICK new : new = [page[p] EXCEPT !.done = TRUE]
    OBVIOUS
  <2>5. page[p] \in [db : Databases, tid : TodoIds \cup {NoId}, text : Texts, extra : SomeExtra, done : BOOLEAN]
    BY <1>2, <1>4, <2>3
  <2>6. new \in [db : Databases, tid : TodoIds \cup {NoId}, text : Texts, extra : SomeExtra, done : BOOLEAN]
    BY <2>4, <2>5
  <2>7. new \in RealPages /\ new # NoPage
    BY <1>5, <2>6
  <2>8. PICK after : after = [r EXCEPT !.stale = r.stale \ {p}]
    OBVIOUS
  <2>9. after \in Syncs /\ after.phase = r.phase /\ after.tasks = r.tasks /\ after.left = r.left
        /\ after.stale = r.stale \ {p} /\ after.pushed = r.pushed
    BY <2>8 DEF Syncs
  <2>10. LeftAt(after) /\ GoesThrough(after)
    BY <1>1, <2>9 DEF LeftAt, GoesThrough
  <2>11. Ask(s, [page EXCEPT ![p] = new], after)
    BY <2>2, <2>4, <2>8
  <2> QED BY <2>2, <2>3, <2>7, <2>9, <2>10, <2>11, RealAsk
<1>8. CASE LinkPage(s)
  <2>1. PICK p : p = CHOOSE x \in r.left : TRUE
    OBVIOUS
  <2>2. PICK after : after = [r EXCEPT !.phase = "create", !.left = r.left \ {p}, !.pushed = NoId]
    OBVIOUS
  <2>3. r.phase = "link" /\ todoist' = todoist /\ Ask(s, [page EXCEPT ![p].tid = r.pushed], after)
    BY <1>1, <1>8, <2>1, <2>2 DEF LinkPage, In
  <2>4. p \in r.left /\ r.left \subseteq PageIds /\ r.pushed \in TodoIds
    BY <1>1, <2>1, <2>3 DEF LeftAt
  <2>5. page[p] # NoPage
    BY <1>1, <2>3, <2>4 DEF GoesThrough
  <2>6. PICK new : new = [page[p] EXCEPT !.tid = r.pushed]
    OBVIOUS
  <2>7. page[p] \in [db : Databases, tid : TodoIds \cup {NoId}, text : Texts, extra : SomeExtra, done : BOOLEAN]
    BY <1>2, <1>4, <2>4, <2>5
  <2>8. new \in [db : Databases, tid : TodoIds \cup {NoId}, text : Texts, extra : SomeExtra, done : BOOLEAN]
    BY <2>4, <2>6, <2>7
  <2>9. new \in RealPages /\ new # NoPage
    BY <1>5, <2>8
  <2>10. after \in Syncs /\ after.phase = "create" /\ after.tasks = r.tasks /\ after.left = r.left \ {p}
         /\ after.stale = r.stale
    BY <2>2 DEF Syncs, SyncPhases
  <2>11. LeftAt(after) /\ GoesThrough(after)
    BY <1>1, <2>3, <2>4, <2>10 DEF LeftAt, GoesThrough
  <2>12. Ask(s, [page EXCEPT ![p] = new], after)
    BY <2>3, <2>6
  <2> QED BY <2>3, <2>4, <2>9, <2>10, <2>11, <2>12, RealAsk
<1> QED BY <1>6, <1>7, <1>8

\* Creating makes a task of an item that is there.
LEMMA RealCreates ==
  ASSUME NotionInv, NotionReal, NEW s \in Syncers, CreateTask(s)
  PROVE  NotionReal'
<1>1. PICK r \in Syncs : r = syncer[s] /\ LeftAt(r) /\ GoesThrough(r)
  BY RealSync
<1>2. PICK p : p = CHOOSE x \in r.left : TRUE
  OBVIOUS
<1>3. PICK rest : rest = r.left \ {p}
  OBVIOUS
<1>4. /\ r.phase = "create" /\ r.left # {} /\ page' = page
      /\ \/ \E t \in TodoIds :
              /\ todoist' = [todoist EXCEPT ![t] = TaskOf(page[p])]
              /\ \/ syncer' = [syncer EXCEPT ![s] = [r EXCEPT !.phase = "link", !.pushed = t]]
                 \/ syncer' = [syncer EXCEPT ![s] = [r EXCEPT !.left = rest, !.clean = FALSE]]
         \/ syncer' = [syncer EXCEPT ![s] = [r EXCEPT !.left = rest, !.clean = FALSE]] /\ todoist' = todoist
  BY <1>1, <1>2, <1>3 DEF CreateTask, Set, In
<1>5. p \in r.left /\ r.left \subseteq PageIds /\ page[p] # NoPage
  BY <1>1, <1>2, <1>4 DEF LeftAt, GoesThrough
<1>6. page \in [PageIds -> RealPages] /\ todoist \in [TodoIds -> RealTasks]
  BY DEF NotionReal
<1>7. TaskOf(page[p]) \in RealTasks
  <2>1. page[p] \in [db : Databases, tid : TodoIds \cup {NoId}, text : Texts, extra : SomeExtra, done : BOOLEAN]
    BY <1>5, <1>6 DEF RealPages
  <2> QED BY <2>1 DEF TaskOf, TaskIn, RealTasks
<1>8. todoist' \in [TodoIds -> RealTasks]
  BY <1>4, <1>6, <1>7
<1>9. PICK v : /\ syncer' = [syncer EXCEPT ![s] = v]
               /\ \/ \E t : v = [r EXCEPT !.phase = "link", !.pushed = t]
                  \/ v = [r EXCEPT !.left = rest, !.clean = FALSE]
  BY <1>4
<1>10. v.phase \in {"create", "link"} /\ v.tasks = r.tasks /\ v.stale = r.stale /\ v.left \subseteq r.left
  <2>1. CASE v = [r EXCEPT !.left = rest, !.clean = FALSE]
    BY <1>3, <1>4, <2>1 DEF Syncs
  <2>2. ASSUME NEW t, v = [r EXCEPT !.phase = "link", !.pushed = t]
        PROVE  v.phase \in {"create", "link"} /\ v.tasks = r.tasks /\ v.stale = r.stale /\ v.left \subseteq r.left
    BY <2>2 DEF Syncs
  <2> QED BY <1>9, <2>1, <2>2
<1>11. GoesThrough(v)'
  BY <1>1, <1>4, <1>10 DEF GoesThrough
<1> QED BY <1>4, <1>6, <1>8, <1>9, <1>11, RealMoves

\* The user adds tasks and items with texts, and takes no item away.
LEMMA RealUser ==
  ASSUME NotionInv, NotionReal,
         (\E t \in TodoIds : ChangeTask(t)) \/ (\E p \in PageIds, w \in Wordings : ChangeItem(p, w))
  PROVE  NotionReal'
<1>1. page \in [PageIds -> RealPages] /\ todoist \in [TodoIds -> RealTasks]
  BY DEF NotionReal
<1>2. NoPage.db = Nowhere /\ "planner" # Nowhere
  BY DEF NoPage, Nowhere
<1>3. /\ page' \in [PageIds -> RealPages] /\ todoist' \in [TodoIds -> RealTasks]
      /\ \A q \in PageIds : page'[q] = NoPage => page[q] = NoPage
  <2>1. ASSUME NEW t \in TodoIds, ChangeTask(t)
        PROVE  page' = page /\ todoist' \in [TodoIds -> RealTasks]
    <3>1. PICK x \in RealTasks : todoist' = [todoist EXCEPT ![t] = x]
      BY <2>1, TasksInAre DEF ChangeTask, RealTasks
    <3> QED BY <1>1, <2>1, <3>1 DEF ChangeTask
  <2>2. ASSUME NEW p \in PageIds, NEW w \in Wordings, ChangeItem(p, w)
        PROVE  /\ page' \in [PageIds -> RealPages] /\ todoist' = todoist
               /\ \A q \in PageIds : page'[q] = NoPage => page[q] = NoPage
    <3>1. PICK new : new = [page[p] EXCEPT !.db = "planner", !.text = w.text, !.extra = w.extra]
      OBVIOUS
    <3>2. page' = [page EXCEPT ![p] = new] /\ todoist' = todoist
      BY <2>2, <3>1 DEF ChangeItem
    <3>3. page[p] \in NotionPages
      BY DEF NotionInv, NotionShapes
    <3>4. new \in NotionPages /\ new.db = "planner" /\ new.text \in Texts
      BY <3>1, <3>3, TasksInAre DEF NotionPages, Databases
    <3>5. new \in RealPages
      BY <3>4 DEF NotionPages, RealPages, Databases
    <3>6. new # NoPage
      BY <1>2, <3>4
    <3> QED BY <1>1, <3>2, <3>5, <3>6
  <2> QED BY <1>1, <2>1, <2>2
<1>4. ASSUME NEW s \in Syncers PROVE GoesThrough(syncer[s])'
  <2>1. syncer[s] \in Syncs /\ LeftAt(syncer[s]) /\ GoesThrough(syncer[s])
    BY RealSync
  <2>2. PICK r \in Syncs : r = syncer[s] /\ LeftAt(r) /\ GoesThrough(r)
    BY <2>1
  <2>3. PICK v : v = syncer'[s]
    OBVIOUS
  <2>4. v = [r EXCEPT !.clean = FALSE]
    <3>1. (\E t \in TodoIds : ChangeTask(t)) => Disturbed
      BY DEF ChangeTask
    <3>2. (\E p \in PageIds, w \in Wordings : ChangeItem(p, w)) => Disturbed
      BY DEF ChangeItem
    <3> QED BY <2>2, <2>3, <3>1, <3>2 DEF Disturbed
  <2>5. v.phase = r.phase /\ v.tasks = r.tasks /\ v.left = r.left /\ v.stale = r.stale
    BY <2>4 DEF Syncs
  <2>6. GoesThrough(r)'
    BY <1>3, <2>2, GoesOnThrough
  <2>7. GoesThrough(v)'
    BY <2>5, <2>6 DEF GoesThrough
  <2> QED BY <2>3, <2>7 DEF GoesThrough
<1> QED BY <1>3, <1>4 DEF NotionReal

\* cmd_notion_sync: every task and item there is has a section or a database and a
\* text of the user's, whatever syncs overlap, and a sync has tasks and items left.
THEOREM NotionTypeCorrect == NotionSpec => []NotionTypeOK
<1>1. NotionInit => NotionReal
  <2> SUFFICES ASSUME NotionInit PROVE NotionReal
    OBVIOUS
  <2>1. todoist \in [TodoIds -> RealTasks] /\ page \in [PageIds -> RealPages]
    <3>1. \A x \in {NoTask} \cup {TaskIn("planner", w) : w \in Wordings} : x \in RealTasks
      BY TasksInAre DEF RealTasks
    <3>2. NoPage \in RealPages
      BY DEF RealPages
    <3> QED BY <3>1, <3>2 DEF NotionInit
  <2>2. \A s \in Syncers : GoesThrough(syncer[s])
    BY DEF NotionInit, GoesThrough, AtRest, RealTasks
  <2> QED BY <2>1, <2>2 DEF NotionReal
<1>2. NotionInv /\ NotionReal /\ [NotionNext]_notionVars => NotionReal'
  <2> SUFFICES ASSUME NotionInv, NotionReal, [NotionNext]_notionVars PROVE NotionReal'
    OBVIOUS
  <2>1. CASE UNCHANGED notionVars
    BY <2>1 DEF notionVars, NotionReal, GoesThrough
  <2> QED BY <2>1, RealReads, RealWrites, RealCreates, RealUser DEF NotionNext
<1>3. NotionInv /\ NotionReal => NotionTypeOK
  BY DEF NotionInv, NotionShapes, NotionReal, RealTasks, RealPages, SomeExtra, Syncs, Databases, NotionTypeOK
<1> QED BY <1>1, <1>2, <1>3, NotionInvAlways, PTL DEF NotionSpec

\* A behaviour of the run over all data is one of each component, so that what is
\* proved of a component holds there too.
LEMMA DataRunsEach ==
  DataSpec => /\ MedallionSpec /\ SilverSpec /\ SqlSpec /\ ChunkerSpec /\ PlannerSpec
              /\ BoardSpec /\ NotionSpec /\ DashboardSpec /\ BriefingSpec /\ SchedulerSpec
<1>1. DataInit => /\ MedallionInit /\ SilverInit /\ SqlInit /\ ChunkerInit /\ PlannerInit
                  /\ BoardInit /\ NotionInit /\ DashboardInit /\ BriefingInit /\ SchedulerInit
  BY DEF DataInit
<1>2. [DataNext]_vars => /\ [MedallionNext]_medallionVars /\ [SilverNext]_silverVars /\ [SqlNext]_sqlVars
                         /\ [ChunkerNext]_sentences /\ [PlannerNext]_plannerVars
  BY DEF DataNext, vars
<1>3. [DataNext]_vars => /\ [BoardNext]_boardVars /\ [NotionNext]_notionVars /\ [DashboardNext]_dashboardVars
                         /\ [BriefingNext]_briefVars /\ [SchedulerNext]_schedulerVars
  BY DEF DataNext, vars
<1> QED BY <1>1, <1>2, <1>3, PTL
        DEF DataSpec, MedallionSpec, SilverSpec, SqlSpec, ChunkerSpec, PlannerSpec,
            BoardSpec, NotionSpec, DashboardSpec, BriefingSpec, SchedulerSpec

\* The types of all that the program makes of a user's data - layers, rows, board, pages,
\* dashboards, briefings, slots - whichever is in focus.
THEOREM DataTypesAlways == DataSpec => []DataTypeOK
<1>1. MedallionTypeOK /\ SqlTypeOK /\ BoardTypeOK /\ NotionTypeOK /\ DashboardTypeOK
        /\ BriefTypeOK /\ SchedulerTypeOK => DataTypeOK
  BY DEF DataTypeOK
<1> QED BY <1>1, DataRunsEach, MedallionTypeCorrect, SqlTypeCorrect, BoardTypeCorrect, NotionTypeCorrect,
           DashboardTypeCorrect, BriefTypeCorrect, SchedulerTypeCorrect, PTL
==============================================================================
