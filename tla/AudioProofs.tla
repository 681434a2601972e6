----------------------------- MODULE AudioProofs -----------------------------
(***************************************************************************)
(* The audio core for any rates, chunk sizes, bounds, producers, segments  *)
(* and generations: no sample is refused or lost between the resampler and *)
(* the device, and each turn is spoken in order and under the right labels *)
(* (SpeechOutput), whatever the device thread does between the tasks.      *)
(***************************************************************************)
EXTENDS AudioPipeline, TLAPS, SequenceTheorems

-----------------------------------------------------------------------------
(* The inductive invariant                                                 *)

\* The types, component by component.
GenType ==
  /\ epoch \in -1..MaxEpoch /\ live \in Epoch \cup {None}
  /\ ledger \in [next : 0..MaxNative, seq : -1..MaxEvents, closed : BOOLEAN]
  /\ spans \in Seq([end : 1..MaxNative, label : Label])
  /\ src \in Seq(Label)
  /\ released \in Nat /\ out \in Nat
QueueType == qkey \in Epoch \cup {None} /\ items \in Seq(ItemType) /\ qsamples \in Int
ProdType ==
  /\ prod \in [Producer -> ProdState]
  /\ call \in [Producer -> CallType \cup {NoCall}]
  /\ item \in [Producer -> ItemType \cup {NoItem}]
ConsType == cons \in [Epoch -> ConsState] /\ held \in [Epoch -> ItemType \cup {NoItem}]
SinkType ==
  /\ skey \in Epoch \cup {None}
  /\ sink \in [next : Nat, closed : BOOLEAN, eof : BOOLEAN]
  /\ buffers \in Seq(SampleType) /\ queued \in Int /\ delivered \in Nat
  /\ finished \in BOOLEAN /\ failed \in BOOLEAN /\ signal \in BOOLEAN
  /\ heard \in Seq(SampleType)
  /\ faults \in 0..MaxFaults

\* There is one generation: queue and device belong to it or to none.
KeysAgree ==
  /\ qkey = live /\ (live # None => live = epoch) /\ (skey # None => skey = live)

\* The resampler has put out what its filter allows, and the queue was given part of it.
LedgerSound ==
  /\ Len(src) = ledger.next
  /\ released = Emitted(ledger.next, ledger.closed) /\ out <= released

\* The spans that are left cover the native samples from the one the next output sample
\* is computed from, and label them as they were accepted.
SpansSound ==
  /\ spans = <<>> => Worth(Len(src)) <= out
  /\ spans # <<>> =>
       /\ spans[Len(spans)].end = Len(src)
       /\ \A m \in 1..spans[1].end : SourceOf(out) < m => src[m] = spans[1].label
  /\ \A i \in 1..Len(spans) : spans[i].end <= Len(src)
  /\ \A i \in 1..(Len(spans) - 1) :
       \A m \in (spans[i].end + 1)..spans[i + 1].end : src[m] = spans[i + 1].label

\* Every sample of a chunk has the label of the native sample it was computed from.
Labelled(x) ==
  \A j \in x.at..(x.at + x.count - 1) :
    SourceOf(j) < Len(src) /\ src[SourceOf(j) + 1] = x.label

\* A chunk of the generation, or the end of all its output.
Fits(x) ==
  /\ x \in ItemType /\ x.epoch = live
  /\ x.kind = "chunk" => x.count > 0 /\ Labelled(x)
  /\ x.kind = "eof" => x.count = 0 /\ ledger.closed /\ x.at = released

\* The producers that hold the lock, and those of them with an item to put.
Holder(p) == prod[p] \in {"run", "put", "blocked", "woken"}
Pending(p) == prod[p] \in {"put", "blocked", "woken"}

\* No producer will add to the output of the generation.
NoOneAdds == \A p \in Producer : Holder(p) => call[p].epoch # live

\* What a producer of this generation will put is next.
CallSound(p) ==
  /\ prod[p] # "idle" =>
       /\ call[p] \in CallType /\ call[p].epoch <= epoch
       /\ call[p].at + call[p].count <= MaxNative
       /\ call[p].kind = "push" => call[p].label \in Label
       /\ call[p].kind = "finish" => call[p].count = 0
  /\ prod[p] \in {"run", "put"} => call[p].epoch = live
  /\ Holder(p) /\ call[p].epoch = live => (ledger.closed <=> call[p].kind = "finish")
  /\ Pending(p) => item[p] \in ItemType /\ item[p].epoch = call[p].epoch
  /\ Pending(p) /\ item[p].epoch = live =>
       Fits(item[p]) /\ item[p].at = out /\ out + item[p].count <= released

ProducersSound ==
  /\ \A p \in Producer : CallSound(p)
  /\ \A p, q \in Producer : Holder(p) /\ Holder(q) => p = q

\* The queue holds consecutive output of the generation, up to what was put last; the end
\* comes last, and after it nothing.
First == out - qsamples
QueueSound ==
  /\ Len(items) <= MaxItems /\ qsamples \in 0..MaxSamples
  /\ items = <<>> => qsamples = 0
  /\ items # <<>> => /\ items[1].at = First
                     /\ items[Len(items)].at + items[Len(items)].count = out
  /\ \A i \in 1..Len(items) :
       /\ Fits(items[i]) /\ items[i].at + items[i].count <= out
       /\ items[i].kind = "eof" => i = Len(items) /\ NoOneAdds
  /\ \A i \in 1..(Len(items) - 1) : items[i + 1].at = items[i].at + items[i].count

\* The consumer of the generation holds what comes next for the device.
Awaits == {"ready", "run", "parked"}
HoldsItem == {"hand", "room", "recheck", "submit"}
HeldFits(x) ==
  /\ Fits(x) /\ x.at = sink.next /\ x.at + x.count = First /\ ~sink.closed
  /\ x.kind = "eof" => items = <<>> /\ NoOneAdds

\* After the end of the output nothing is left to come.
ClosedSound ==
  IF sink.closed
  THEN sink.next = out /\ out = released /\ items = <<>> /\ ledger.closed /\ NoOneAdds
  ELSE ~sink.eof

ConsumersSound ==
  skey # None =>
    /\ cons[skey] # "off"
    /\ cons[skey] \in Awaits => sink.next = First /\ ~sink.closed
    /\ cons[skey] \in HoldsItem => HeldFits(held[skey])
    /\ cons[skey] = "submit" /\ held[skey].kind = "chunk" => queued + held[skey].count <= MaxBuffer
    /\ cons[skey] \in {"drain", "done"} => sink.closed
    /\ ClosedSound

\* The device has what was submitted and not played yet, in order.
SinkSound ==
  /\ queued = Len(buffers) /\ queued <= MaxBuffer
  /\ skey = None => buffers = <<>>
  /\ skey # None =>
       /\ ~failed /\ sink.next = delivered + queued
       /\ \A k \in 1..Len(buffers) : buffers[k] = Speech!Sample(live, delivered + k - 1, src)
       /\ finished => sink.closed /\ queued = 0

PipelineSound ==
  /\ GenType /\ QueueType /\ ProdType /\ ConsType /\ SinkType
  /\ KeysAgree /\ LedgerSound /\ SpansSound /\ ProducersSound /\ QueueSound
  /\ ConsumersSound /\ SinkSound

-----------------------------------------------------------------------------
(* Positions in the native speech and in the output                        *)

\* The bounds, one by one.
LEMMA BoundsAreNumbers ==
  /\ InRate \in Nat \ {0} /\ OutRate \in Nat \ {0} /\ ChunkMax \in Nat \ {0}
  /\ MaxSamples \in Nat \ {0} /\ MaxItems \in Nat \ {0} /\ MaxBuffer \in Nat \ {0}
  /\ Block \in Nat \ {0} /\ Radius \in Nat /\ MaxEpoch \in Nat /\ MaxNative \in Nat
  /\ MaxEvents \in Nat /\ MaxPush \in Nat /\ MaxFaults \in Nat
  /\ ChunkMax <= MaxSamples /\ ChunkMax <= MaxBuffer /\ None \notin Nat
BY PipelineAssumption

\* Integer division rounds down.
LEMMA DivBounds ==
  ASSUME NEW a \in Int, NEW b \in Nat \ {0}
  PROVE  a \div b \in Int /\ b * (a \div b) <= a /\ a < b * (a \div b) + b
OBVIOUS

LEMMA RatesArePositive == InRate \in Nat \ {0} /\ OutRate \in Nat \ {0} /\ Radius \in Nat
BY BoundsAreNumbers

\* A division rounded up is at most j exactly if j times the divisor reaches the dividend.
LEMMA CeilGalois ==
  ASSUME NEW a \in Nat, NEW b \in Nat \ {0}, NEW j \in Nat
  PROVE  (a + b - 1) \div b <= j <=> a <= j * b
<1> DEFINE q == (a + b - 1) \div b
<1>1. q \in Int /\ b * q <= a + b - 1 /\ a + b - 1 < b * q + b
  BY DivBounds
<1>2. j * b \in Nat
  OBVIOUS
<1> HIDE DEF q
<1>3. ASSUME q <= j PROVE a <= j * b
  <2>1. b * q <= b * j  BY <1>1, <1>3
  <2> QED BY <1>1, <1>2, <2>1
<1>4. ASSUME j < q PROVE j * b < a
  <2>1. b * (j + 1) <= b * q  BY <1>1, <1>4
  <2>2. b * (j + 1) = j * b + b  OBVIOUS
  <2> QED BY <1>1, <1>2, <2>1, <2>2
<1> QED BY <1>1, <1>2, <1>3, <1>4 DEF q

\* A division rounded down is at least n exactly if the dividend reaches n times the divisor.
LEMMA FloorGalois ==
  ASSUME NEW a \in Nat, NEW b \in Nat \ {0}, NEW n \in Nat
  PROVE  n <= a \div b <=> n * b <= a
<1> DEFINE q == a \div b
<1>1. q \in Int /\ b * q <= a /\ a < b * q + b
  BY DivBounds
<1>2. n * b \in Nat
  OBVIOUS
<1> HIDE DEF q
<1>3. ASSUME n <= q PROVE n * b <= a
  <2>1. b * n <= b * q  BY <1>1, <1>3
  <2> QED BY <1>1, <1>2, <2>1
<1>4. ASSUME q < n PROVE a < n * b
  <2>1. b * (q + 1) <= b * n  BY <1>1, <1>4
  <2>2. b * (q + 1) = b * q + b  BY <1>1
  <2> QED BY <1>1, <1>2, <2>1, <2>2
<1> QED BY <1>1, <1>2, <1>3, <1>4 DEF q

LEMMA WorthIsNat == ASSUME NEW n \in Nat PROVE Worth(n) \in Nat
<1>1. n * OutRate \in Nat
  BY RatesArePositive
<1> DEFINE a == n * OutRate + InRate - 1
<1>2. a \in Nat
  BY <1>1, RatesArePositive
<1> HIDE DEF a
<1>3. a \div InRate \in Int /\ a < InRate * (a \div InRate) + InRate
  BY <1>2, RatesArePositive, DivBounds
<1>4. ASSUME NEW q \in Int, a < InRate * q + InRate PROVE q >= 0
  <2>1. CASE q <= -1
    <3>1. InRate * q <= InRate * (-1)  BY <2>1, RatesArePositive
    <3> QED BY <3>1, <1>2, <1>4, RatesArePositive
  <2> QED BY <2>1
<1> QED BY <1>3, <1>4 DEF Worth, a

LEMMA SourceIsNat == ASSUME NEW j \in Nat PROVE SourceOf(j) \in Nat
<1>1. j * InRate \in Nat
  BY RatesArePositive
<1>2. SourceOf(j) \in Int
  BY <1>1, RatesArePositive, DivBounds DEF SourceOf
<1> QED BY <1>1, <1>2, FloorGalois, RatesArePositive DEF SourceOf

\* Output sample j lies before native sample n exactly if it is computed from an earlier one.
LEMMA WorthAndSource ==
  ASSUME NEW n \in Nat, NEW j \in Nat
  PROVE  Worth(n) <= j <=> n <= SourceOf(j)
<1>1. n * OutRate \in Nat /\ j * InRate \in Nat
  BY RatesArePositive
<1>2. Worth(n) <= j <=> n * OutRate <= j * InRate
  BY <1>1, CeilGalois, RatesArePositive DEF Worth
<1>3. n <= SourceOf(j) <=> n * OutRate <= j * InRate
  BY <1>1, FloorGalois, RatesArePositive DEF SourceOf
<1> QED BY <1>2, <1>3

LEMMA WorthGrows == ASSUME NEW m \in Nat, NEW n \in Nat, m <= n PROVE Worth(m) <= Worth(n)
<1>1. Worth(n) \in Nat /\ n <= SourceOf(Worth(n)) /\ SourceOf(Worth(n)) \in Nat
  BY WorthIsNat, SourceIsNat, WorthAndSource
<1> QED BY <1>1, WorthAndSource

LEMMA SourceGrows == ASSUME NEW j \in Nat, NEW k \in Nat, j <= k PROVE SourceOf(j) <= SourceOf(k)
<1>1. SourceOf(j) \in Nat /\ Worth(SourceOf(j)) \in Nat /\ Worth(SourceOf(j)) <= j
  BY WorthIsNat, SourceIsNat, WorthAndSource
<1> QED BY <1>1, WorthAndSource

\* The resampler never puts out more than its input is worth, all of it at the end, and
\* more input never less.
LEMMA EmittedBounds ==
  ASSUME NEW n \in Nat, NEW f \in BOOLEAN
  PROVE  Emitted(n, f) \in Nat /\ Emitted(n, f) <= Worth(n) /\ Emitted(n, TRUE) = Worth(n)
<1>1. Worth(n) \in Nat
  BY WorthIsNat
<1>2. ASSUME n > Radius PROVE Worth(n - Radius) \in Nat /\ Worth(n - Radius) <= Worth(n)
  <2>1. n - Radius \in Nat /\ n - Radius <= n
    BY <1>2, RatesArePositive
  <2> QED BY <2>1, WorthIsNat, WorthGrows
<1> QED BY <1>1, <1>2 DEF Emitted

LEMMA EmittedGrows ==
  ASSUME NEW m \in Nat, NEW n \in Nat, m <= n, NEW f \in BOOLEAN
  PROVE  Emitted(m, FALSE) <= Emitted(n, f)
<1>1. Worth(m) \in Nat /\ Worth(n) \in Nat /\ Worth(m) <= Worth(n)
  BY WorthIsNat, WorthGrows
<1>2. Emitted(m, FALSE) <= Worth(m)
  BY EmittedBounds
<1>3. CASE InRate = OutRate \/ f
  <2>1. Emitted(n, f) = Worth(n)
    BY <1>3 DEF Emitted
  <2> DEFINE less == Emitted(m, FALSE)
  <2>2. less \in Nat /\ less <= Worth(m)
    BY EmittedBounds
  <2> HIDE DEF less
  <2>3. less <= Worth(n)
    BY <1>1, <2>2
  <2> QED BY <2>1, <2>3 DEF less
<1>4. CASE ~(InRate = OutRate \/ f)
  <2>1. CASE m > Radius
    <3>1. m - Radius \in Nat /\ n - Radius \in Nat /\ m - Radius <= n - Radius /\ n > Radius
      BY <2>1, RatesArePositive
    <3>2. Worth(m - Radius) <= Worth(n - Radius)
      BY <3>1, WorthGrows
    <3> QED BY <1>4, <2>1, <3>1, <3>2 DEF Emitted
  <2>2. CASE ~(m > Radius)
    BY <1>4, <2>2, EmittedBounds DEF Emitted
  <2> QED BY <2>1, <2>2
<1> QED BY <1>3, <1>4

LEMMA NothingIsWorthNothing == Worth(0) = 0 /\ Emitted(0, FALSE) = 0
<1>1. Worth(0) <= 0
  <2>1. 0 <= SourceOf(0) /\ SourceOf(0) \in Nat  BY SourceIsNat
  <2> QED BY <2>1, WorthAndSource
<1>2. Worth(0) \in Nat
  BY WorthIsNat
<1>3. Worth(0) = 0
  BY <1>1, <1>2
<1> QED BY <1>3, RatesArePositive DEF Emitted

-----------------------------------------------------------------------------
(* What the parts of the invariant depend on                               *)

Generation == <<epoch, live, ledger, src, released, out>>

LEMMA GenerationStays ==
  ASSUME GenType, LedgerSound, SpansSound, UNCHANGED Generation, UNCHANGED spans
  PROVE  GenType' /\ LedgerSound' /\ SpansSound'
BY DEF Generation, GenType, LedgerSound, SpansSound, Epoch

\* An item that fits goes on fitting while the input grows, if the end it may be has come.
LEMMA FitsStays ==
  ASSUME NEW x, Fits(x), live' = live,
         Len(src) \in Nat, Len(src') \in Nat, Len(src) <= Len(src'),
         \A m \in 1..Len(src) : src'[m] = src[m],
         ledger.closed => ledger'.closed /\ released' = released
  PROVE  Fits(x)'
<1>1. ASSUME x.kind = "chunk" PROVE Labelled(x)'
  <2>1. Labelled(x) /\ x \in ItemType
    BY <1>1 DEF Fits
  <2> SUFFICES ASSUME NEW j \in x.at..(x.at + x.count - 1)
               PROVE  SourceOf(j) < Len(src') /\ src'[SourceOf(j) + 1] = x.label
    BY DEF Labelled
  <2>2. SourceOf(j) < Len(src) /\ src[SourceOf(j) + 1] = x.label
    BY <2>1 DEF Labelled
  <2>3. SourceOf(j) \in Nat
    <3>1. x.at \in Nat /\ x.count \in Nat
      BY <2>1, BoundsAreNumbers DEF ItemType
    <3>2. j \in Nat
      BY <3>1
    <3> QED BY <3>2, SourceIsNat
  <2> QED BY <2>2, <2>3
<1> QED BY <1>1 DEF Fits

\* No producer comes to hold the lock of the generation, and every one that pends is
\* where it was; the wake-ups and the ends of calls are of this kind.
Quiet ==
  \A p \in Producer :
    \/ /\ prod'[p] = prod[p] \/ (prod[p] \in {"blocked", "woken"} /\ prod'[p] \in {"blocked", "woken"})
       /\ call'[p] = call[p] /\ item'[p] = item[p]
    \/ prod'[p] = "idle"

LEMMA QuietProducers ==
  ASSUME ProducersSound, Quiet, UNCHANGED Generation
  PROVE  ProducersSound' /\ (NoOneAdds => NoOneAdds')
<1> USE DEF Generation
<1>1. ASSUME NEW p \in Producer PROVE CallSound(p)'
  <2>1. CASE prod'[p] = "idle"
    BY <2>1 DEF CallSound, Holder, Pending
  <2>2. CASE /\ prod'[p] = prod[p] \/ (prod[p] \in {"blocked", "woken"} /\ prod'[p] \in {"blocked", "woken"})
             /\ call'[p] = call[p] /\ item'[p] = item[p]
    <3>1. CallSound(p)
      BY DEF ProducersSound
    <3>2. \A x : Fits(x)' <=> Fits(x)
      BY DEF Fits, Labelled
    <3> QED BY <2>2, <3>1, <3>2 DEF CallSound, Holder, Pending
  <2> QED BY <2>1, <2>2 DEF Quiet
<1>2. ASSUME NEW p \in Producer, NEW q \in Producer, Holder(p)', Holder(q)' PROVE p = q
  BY <1>2 DEF ProducersSound, Holder, Quiet
<1>3. ASSUME NoOneAdds PROVE NoOneAdds'
  BY <1>3 DEF NoOneAdds, Holder, Quiet
<1> QED BY <1>1, <1>2, <1>3 DEF ProducersSound

\* The queue and what is held of it depend on the producers only through NoOneAdds.
LEMMA QueueStays ==
  ASSUME QueueSound, UNCHANGED <<items, qsamples, out, live, ledger, src, released>>,
         NoOneAdds => NoOneAdds'
  PROVE  QueueSound'
<1>1. \A x : Fits(x)' <=> Fits(x)
  BY DEF Fits, Labelled
<1> QED BY <1>1 DEF QueueSound, First

\* The consumer of the generation waits, holds or has left as before.
SameConsumer ==
  skey # None =>
    /\ held'[skey] = held[skey]
    /\ \/ cons'[skey] = cons[skey]
       \/ cons[skey] \in Awaits /\ cons'[skey] \in Awaits
       \/ cons[skey] \in HoldsItem /\ cons'[skey] \in HoldsItem \ {"submit"}

LEMMA ConsumersStay ==
  ASSUME ConsumersSound, SameConsumer,
         UNCHANGED <<skey, sink, items, qsamples, out, live, ledger, src, released, queued>>,
         NoOneAdds => NoOneAdds'
  PROVE  ConsumersSound'
<1>1. \A x : Fits(x)' <=> Fits(x)
  BY DEF Fits, Labelled
<1>2. \A x : HeldFits(x) => HeldFits(x)'
  BY <1>1 DEF HeldFits, First
<1>3. ClosedSound => ClosedSound'
  BY DEF ClosedSound
<1>4. SUFFICES ASSUME skey # None PROVE ConsumersSound'
  BY DEF ConsumersSound
<1>5. CASE cons'[skey] = cons[skey]
  BY <1>2, <1>3, <1>4, <1>5 DEF ConsumersSound, SameConsumer, First
<1>6. CASE cons[skey] \in Awaits /\ cons'[skey] \in Awaits
  BY <1>2, <1>3, <1>4, <1>6 DEF ConsumersSound, SameConsumer, First, Awaits, HoldsItem
<1>7. CASE cons[skey] \in HoldsItem /\ cons'[skey] \in HoldsItem \ {"submit"}
  BY <1>2, <1>3, <1>4, <1>7 DEF ConsumersSound, SameConsumer, First, Awaits, HoldsItem
<1> QED BY <1>4, <1>5, <1>6, <1>7 DEF SameConsumer

LEMMA SinkStays ==
  ASSUME SinkSound, KeysAgree, skey \in Epoch \cup {None},
         UNCHANGED <<skey, sink, buffers, queued, delivered, failed, live, src>>,
         finished' = finished
  PROVE  SinkSound'
BY DEF SinkSound, Speech!Sample, Speech!SourceOf

-----------------------------------------------------------------------------
(* Steps that move tasks only                                              *)

LEMMA ReturnIsQuiet ==
  ASSUME PipelineSound, NEW p \in Producer, Return(p)
  PROVE  Quiet /\ ProdType'
BY DEF PipelineSound, Quiet, Return, ProdType, ProdState

LEMMA WakeIsQuiet ==
  ASSUME PipelineSound, prod' = WokenProd(prod), UNCHANGED <<call, item>>
  PROVE  Quiet /\ ProdType'
BY DEF PipelineSound, Quiet, WokenProd, ProdType, ProdState

LEMMA WakeKeepsConsumers ==
  ASSUME PipelineSound, cons' = WokenCons(cons), UNCHANGED <<held, skey>>
  PROVE  SameConsumer /\ ConsType'
BY DEF PipelineSound, SameConsumer, WokenCons, ConsType, ConsState, SinkType, Awaits, HoldsItem

\* A step that only moves producers.
LEMMA ProducerSteps ==
  ASSUME PipelineSound, ProdType', ProducersSound', NoOneAdds => NoOneAdds',
         UNCHANGED <<epoch, genVars, queueVars, consVars, sinkVars, heard, faults>>
  PROVE  PipelineSound'
<1> USE DEF genVars, queueVars, consVars, sinkVars
<1>1. GenType' /\ LedgerSound' /\ SpansSound'
  BY GenerationStays DEF PipelineSound, Generation
<1>2. QueueType' /\ ConsType' /\ SinkType' /\ KeysAgree'
  BY DEF PipelineSound, QueueType, ConsType, SinkType, KeysAgree, Epoch
<1>3. QueueSound'
  BY QueueStays DEF PipelineSound
<1>4. ConsumersSound'
  <2>1. SameConsumer
    BY DEF SameConsumer
  <2> QED BY <2>1, ConsumersStay DEF PipelineSound
<1>5. SinkSound'
  BY SinkStays DEF PipelineSound, SinkType
<1> QED BY <1>1, <1>2, <1>3, <1>4, <1>5 DEF PipelineSound

LEMMA QuietSteps ==
  ASSUME PipelineSound, Quiet, ProdType',
         UNCHANGED <<epoch, genVars, queueVars, consVars, sinkVars, heard, faults>>
  PROVE  PipelineSound'
<1>1. ProducersSound' /\ (NoOneAdds => NoOneAdds')
  BY QuietProducers DEF PipelineSound, Generation, genVars
<1> QED BY <1>1, ProducerSteps

\* A step of one producer that touches nothing but where it stands, its call and its item.
LEMMA OneProducer ==
  ASSUME PipelineSound, NEW p \in Producer,
         UNCHANGED <<epoch, genVars, queueVars, consVars, sinkVars, heard, faults>>,
         ProdType',
         \A q \in Producer \ {p} : prod'[q] = prod[q] /\ call'[q] = call[q] /\ item'[q] = item[q],
         CallSound(p)', Holder(p)' => Holder(p) /\ call'[p] = call[p]
  PROVE  PipelineSound'
<1>1. UNCHANGED Generation
  BY DEF Generation, genVars
<1>2. \A x : Fits(x)' <=> Fits(x)
  BY <1>1 DEF Fits, Labelled, Generation
<1>3. \A q \in Producer \ {p} : CallSound(q) => CallSound(q)'
  BY <1>1, <1>2 DEF CallSound, Holder, Pending, Generation
<1>4. \A q \in Producer : Holder(q)' => Holder(q) /\ call'[q] = call[q]
  BY DEF Holder
<1>5. ProducersSound' /\ (NoOneAdds => NoOneAdds')
  BY <1>1, <1>3, <1>4 DEF PipelineSound, ProducersSound, NoOneAdds, Generation
<1> QED BY <1>5, ProducerSteps

LEMMA RefusedKeeps == ASSUME PipelineSound, NEW p \in Producer, Refused(p) PROVE PipelineSound'
BY ReturnIsQuiet, QuietSteps DEF Refused

LEMMA PutStaleKeeps == ASSUME PipelineSound, NEW p \in Producer, PutStale(p) PROVE PipelineSound'
BY ReturnIsQuiet, QuietSteps DEF PutStale

\* A producer that waits for room is where it was.
LEMMA PutBlocksKeeps == ASSUME PipelineSound, NEW p \in Producer, PutBlocks(p) PROVE PipelineSound'
<1>1. prod[p] \in {"put", "woken"} /\ prod' = [prod EXCEPT ![p] = "blocked"]
      /\ UNCHANGED <<call, item>>
  BY DEF PutBlocks, Putting
<1>2. UNCHANGED <<epoch, genVars, queueVars, consVars, sinkVars, heard, faults>>
  BY DEF PutBlocks
<1>3. ProdType' /\ prod'[p] = "blocked"
  BY <1>1 DEF PipelineSound, ProdType, ProdState
<1>4. CallSound(p)'
  <2>1. \A x : Fits(x)' <=> Fits(x)
    BY <1>2 DEF Fits, Labelled, genVars
  <2>2. CallSound(p)
    BY DEF PipelineSound, ProducersSound
  <2> QED BY <1>1, <1>2, <1>3, <2>1, <2>2 DEF CallSound, Holder, Pending, genVars
<1>5. \A q \in Producer \ {p} : prod'[q] = prod[q] /\ call'[q] = call[q] /\ item'[q] = item[q]
  BY <1>1 DEF PipelineSound, ProdType
<1>6. Holder(p) /\ call'[p] = call[p]
  BY <1>1 DEF Holder
<1> QED BY <1>2, <1>3, <1>4, <1>5, <1>6, OneProducer

\* A task cancelled while it waits for the lock, or after its generation.
LEMMA LeaveIsQuiet ==
  ASSUME PipelineSound, NEW p \in Producer, prod' = [prod EXCEPT ![p] = "idle"],
         call' = [call EXCEPT ![p] = NoCall], item' = [item EXCEPT ![p] = NoItem]
  PROVE  Quiet /\ ProdType'
BY DEF PipelineSound, Quiet, ProdType, ProdState

\* An event is next in line for the generation it is made for.
LEMMA CallKeeps == ASSUME PipelineSound, NEW p \in Producer, Call(p) PROVE PipelineSound'
<1>1. PICK e \in Event : e.at + e.count <= MaxNative /\ call' = [call EXCEPT ![p] = e]
  BY DEF Call
<1>2. prod' = [prod EXCEPT ![p] = "lock"] /\ UNCHANGED item
      /\ UNCHANGED <<epoch, genVars, queueVars, consVars, sinkVars, heard, faults>>
  BY DEF Call
<1>3. live # None /\ live \in Epoch /\ live = epoch
  BY DEF Event, PipelineSound, GenType, KeysAgree
<1>4. ledger.seq + 1 \in 0..MaxEvents /\ ledger.next \in 0..MaxNative
  <2>1. ledger.seq \in -1..MaxEvents /\ ledger.next \in 0..MaxNative
    BY DEF PipelineSound, GenType
  <2> QED BY <2>1, BoundsAreNumbers DEF Call
<1>5. /\ e \in CallType /\ e.epoch = epoch
      /\ (e.kind = "push" => e.label \in Label) /\ (e.kind = "finish" => e.count = 0)
  <2>1. CASE e \in [kind : {"push"}, epoch : {live}, seq : {ledger.seq + 1}, at : {ledger.next},
                    count : 0..MaxPush, label : Label]
    BY <1>3, <1>4, <2>1 DEF CallType
  <2>2. CASE e \in [kind : {"finish"}, epoch : {live}, seq : {ledger.seq + 1},
                    at : {ledger.next}, count : {0}, label : {None}]
    BY <1>3, <1>4, <2>2, BoundsAreNumbers DEF CallType
  <2> QED BY <1>3, <2>1, <2>2 DEF Event
<1>6. ProdType' /\ prod'[p] = "lock" /\ call'[p] = e
  BY <1>1, <1>2, <1>5 DEF PipelineSound, ProdType, ProdState
<1>7. CallSound(p)' /\ ~Holder(p)'
  <2>1. epoch' = epoch /\ epoch \in Int
    BY <1>2 DEF PipelineSound, GenType
  <2> QED BY <1>1, <1>5, <1>6, <2>1 DEF CallSound, Holder, Pending
<1>8. \A q \in Producer \ {p} : prod'[q] = prod[q] /\ call'[q] = call[q] /\ item'[q] = item[q]
  BY <1>1, <1>2 DEF PipelineSound, ProdType
<1> QED BY <1>2, <1>6, <1>7, <1>8, OneProducer

LEMMA LeastOfThree ==
  ASSUME NEW a \in Nat \ {0}, NEW b \in Nat \ {0}, NEW c \in Nat \ {0}
  PROVE  /\ Least({a, b, c}) \in Nat \ {0}
         /\ Least({a, b, c}) <= a /\ Least({a, b, c}) <= b /\ Least({a, b, c}) <= c
<1>1. \E x \in {a, b, c} : \A y \in {a, b, c} : x <= y
  OBVIOUS
<1>2. Least({a, b, c}) \in {a, b, c} /\ \A y \in {a, b, c} : Least({a, b, c}) <= y
  BY <1>1 DEF Least
<1> QED BY <1>2

\* A chunk lies within its segment: all its samples come from native samples of the span.
LEMMA CutKeeps == ASSUME PipelineSound, NEW p \in Producer, Cut(p) PROVE PipelineSound'
<1> DEFINE w == Worth(spans[1].end)
           n == Least({released - out, ChunkMax, w - out})
<1>0. PICK x : x = Chunk(live, out, n, spans[1].label)
  OBVIOUS
<1>1. /\ prod[p] = "run" /\ out < released /\ spans # <<>> /\ out < w
      /\ item' = [item EXCEPT ![p] = x] /\ prod' = [prod EXCEPT ![p] = "put"]
      /\ UNCHANGED call
      /\ UNCHANGED <<epoch, genVars, queueVars, consVars, sinkVars, heard, faults>>
  BY <1>0 DEF Cut
<1>2. Len(spans) \in Nat /\ 1 \in 1..Len(spans) /\ spans[1] \in [end : 1..MaxNative, label : Label]
  <2>1. spans \in Seq([end : 1..MaxNative, label : Label])
    BY DEF PipelineSound, GenType
  <2>2. Len(spans) \in Nat /\ 1 \in 1..Len(spans)
    BY <1>1, <2>1, EmptySeq
  <2> QED BY <2>1, <2>2, ElementOfSeq
<1>3. out \in Nat /\ released \in Nat /\ spans[1].end \in Nat /\ w \in Nat /\ Len(src) \in Nat
  <2>1. src \in Seq(Label) /\ out \in Nat /\ released \in Nat
    BY DEF PipelineSound, GenType
  <2>2. Len(src) \in Nat
    BY <2>1, LenProperties
  <2>3. spans[1].end \in Nat
    BY <1>2, BoundsAreNumbers
  <2> QED BY <2>1, <2>2, <2>3, WorthIsNat
<1>4. n \in Nat \ {0} /\ n <= released - out /\ n <= ChunkMax /\ n <= w - out
  <2> HIDE DEF w
  <2>1. released - out \in Nat \ {0} /\ w - out \in Nat \ {0} /\ ChunkMax \in Nat \ {0}
    BY <1>1, <1>3, BoundsAreNumbers
  <2> QED BY <2>1, LeastOfThree
<1> HIDE DEF n
<1>5. CallSound(p) /\ call[p].epoch = live /\ live \in Epoch
  <2>1. CallSound(p) /\ live \in Epoch \cup {None}
    BY DEF PipelineSound, ProducersSound, GenType
  <2> QED BY <1>1, <2>1, BoundsAreNumbers DEF CallSound, CallType, Epoch
<1>6. x \in ItemType
  <2>1. ChunkMax \in Nat /\ n \in 0..ChunkMax /\ spans[1].label \in Label
    BY <1>2, <1>4, BoundsAreNumbers
  <2> QED BY <1>0, <1>3, <1>5, <2>1 DEF Chunk, ItemType
<1>7. Labelled(x)
  <2>1. /\ \A m \in 1..spans[1].end : SourceOf(out) < m => src[m] = spans[1].label
        /\ spans[1].end <= Len(src)
    BY <1>1, <1>2 DEF PipelineSound, SpansSound
  <2> SUFFICES ASSUME NEW j \in out..(out + n - 1)
               PROVE  SourceOf(j) < Len(src) /\ src[SourceOf(j) + 1] = spans[1].label
    BY <1>0 DEF Labelled, Chunk
  <2>2. j \in Nat /\ out <= j /\ j < w
    BY <1>3, <1>4
  <2>3. SourceOf(j) \in Nat /\ SourceOf(out) \in Nat /\ SourceOf(out) <= SourceOf(j)
    BY <1>3, <2>2, SourceIsNat, SourceGrows
  <2>4. ~(spans[1].end <= SourceOf(j))
    BY <1>3, <2>2, WorthAndSource
  <2> QED BY <1>3, <2>1, <2>3, <2>4
<1>8. ProdType' /\ prod'[p] = "put" /\ item'[p] = x
  BY <1>1, <1>6 DEF PipelineSound, ProdType, ProdState
<1>9. Fits(x) /\ x.epoch = live /\ x.at = out /\ out + x.count <= released
  BY <1>0, <1>3, <1>4, <1>6, <1>7 DEF Fits, Chunk
<1>10. CallSound(p)'
  <2>1. Fits(x)'
    BY <1>1, <1>9 DEF Fits, Labelled, genVars
  <2> QED BY <1>1, <1>5, <1>6, <1>8, <1>9, <2>1 DEF CallSound, Holder, Pending, genVars
<1>11. \A q \in Producer \ {p} : prod'[q] = prod[q] /\ call'[q] = call[q] /\ item'[q] = item[q]
  BY <1>1 DEF PipelineSound, ProdType
<1>12. Holder(p) /\ call'[p] = call[p]
  BY <1>1 DEF Holder
<1> QED BY <1>1, <1>8, <1>10, <1>11, <1>12, OneProducer

\* The end of the output is queued when all of it is.
LEMMA EndOfCallKeeps == ASSUME PipelineSound, NEW p \in Producer, EndOfCall(p) PROVE PipelineSound'
<1>1. prod[p] = "run" /\ out = released
      /\ UNCHANGED <<epoch, genVars, queueVars, consVars, sinkVars, heard, faults>>
  BY DEF EndOfCall
<1>2. CASE Return(p)
  BY <1>1, <1>2, ReturnIsQuiet, QuietSteps
<1>3. CASE /\ call[p].kind = "finish" /\ item' = [item EXCEPT ![p] = Eof(live, out)]
           /\ prod' = [prod EXCEPT ![p] = "put"] /\ UNCHANGED call
  <2>0. PICK x : x = Eof(live, out)
    OBVIOUS
  <2>1. CallSound(p) /\ call[p].epoch = live /\ live \in Epoch
    <3>1. CallSound(p) /\ live \in Epoch \cup {None}
      BY DEF PipelineSound, ProducersSound, GenType
    <3> QED BY <1>1, <3>1, BoundsAreNumbers DEF CallSound, CallType, Epoch
  <2>2. out \in Nat
    BY DEF PipelineSound, GenType
  <2>3. x \in ItemType
    BY <2>0, <2>1, <2>2, BoundsAreNumbers DEF Eof, ItemType
  <2>4. ledger.closed
    BY <1>1, <1>3, <2>1 DEF CallSound, Holder
  <2>5. Fits(x) /\ x.epoch = live /\ x.at = out /\ out + x.count <= released
    BY <1>1, <2>0, <2>2, <2>3, <2>4 DEF Fits, Eof
  <2>6. ProdType' /\ prod'[p] = "put" /\ item'[p] = x
    BY <1>1, <1>3, <2>0, <2>3 DEF PipelineSound, ProdType, ProdState
  <2>7. CallSound(p)'
    <3>1. Fits(x)'
      BY <1>1, <2>5 DEF Fits, Labelled, genVars
    <3> QED BY <1>1, <1>3, <2>1, <2>3, <2>5, <2>6, <3>1 DEF CallSound, Holder, Pending, genVars
  <2>8. \A q \in Producer \ {p} : prod'[q] = prod[q] /\ call'[q] = call[q] /\ item'[q] = item[q]
    BY <1>3 DEF PipelineSound, ProdType
  <2>9. Holder(p) /\ call'[p] = call[p]
    BY <1>1, <1>3 DEF Holder
  <2> QED BY <1>1, <2>6, <2>7, <2>8, <2>9, OneProducer
<1> QED BY <1>2, <1>3 DEF EndOfCall

\* A step that moves consumers, and may report the end of the playback.
LEMMA ConsumerSteps ==
  ASSUME PipelineSound, ConsType', ConsumersSound',
         UNCHANGED <<epoch, genVars, queueVars, prodVars, skey, sink, buffers, queued,
                     delivered, failed, heard, faults>>,
         signal' \in BOOLEAN, finished' \in BOOLEAN,
         finished' => finished \/ skey = None \/ (sink.closed /\ queued = 0)
  PROVE  PipelineSound'
<1> USE DEF genVars, queueVars, prodVars
<1>1. GenType' /\ LedgerSound' /\ SpansSound' /\ UNCHANGED Generation
  BY GenerationStays DEF PipelineSound, Generation
<1>2. QueueType' /\ ProdType' /\ SinkType' /\ KeysAgree'
  BY DEF PipelineSound, QueueType, ProdType, SinkType, KeysAgree, Epoch
<1>3. ProducersSound' /\ (NoOneAdds => NoOneAdds')
  <2>1. Quiet
    BY DEF Quiet
  <2> QED BY <1>1, <2>1, QuietProducers DEF PipelineSound
<1>4. QueueSound'
  BY <1>3, QueueStays DEF PipelineSound
<1>5. SinkSound'
  BY DEF PipelineSound, SinkSound, Speech!Sample, Speech!SourceOf
<1> QED BY <1>1, <1>2, <1>3, <1>4, <1>5 DEF PipelineSound

\* A consumer other than that of the device's generation leaves.
LEMMA StrangerLeaves ==
  ASSUME PipelineSound, NEW c \in Epoch, Leave(c), c # skey,
         UNCHANGED <<epoch, genVars, queueVars, prodVars, sinkVars, heard, faults>>
  PROVE  PipelineSound'
<1>1. ConsType'
  BY DEF PipelineSound, ConsType, ConsState, Leave
<1>2. SameConsumer
  <2>1. ASSUME skey # None PROVE skey \in Epoch
    BY <2>1 DEF PipelineSound, SinkType
  <2> QED BY <2>1 DEF SameConsumer, PipelineSound, ConsType, Leave
<1>3. ConsumersSound'
  BY <1>2, ConsumersStay DEF PipelineSound, NoOneAdds, Holder, genVars, queueVars, prodVars, sinkVars
<1>4. signal' \in BOOLEAN /\ finished' \in BOOLEAN /\ (finished' => finished)
  BY DEF PipelineSound, SinkType, sinkVars
<1> QED BY <1>1, <1>3, <1>4, ConsumerSteps DEF sinkVars

LEMMA GetCancelledKeeps == ASSUME PipelineSound, NEW c \in Epoch, GetCancelled(c) PROVE PipelineSound'
<1>1. c # skey
  BY BoundsAreNumbers DEF PipelineSound, KeysAgree, GetCancelled, Epoch
<1> QED BY <1>1, StrangerLeaves DEF GetCancelled

LEMMA GetWaitsKeeps == ASSUME PipelineSound, NEW c \in Epoch, GetWaits(c) PROVE PipelineSound'
<1>1. cons[c] \in Awaits /\ cons' = [cons EXCEPT ![c] = "parked"] /\ UNCHANGED held
      /\ UNCHANGED <<epoch, genVars, queueVars, prodVars, sinkVars, heard, faults>>
  BY DEF GetWaits, Getting, Awaits
<1>2. ConsType'
  BY <1>1 DEF PipelineSound, ConsType, ConsState
<1>3. SameConsumer
  BY <1>1 DEF SameConsumer, PipelineSound, ConsType, SinkType, Awaits, Epoch
<1>4. ConsumersSound'
  BY <1>1, <1>3, ConsumersStay DEF PipelineSound, NoOneAdds, Holder, genVars, queueVars, prodVars, sinkVars
<1>5. signal' \in BOOLEAN /\ finished' \in BOOLEAN /\ (finished' => finished)
  BY <1>1 DEF PipelineSound, SinkType, sinkVars
<1> QED BY <1>1, <1>2, <1>4, <1>5, ConsumerSteps DEF sinkVars

\* wait_writable grants room that the item still finds when it is submitted: until then
\* the device thread can only make more.
LEMMA HandKeeps == ASSUME PipelineSound, NEW c \in Epoch, Hand(c) PROVE PipelineSound'
<1>1. cons[c] \in {"hand", "recheck"}
      /\ UNCHANGED <<epoch, genVars, queueVars, prodVars, sinkVars, heard, faults>>
  BY DEF Hand
<1>2. CASE (failed \/ c # skey) /\ Leave(c)
  <2>1. c # skey
    BY <1>2, BoundsAreNumbers DEF PipelineSound, SinkSound, Epoch
  <2> QED BY <1>1, <1>2, <2>1, StrangerLeaves
<1>3. CASE ~failed /\ c = skey /\ UNCHANGED held
           /\ cons' = [cons EXCEPT ![c] =
                        IF queued + held[c].count <= MaxBuffer THEN "submit" ELSE "room"]
  <2>1. ConsType' /\ cons'[skey] = IF queued + held[skey].count <= MaxBuffer THEN "submit" ELSE "room"
    BY <1>3 DEF PipelineSound, ConsType, ConsState
  <2>2. skey # None
    BY <1>3, BoundsAreNumbers DEF Epoch
  <2>3. ConsumersSound'
    <3>1. CASE queued + held[skey].count <= MaxBuffer
      <4>1. \A x : Fits(x)' <=> Fits(x)
        BY <1>1 DEF Fits, Labelled, genVars
      <4>2. \A x : HeldFits(x) => HeldFits(x)'
        BY <1>1, <4>1 DEF HeldFits, First, NoOneAdds, Holder, genVars, queueVars, prodVars, sinkVars
      <4>3. ClosedSound => ClosedSound'
        BY <1>1 DEF ClosedSound, NoOneAdds, Holder, genVars, queueVars, prodVars, sinkVars
      <4>4. HeldFits(held[skey]) /\ ClosedSound
        BY <1>1, <1>3, <2>2 DEF PipelineSound, ConsumersSound, HoldsItem
      <4>5. cons'[skey] = "submit" /\ UNCHANGED <<skey, held, queued>>
        BY <1>1, <1>3, <2>1, <3>1 DEF sinkVars
      <4> QED BY <2>2, <3>1, <4>2, <4>3, <4>4, <4>5 DEF ConsumersSound, Awaits, HoldsItem
    <3>2. CASE ~(queued + held[skey].count <= MaxBuffer)
      <4>1. SameConsumer
        BY <1>1, <1>3, <2>1, <3>2 DEF SameConsumer, HoldsItem
      <4> QED BY <1>1, <4>1, ConsumersStay
              DEF PipelineSound, NoOneAdds, Holder, genVars, queueVars, prodVars, sinkVars
    <3> QED BY <3>1, <3>2
  <2>4. signal' \in BOOLEAN /\ finished' \in BOOLEAN /\ (finished' => finished)
    BY <1>1 DEF PipelineSound, SinkType, sinkVars
  <2> QED BY <1>1, <2>1, <2>3, <2>4, ConsumerSteps DEF sinkVars
<1> QED BY <1>2, <1>3 DEF Hand

\* What a consumer of the device's generation submits is taken.
LEMMA GrantedIsTaken ==
  ASSUME PipelineSound, NEW c \in Epoch, cons[c] = "submit", c = skey
  PROVE  SinkTakes(held[c]) /\ HeldFits(held[c])
<1>1. skey # None
  BY BoundsAreNumbers DEF Epoch
<1> QED BY <1>1 DEF PipelineSound, ConsumersSound, HoldsItem, HeldFits, SinkTakes

LEMMA SubmitRefusedKeeps == ASSUME PipelineSound, NEW c \in Epoch, SubmitRefused(c) PROVE PipelineSound'
<1>1. c # skey
  BY GrantedIsTaken DEF SubmitRefused
<1> QED BY <1>1, StrangerLeaves DEF SubmitRefused

LEMMA DrainKeeps == ASSUME PipelineSound, NEW c \in Epoch, Drain(c) PROVE PipelineSound'
<1>1. cons[c] = "drain" /\ Leave(c)
      /\ UNCHANGED <<epoch, genVars, queueVars, prodVars, skey, sink, buffers, queued,
                     delivered, failed, signal, heard, faults>>
  BY DEF Drain
<1>2. CASE (failed \/ c # skey) /\ UNCHANGED finished
  <2>1. c # skey
    BY <1>2, BoundsAreNumbers DEF PipelineSound, SinkSound, Epoch
  <2> QED BY <1>1, <1>2, <2>1, StrangerLeaves DEF sinkVars
<1>3. CASE ~failed /\ c = skey /\ sink.eof /\ queued = 0 /\ finished' = TRUE
  <2>1. ConsType' /\ cons'[skey] = "done"
    BY <1>1, <1>3 DEF PipelineSound, ConsType, ConsState, Leave
  <2>2. skey # None
    BY <1>3, BoundsAreNumbers DEF Epoch
  <2>3. sink.closed /\ ClosedSound
    BY <1>1, <1>3, <2>2 DEF PipelineSound, ConsumersSound
  <2>4. ClosedSound'
    BY <1>1, <2>3 DEF ClosedSound, NoOneAdds, Holder, genVars, queueVars, prodVars
  <2>5. ConsumersSound'
    BY <1>1, <2>1, <2>3, <2>4 DEF ConsumersSound, Awaits, HoldsItem
  <2>6. signal' \in BOOLEAN /\ finished' \in BOOLEAN
    BY <1>1, <1>3 DEF PipelineSound, SinkType
  <2> QED BY <1>1, <1>3, <2>1, <2>3, <2>5, <2>6, ConsumerSteps
<1> QED BY <1>1, <1>2, <1>3 DEF Drain

LEMMA DeviceSignalKeeps == ASSUME PipelineSound, DeviceSignal PROVE PipelineSound'
<1>1. /\ signal' = FALSE /\ UNCHANGED held
      /\ cons' = [c \in Epoch |-> IF cons[c] = "room" THEN "recheck" ELSE cons[c]]
      /\ UNCHANGED <<epoch, genVars, queueVars, prodVars, skey, sink, buffers,
                     queued, delivered, finished, failed, heard, faults>>
  BY DEF DeviceSignal
<1>2. ConsType'
  BY <1>1 DEF PipelineSound, ConsType, ConsState
<1>3. SameConsumer
  BY <1>1 DEF SameConsumer, PipelineSound, SinkType, HoldsItem
<1>4. ConsumersSound'
  BY <1>1, <1>3, ConsumersStay DEF PipelineSound, NoOneAdds, Holder, genVars, queueVars, prodVars
<1>5. finished' \in BOOLEAN
  BY <1>1 DEF PipelineSound, SinkType
<1> QED BY <1>1, <1>2, <1>4, <1>5, ConsumerSteps

-----------------------------------------------------------------------------
(* The device                                                              *)

\* The device is stopped, or its thread fails: nothing is left of what it had.
LEMMA DeviceStops ==
  ASSUME PipelineSound, skey' = None, buffers' = <<>>, queued' = 0, signal' = TRUE,
         failed' \in BOOLEAN, faults' \in 0..MaxFaults,
         UNCHANGED <<epoch, genVars, queueVars, prodVars, consVars, sink, delivered, finished, heard>>
  PROVE  PipelineSound'
<1> USE DEF genVars, queueVars, prodVars, consVars
<1>1. GenType' /\ LedgerSound' /\ SpansSound' /\ UNCHANGED Generation
  BY GenerationStays DEF PipelineSound, Generation
<1>2. QueueType' /\ ProdType' /\ ConsType' /\ KeysAgree'
  BY DEF PipelineSound, QueueType, ProdType, ConsType, KeysAgree, Epoch
<1>3. SinkType'
  BY DEF PipelineSound, SinkType, Epoch
<1>4. ProducersSound' /\ (NoOneAdds => NoOneAdds')
  <2>1. Quiet
    BY DEF Quiet
  <2> QED BY <1>1, <2>1, QuietProducers DEF PipelineSound
<1>5. QueueSound'
  BY <1>4, QueueStays DEF PipelineSound
<1>6. ConsumersSound' /\ SinkSound'
  BY BoundsAreNumbers, EmptySeq DEF ConsumersSound, SinkSound
<1> QED BY <1>1, <1>2, <1>3, <1>4, <1>5, <1>6 DEF PipelineSound

LEMMA AbortDeviceKeeps == ASSUME PipelineSound, AbortDevice PROVE PipelineSound'
<1>1. failed' \in BOOLEAN /\ faults' \in 0..MaxFaults
  BY DEF AbortDevice, SinkCancelled, PipelineSound, SinkType
<1> QED BY <1>1, DeviceStops DEF AbortDevice, SinkCancelled

LEMMA PlayFailsKeeps == ASSUME PipelineSound, PlayFails PROVE PipelineSound'
<1>1. failed' \in BOOLEAN /\ faults' \in 0..MaxFaults
  BY BoundsAreNumbers DEF PlayFails, PipelineSound, SinkType
<1> QED BY <1>1, DeviceStops DEF PlayFails

\* The device plays a beginning of what it has, of one sample at least.
LEMMA PlayEffect ==
  ASSUME PipelineSound, Play
  PROVE  \E n \in 1..Len(buffers) :
           /\ heard' \in Seq(SampleType) /\ heard' = [k \in 1..n |-> buffers[k]]
           /\ buffers' \in Seq(SampleType) /\ Len(buffers') = Len(buffers) - n
           /\ \A k \in 1..Len(buffers') : buffers'[k] = buffers[n + k]
           /\ queued' = queued - n /\ delivered' = delivered + n
<1> DEFINE n == Least({Block, Len(buffers)})
<1>1. buffers \in Seq(SampleType)
  BY DEF PipelineSound, SinkType
<1>2. Len(buffers) \in Nat /\ Block \in Nat \ {0}
  BY <1>1, LenProperties, BoundsAreNumbers
<1>3. n > 0
  BY DEF Play
<1>4. n \in 1..Len(buffers)
  <2>1. \E x \in {Block, Len(buffers)} : \A y \in {Block, Len(buffers)} : x <= y
    BY <1>2
  <2>2. n \in {Block, Len(buffers)} /\ n <= Len(buffers)
    BY <2>1 DEF Least
  <2> QED BY <1>2, <1>3, <2>2
<1>5. /\ heard' = SubSeq(buffers, 1, n) /\ buffers' = SubSeq(buffers, n + 1, Len(buffers))
      /\ queued' = queued - n /\ delivered' = delivered + n
  BY DEF Play
<1> HIDE DEF n
<1>6. \A k \in 1..Len(buffers) : buffers[k] \in SampleType
  BY <1>1, ElementOfSeq
<1>7. heard' \in Seq(SampleType) /\ Len(heard') = n /\ \A k \in 1..n : heard'[k] = buffers[k]
  <2>1. \A k \in 1..n : buffers[k] \in SampleType
    BY <1>2, <1>4, <1>6
  <2> QED BY <1>2, <1>4, <1>5, <2>1, SubSeqProperties
<1>8. /\ buffers' \in Seq(SampleType) /\ Len(buffers') = Len(buffers) - n
      /\ \A k \in 1..Len(buffers') : buffers'[k] = buffers[n + k]
  <2>1. \A k \in (n + 1)..Len(buffers) : buffers[k] \in SampleType
    BY <1>2, <1>4, <1>6
  <2>2. /\ buffers' \in Seq(SampleType)
        /\ Len(buffers') = IF n + 1 <= Len(buffers) THEN Len(buffers) - (n + 1) + 1 ELSE 0
        /\ \A k \in 1..(Len(buffers) - (n + 1) + 1) : buffers'[k] = buffers[n + 1 + k - 1]
    <3>1. n + 1 \in Int /\ Len(buffers) \in Int
      BY <1>2, <1>4
    <3> QED BY <1>5, <2>1, <3>1, SubSeqProperties
  <2>3. Len(buffers') = Len(buffers) - n
    BY <1>2, <1>4, <2>2
  <2>4. ASSUME NEW k \in 1..Len(buffers') PROVE buffers'[k] = buffers[n + k]
    <3>1. k \in 1..(Len(buffers) - (n + 1) + 1) /\ n + 1 + k - 1 = n + k
      BY <1>2, <1>4, <2>3
    <3> QED BY <2>2, <3>1
  <2> QED BY <2>2, <2>3, <2>4
<1>9. heard' = [k \in 1..n |-> buffers[k]]
  <2>1. heard' \in [1..n -> SampleType]
    BY <1>7, LenProperties
  <2> QED BY <1>7, <2>1
<1> QED BY <1>4, <1>5, <1>7, <1>8, <1>9

LEMMA PlayKeeps == ASSUME PipelineSound, Play PROVE PipelineSound'
<1> USE DEF genVars, queueVars, prodVars, consVars
<1>1. skey # None
      /\ UNCHANGED <<epoch, genVars, queueVars, prodVars, consVars, skey, sink, finished, failed, faults>>
      /\ signal' = TRUE
  BY DEF Play
<1>2. PICK n \in 1..Len(buffers) :
           /\ heard' \in Seq(SampleType)
           /\ buffers' \in Seq(SampleType) /\ Len(buffers') = Len(buffers) - n
           /\ \A k \in 1..Len(buffers') : buffers'[k] = buffers[n + k]
           /\ queued' = queued - n /\ delivered' = delivered + n
  BY PlayEffect
<1>3. Len(buffers) \in Nat /\ delivered \in Nat /\ queued = Len(buffers) /\ MaxBuffer \in Nat
  <2>1. buffers \in Seq(SampleType)
    BY DEF PipelineSound, SinkType
  <2> QED BY <2>1, LenProperties, BoundsAreNumbers DEF PipelineSound, SinkType, SinkSound
<1>4. GenType' /\ LedgerSound' /\ SpansSound' /\ UNCHANGED Generation
  BY <1>1, GenerationStays DEF PipelineSound, Generation
<1>5. QueueType' /\ ProdType' /\ ConsType' /\ KeysAgree'
  BY <1>1 DEF PipelineSound, QueueType, ProdType, ConsType, KeysAgree, Epoch
<1>6. SinkType'
  BY <1>1, <1>2, <1>3 DEF PipelineSound, SinkType, Epoch
<1>7. ProducersSound' /\ (NoOneAdds => NoOneAdds')
  <2>1. Quiet
    BY <1>1 DEF Quiet
  <2> QED BY <1>4, <2>1, QuietProducers DEF PipelineSound
<1>8. QueueSound'
  BY <1>1, <1>7, QueueStays DEF PipelineSound
<1>9. ConsumersSound'
  <2>1. \A x : Fits(x)' <=> Fits(x)
    BY <1>1 DEF Fits, Labelled
  <2>2. HeldFits(held[skey]) => HeldFits(held[skey])'
    BY <1>1, <1>7, <2>1 DEF HeldFits, First
  <2>3. ClosedSound => ClosedSound'
    BY <1>1, <1>7 DEF ClosedSound
  <2>4. HeldFits(held[skey]) => held[skey].count \in Nat
    BY BoundsAreNumbers DEF HeldFits, Fits, ItemType
  <2> QED BY <1>1, <1>2, <1>3, <2>2, <2>3, <2>4 DEF PipelineSound, ConsumersSound, HoldsItem, First
<1>10. SinkSound'
  <2>1. ~failed /\ sink.next = delivered + queued
        /\ \A k \in 1..Len(buffers) : buffers[k] = Speech!Sample(live, delivered + k - 1, src)
    BY <1>1 DEF PipelineSound, SinkSound
  <2>2. queued' = Len(buffers') /\ queued' <= MaxBuffer /\ sink.next = delivered' + queued'
    BY <1>2, <1>3, <2>1 DEF PipelineSound, SinkSound
  <2>3. ASSUME NEW k \in 1..Len(buffers')
        PROVE  buffers'[k] = Speech!Sample(live, delivered' + k - 1, src)
    <3>1. n + k \in 1..Len(buffers) /\ delivered + (n + k) - 1 = delivered' + k - 1
      BY <1>2, <1>3
    <3> QED BY <1>2, <2>1, <3>1
  <2>4. ~finished
    BY <1>1, <1>2, <1>3 DEF PipelineSound, SinkSound
  <2> QED BY <1>1, <2>1, <2>2, <2>3, <2>4 DEF SinkSound, Speech!Sample, Speech!SourceOf
<1> QED BY <1>4, <1>5, <1>6, <1>7, <1>8, <1>9, <1>10 DEF PipelineSound

-----------------------------------------------------------------------------
(* The owner of the session                                                *)

\* Producers of earlier generations do nothing to a new one, or to none.
LEMMA ForeignProducers ==
  ASSUME PipelineSound, epoch' = epoch + 1, live' \in {epoch', None},
         NEW p \in Producer, call'[p] = call[p], item'[p] = item[p],
         prod'[p] = prod[p] \/ (prod[p] = "blocked" /\ prod'[p] = "woken"),
         prod[p] \notin {"run", "put"}
  PROVE  CallSound(p)' /\ (Holder(p)' => call'[p].epoch # live')
<1>1. epoch \in Int /\ None \notin Nat
  BY BoundsAreNumbers DEF PipelineSound, GenType
<1>2. CallSound(p)
  BY DEF PipelineSound, ProducersSound
<1>3. ASSUME prod[p] # "idle"
      PROVE  call[p].epoch \in Nat /\ call[p].epoch <= epoch' /\ call[p].epoch # live'
  <2>1. call[p].epoch \in Epoch /\ call[p].epoch <= epoch
    BY <1>2, <1>3 DEF CallSound, CallType
  <2>2. call[p].epoch \in Nat
    BY <2>1, BoundsAreNumbers DEF Epoch
  <2> QED BY <1>1, <2>1, <2>2
<1> QED BY <1>2, <1>3 DEF CallSound, Holder, Pending

\* A new generation, or none, has no past.
LEMMA EmptyGeneration ==
  ASSUME PipelineSound, epoch < MaxEpoch, epoch' = epoch + 1, live' \in {epoch', None},
         ledger' = NewLedger, spans' = <<>>, src' = <<>>, released' = 0, out' = 0,
         qkey' = live', items' = <<>>, qsamples' = 0
  PROVE  /\ epoch' \in Epoch /\ GenType' /\ LedgerSound' /\ SpansSound'
         /\ QueueType' /\ QueueSound' /\ First' = 0
<1>1. epoch' \in Epoch
  <2>1. epoch \in -1..MaxEpoch /\ MaxEpoch \in Nat
    BY BoundsAreNumbers DEF PipelineSound, GenType
  <2> QED BY <2>1 DEF Epoch
<1>2. NewLedger \in [next : 0..MaxNative, seq : -1..MaxEvents, closed : BOOLEAN]
  BY BoundsAreNumbers DEF NewLedger
<1>3. spans' \in Seq([end : 1..MaxNative, label : Label]) /\ src' \in Seq(Label) /\ items' \in Seq(ItemType)
      /\ Len(spans') = 0 /\ Len(src') = 0 /\ Len(items') = 0
  BY EmptySeq
<1>4. GenType' /\ QueueType'
  <2>1. epoch' \in -1..MaxEpoch /\ live' \in Epoch \cup {None}
    BY <1>1 DEF Epoch
  <2> QED BY <1>2, <1>3, <2>1 DEF GenType, QueueType, Epoch
<1>5. LedgerSound'
  <2>1. ledger'.next = 0 /\ ledger'.closed = FALSE
    BY DEF NewLedger
  <2> QED BY <1>3, <2>1, NothingIsWorthNothing, RatesArePositive DEF LedgerSound, Emitted
<1>6. SpansSound'
  BY <1>3, NothingIsWorthNothing DEF SpansSound
<1>7. QueueSound' /\ First' = 0
  BY <1>3, BoundsAreNumbers DEF QueueSound, First
<1> QED BY <1>1, <1>4, <1>5, <1>6, <1>7

LEMMA StartKeeps == ASSUME PipelineSound, Start PROVE PipelineSound'
<1>1. /\ LoopFree /\ epoch < MaxEpoch /\ epoch' = epoch + 1
      /\ live' = epoch' /\ qkey' = epoch' /\ prod' = WokenProd(prod)
      /\ cons' = [WokenCons(cons) EXCEPT ![epoch'] = "ready"]
      /\ skey' = epoch' /\ sink' = NewSink /\ buffers' = <<>> /\ queued' = 0
      /\ delivered' = 0 /\ finished' = FALSE /\ failed' = FALSE /\ heard' = <<>>
      /\ UNCHANGED <<call, item, held, signal, faults>>
  BY DEF Start, NewGeneration, QueueReset
<1>2. /\ epoch' \in Epoch /\ GenType' /\ LedgerSound' /\ SpansSound'
      /\ QueueType' /\ QueueSound' /\ First' = 0
  <2>1. /\ ledger' = NewLedger /\ spans' = <<>> /\ src' = <<>> /\ released' = 0 /\ out' = 0
        /\ items' = <<>> /\ qsamples' = 0
    BY DEF Start, NewGeneration, QueueReset
  <2> QED BY <1>1, <2>1, EmptyGeneration
<1>3. ProdType'
  BY <1>1, WakeIsQuiet
<1>4. ProducersSound'
  <2>1. \A p \in Producer : prod'[p] = IF prod[p] = "blocked" THEN "woken" ELSE prod[p]
    BY <1>1 DEF WokenProd
  <2>2. \A p \in Producer : prod[p] \notin {"run", "put"}
    BY <1>1 DEF LoopFree, OnLoop
  <2>3. \A p \in Producer : CallSound(p)'
    BY <1>1, <2>1, <2>2, ForeignProducers
  <2>4. \A p \in Producer : Holder(p)' => Holder(p)
    BY <2>1 DEF Holder
  <2> QED BY <2>3, <2>4 DEF PipelineSound, ProducersSound
<1>5. ConsType' /\ cons'[epoch'] = "ready"
  <2>1. cons' \in [Epoch -> ConsState] /\ cons'[epoch'] = "ready"
    BY <1>1, <1>2 DEF PipelineSound, ConsType, ConsState, WokenCons
  <2> QED BY <1>1, <2>1 DEF PipelineSound, ConsType, Epoch
<1>6. SinkType'
  <2>1. <<>> \in Seq(SampleType)
    BY EmptySeq
  <2>2. NewSink \in [next : Nat, closed : BOOLEAN, eof : BOOLEAN]
    BY DEF NewSink
  <2>3. signal \in BOOLEAN /\ faults \in 0..MaxFaults
    BY DEF PipelineSound, SinkType
  <2>4. SampleType' = SampleType /\ Epoch' = Epoch
    BY DEF SampleType, Epoch
  <2>5. finished' \in BOOLEAN /\ failed' \in BOOLEAN /\ signal' \in BOOLEAN
    BY <1>1, <2>3
  <2>6. skey' \in Epoch \cup {None} /\ queued' \in Int /\ delivered' \in Nat /\ faults' \in 0..MaxFaults
    BY <1>1, <1>2, <2>3
  <2>7. buffers' \in Seq(SampleType) /\ heard' \in Seq(SampleType)
        /\ sink' \in [next : Nat, closed : BOOLEAN, eof : BOOLEAN]
    BY <1>1, <2>1, <2>2
  <2> QED BY <2>4, <2>5, <2>6, <2>7 DEF SinkType
<1>7. KeysAgree'
  BY <1>1 DEF KeysAgree
<1>8. ConsumersSound'
  BY <1>1, <1>2, <1>5 DEF ConsumersSound, ClosedSound, NewSink, HoldsItem
<1>9. SinkSound'
  BY <1>1, BoundsAreNumbers, EmptySeq DEF SinkSound, NewSink
<1> QED BY <1>2, <1>3, <1>4, <1>5, <1>6, <1>7, <1>8, <1>9 DEF PipelineSound

\* A cancellation ends the generation for every task at once; one producer may leave with it.
LEMMA CancelledKeeps ==
  ASSUME PipelineSound, LoopFree, NEW prod0, Cancelled(prod0),
         \/ prod0 = prod /\ UNCHANGED <<call, item>>
         \/ \E p \in Producer : /\ prod0 = [prod EXCEPT ![p] = "idle"]
                                /\ call' = [call EXCEPT ![p] = NoCall]
                                /\ item' = [item EXCEPT ![p] = NoItem]
  PROVE  PipelineSound'
<1>1. /\ epoch < MaxEpoch /\ epoch' = epoch + 1
      /\ live' = None /\ qkey' = None /\ prod' = WokenProd(prod0)
      /\ cons' = WokenCons(cons)
      /\ skey' = None /\ buffers' = <<>> /\ queued' = 0 /\ signal' = TRUE
      /\ heard' = <<>>
      /\ UNCHANGED <<sink, delivered, finished, failed, held, faults>>
  BY DEF Cancelled, NewGeneration, QueueReset, SinkCancelled
<1>2. /\ epoch' \in Epoch /\ GenType' /\ LedgerSound' /\ SpansSound'
      /\ QueueType' /\ QueueSound'
  <2>1. /\ ledger' = NewLedger /\ spans' = <<>> /\ src' = <<>> /\ released' = 0 /\ out' = 0
        /\ items' = <<>> /\ qsamples' = 0
    BY DEF Cancelled, NewGeneration, QueueReset
  <2> QED BY <1>1, <2>1, EmptyGeneration
<1>3. ProdType'
      /\ \A p \in Producer :
           \/ prod'[p] = "idle"
           \/ /\ prod'[p] = prod[p] \/ (prod[p] = "blocked" /\ prod'[p] = "woken")
              /\ call'[p] = call[p] /\ item'[p] = item[p]
  <2>1. CASE prod0 = prod /\ UNCHANGED <<call, item>>
    <3>1. ProdType'
      BY <1>1, <2>1, WakeIsQuiet
    <3> QED BY <1>1, <2>1, <3>1 DEF WokenProd
  <2>2. CASE \E p \in Producer : /\ prod0 = [prod EXCEPT ![p] = "idle"]
                                 /\ call' = [call EXCEPT ![p] = NoCall]
                                 /\ item' = [item EXCEPT ![p] = NoItem]
    <3>1. PICK q \in Producer : /\ prod0 = [prod EXCEPT ![q] = "idle"]
                                /\ call' = [call EXCEPT ![q] = NoCall]
                                /\ item' = [item EXCEPT ![q] = NoItem]
      BY <2>2
    <3>2. \A p \in Producer :
             /\ prod'[p] = IF p = q THEN "idle" ELSE IF prod[p] = "blocked" THEN "woken" ELSE prod[p]
             /\ p # q => call'[p] = call[p] /\ item'[p] = item[p]
      BY <1>1, <3>1 DEF WokenProd, PipelineSound, ProdType
    <3>3. ProdType'
      BY <1>1, <3>1, <3>2 DEF WokenProd, PipelineSound, ProdType, ProdState
    <3> QED BY <3>2, <3>3
  <2> QED BY <2>1, <2>2
<1>4. ProducersSound'
  <2>1. \A p \in Producer : prod[p] \notin {"run", "put"}
    BY DEF LoopFree, OnLoop
  <2>2. ASSUME NEW p \in Producer PROVE CallSound(p)'
    <3>1. CASE prod'[p] = "idle"
      BY <3>1 DEF CallSound, Holder, Pending
    <3>2. CASE prod'[p] # "idle"
      BY <1>1, <1>3, <2>1, <3>2, ForeignProducers
    <3> QED BY <3>1, <3>2
  <2>3. \A p \in Producer : Holder(p)' => Holder(p)
    BY <1>3 DEF Holder
  <2> QED BY <2>2, <2>3 DEF PipelineSound, ProducersSound
<1>5. ConsType'
  BY <1>1 DEF PipelineSound, ConsType, ConsState, WokenCons
<1>6. SinkType'
  <2>1. <<>> \in Seq(SampleType)
    BY EmptySeq
  <2> QED BY <1>1, <2>1 DEF PipelineSound, SinkType, Epoch, SampleType
<1>7. KeysAgree'
  BY <1>1 DEF KeysAgree
<1>8. ConsumersSound' /\ SinkSound'
  BY <1>1, BoundsAreNumbers, EmptySeq DEF ConsumersSound, SinkSound
<1> QED BY <1>2, <1>3, <1>4, <1>5, <1>6, <1>7, <1>8 DEF PipelineSound

LEMMA CancelKeeps == ASSUME PipelineSound, Cancel \/ Discontinuity PROVE PipelineSound'
BY CancelledKeeps DEF Cancel, Discontinuity

LEMMA CancelTaskKeeps == ASSUME PipelineSound, NEW p \in Producer, CancelTask(p) PROVE PipelineSound'
<1>1. LoopFree /\ call' = [call EXCEPT ![p] = NoCall] /\ item' = [item EXCEPT ![p] = NoItem]
  BY DEF CancelTask
<1>2. CASE Cancelled([prod EXCEPT ![p] = "idle"])
  BY <1>1, <1>2, CancelledKeeps
<1>3. CASE prod' = [prod EXCEPT ![p] = "idle"]
           /\ UNCHANGED <<epoch, genVars, queueVars, consVars, sinkVars, heard, faults>>
  BY <1>1, <1>3, LeaveIsQuiet, QuietSteps
<1> QED BY <1>2, <1>3 DEF CancelTask

-----------------------------------------------------------------------------
(* Steps that move the output                                              *)

SpanType == [end : 1..MaxNative, label : Label]

LEMMA SpansAreSpans ==
  ASSUME PipelineSound
  PROVE  /\ spans \in Seq(SpanType) /\ Len(spans) \in Nat
         /\ \A i \in 1..Len(spans) : spans[i] \in SpanType /\ spans[i].end \in Nat
         /\ src \in Seq(Label) /\ Len(src) \in Nat
         /\ out \in Nat /\ SourceOf(out) \in Nat
<1>1. spans \in Seq(SpanType) /\ src \in Seq(Label) /\ out \in Nat
  BY DEF PipelineSound, GenType, SpanType
<1>2. Len(spans) \in Nat /\ Len(src) \in Nat
  BY <1>1, LenProperties
<1>3. \A i \in 1..Len(spans) : spans[i] \in SpanType
  BY <1>1, ElementOfSeq
<1>4. \A i \in 1..Len(spans) : spans[i].end \in Nat
  BY <1>3, BoundsAreNumbers DEF SpanType
<1> QED BY <1>1, <1>2, <1>3, <1>4, SourceIsNat

\* A span is dropped only after its last output sample.
LEMMA DropSpanKeeps == ASSUME PipelineSound, NEW p \in Producer, DropSpan(p) PROVE PipelineSound'
<1>1. /\ spans # <<>> /\ Worth(spans[1].end) <= out /\ spans' = Tail(spans)
      /\ UNCHANGED <<epoch, live, ledger, src, released, out, queueVars, prodVars, consVars,
                     sinkVars, heard, faults>>
  <2>1. out \in Nat /\ Worth(spans[1].end) \in Nat
    <3>1. spans # <<>>
      BY DEF DropSpan
    <3>2. 1 \in 1..Len(spans)
      BY <3>1, SpansAreSpans, EmptySeq
    <3> QED BY <3>2, SpansAreSpans, WorthIsNat
  <2> QED BY <2>1 DEF DropSpan
<1>2. /\ Len(spans) \in Nat \ {0} /\ spans' \in Seq(SpanType) /\ Len(spans') = Len(spans) - 1
      /\ \A i \in 1..Len(spans') : spans'[i] = spans[i + 1]
  BY <1>1, SpansAreSpans, EmptySeq, HeadTailProperties
<1>3. /\ \A i \in 1..Len(spans) : spans[i].end \in Nat /\ spans[i].end <= Len(src)
      /\ spans[Len(spans)].end = Len(src)
      /\ \A i \in 1..(Len(spans) - 1) :
           \A m \in (spans[i].end + 1)..spans[i + 1].end : src[m] = spans[i + 1].label
      /\ Len(src) \in Nat /\ out \in Nat /\ SourceOf(out) \in Nat
  BY <1>1, SpansAreSpans DEF PipelineSound, SpansSound
<1>4. spans[1].end <= SourceOf(out)
  <2>1. 1 \in 1..Len(spans)
    BY <1>2
  <2> QED BY <1>1, <1>3, <2>1, WorthAndSource
<1>5. SpansSound'
  <2>1. ASSUME spans' = <<>> PROVE Worth(Len(src)) <= out
    <3>1. Len(spans) = 1
      BY <1>2, <2>1, EmptySeq
    <3> QED BY <1>1, <1>3, <3>1
  <2>2. ASSUME spans' # <<>>
        PROVE  /\ spans'[Len(spans')].end = Len(src)
               /\ \A m \in 1..spans'[1].end : SourceOf(out) < m => src[m] = spans'[1].label
    <3>1. Len(spans') \in Nat \ {0}
      BY <1>2, <2>2, EmptySeq
    <3>2. spans'[Len(spans')] = spans[Len(spans)] /\ spans'[1] = spans[2]
          /\ 1 \in 1..(Len(spans) - 1)
      BY <1>2, <3>1
    <3>3. \A m \in (spans[1].end + 1)..spans[2].end : src[m] = spans[2].label
      BY <1>3, <3>2
    <3>4. spans[1].end \in Nat /\ spans[2].end \in Nat
      BY <1>2, <1>3, <3>2
    <3>5. ASSUME NEW m \in 1..spans[2].end, SourceOf(out) < m PROVE src[m] = spans[2].label
      BY <1>3, <1>4, <3>3, <3>4, <3>5
    <3> QED BY <1>3, <3>2, <3>5
  <2>3. \A i \in 1..Len(spans') : spans'[i].end <= Len(src)
    BY <1>2, <1>3
  <2>4. ASSUME NEW i \in 1..(Len(spans') - 1)
        PROVE  \A m \in (spans'[i].end + 1)..spans'[i + 1].end : src[m] = spans'[i + 1].label
    <3>1. i + 1 \in 1..(Len(spans) - 1) /\ spans'[i] = spans[i + 1] /\ spans'[i + 1] = spans[i + 1 + 1]
      BY <1>2
    <3> QED BY <1>3, <3>1
  <2>5. UNCHANGED <<src, out>>
    BY <1>1
  <2> QED BY <2>1, <2>2, <2>3, <2>4, <2>5 DEF SpansSound
<1>6. GenType' /\ LedgerSound' /\ UNCHANGED Generation
  BY <1>1, <1>2 DEF PipelineSound, GenType, LedgerSound, Generation, SpanType, Epoch
<1>7. QueueType' /\ ProdType' /\ ConsType' /\ SinkType' /\ KeysAgree'
  BY <1>1 DEF PipelineSound, QueueType, ProdType, ConsType, SinkType, KeysAgree, Epoch,
              queueVars, prodVars, consVars, sinkVars
<1>8. ProducersSound' /\ (NoOneAdds => NoOneAdds')
  <2>1. Quiet
    BY <1>1 DEF Quiet, prodVars
  <2> QED BY <1>6, <2>1, QuietProducers DEF PipelineSound
<1>9. QueueSound'
  BY <1>1, <1>8, QueueStays DEF PipelineSound, queueVars
<1>10. ConsumersSound'
  <2>1. SameConsumer
    BY <1>1 DEF SameConsumer, consVars
  <2> QED BY <1>1, <1>8, <2>1, ConsumersStay DEF PipelineSound, queueVars, sinkVars
<1>11. SinkSound'
  BY <1>1, SinkStays DEF PipelineSound, SinkType, sinkVars
<1> QED BY <1>5, <1>6, <1>7, <1>8, <1>9, <1>10, <1>11 DEF PipelineSound

\* The device was given no more than the generation has put out.
LEMMA SinkWithinOutput ==
  ASSUME PipelineSound, skey # None
  PROVE  /\ sink.next <= out /\ delivered + Len(buffers) = sink.next
         /\ out <= Worth(Len(src)) /\ Worth(Len(src)) \in Nat
         /\ out \in Nat /\ sink.next \in Nat /\ delivered \in Nat /\ Len(buffers) \in Nat
<1>1. out \in Nat /\ sink.next \in Nat /\ delivered \in Nat /\ buffers \in Seq(SampleType)
      /\ Len(buffers) \in Nat
  <2>1. out \in Nat /\ sink.next \in Nat /\ delivered \in Nat /\ buffers \in Seq(SampleType)
    BY DEF PipelineSound, GenType, SinkType
  <2> QED BY <2>1, LenProperties
<1>2. First <= out /\ First \in Int
  BY <1>1, BoundsAreNumbers DEF PipelineSound, QueueSound, First
<1>3. sink.next <= out
  <2>1. cons[skey] \in ConsState
    BY DEF PipelineSound, SinkType, ConsType
  <2>2. CASE cons[skey] \in Awaits
    BY <1>1, <1>2, <2>2 DEF PipelineSound, ConsumersSound
  <2>3. CASE cons[skey] \in HoldsItem
    <3>1. HeldFits(held[skey])
      BY <2>3 DEF PipelineSound, ConsumersSound
    <3>2. held[skey].count \in Nat
      BY <3>1, BoundsAreNumbers DEF HeldFits, Fits, ItemType
    <3> QED BY <1>1, <1>2, <3>1, <3>2 DEF HeldFits
  <2>4. CASE cons[skey] \in {"drain", "done"}
    BY <1>1, <2>4 DEF PipelineSound, ConsumersSound, ClosedSound
  <2> QED BY <2>1, <2>2, <2>3, <2>4 DEF PipelineSound, ConsumersSound, ConsState, Awaits, HoldsItem
<1>4. out <= Worth(Len(src)) /\ Worth(Len(src)) \in Nat
  <2>1. PICK f \in BOOLEAN : f = ledger.closed
    BY DEF PipelineSound, GenType
  <2>2. released = Emitted(Len(src), f) /\ out <= released /\ Len(src) \in Nat /\ released \in Nat
    BY <2>1, SpansAreSpans DEF PipelineSound, LedgerSound, GenType
  <2>3. released <= Worth(Len(src)) /\ Worth(Len(src)) \in Nat
    BY <2>2, EmittedBounds, WorthIsNat
  <2> QED BY <1>1, <2>2, <2>3
<1> QED BY <1>1, <1>3, <1>4 DEF PipelineSound, SinkSound

\* An event that the ledger takes extends the labels of the native samples.
LEMMA AcceptEffect ==
  ASSUME PipelineSound, NEW p \in Producer, Accept(p)
  PROVE  /\ live \in Epoch /\ call[p].epoch = live /\ prod[p] = "lock" /\ ~ledger.closed
         /\ call[p] \in CallType /\ call[p].count \in Nat
         /\ (call[p].kind = "push" => call[p].label \in Label)
         /\ (call[p].kind = "finish" => call[p].count = 0)
         /\ call[p].at + call[p].count = Len(src) + call[p].count
         /\ Len(src) + call[p].count <= MaxNative
         /\ src' = src \o [i \in 1..call[p].count |-> call[p].label]
         /\ src' \in Seq(Label) /\ Len(src') = Len(src) + call[p].count
         /\ \A m \in 1..Len(src) : src'[m] = src[m]
         /\ \A m \in (Len(src) + 1)..Len(src') : src'[m] = call[p].label
         /\ (call[p].count = 0 => src' = src)
<1> DEFINE e == call[p]
           add == [i \in 1..e.count |-> e.label]
<1>1. prod[p] = "lock" /\ LedgerTakes(e) /\ src' = src \o add
  BY DEF Accept
<1>2. /\ e \in CallType /\ e.at + e.count <= MaxNative
      /\ (e.kind = "push" => e.label \in Label) /\ (e.kind = "finish" => e.count = 0)
  BY <1>1 DEF PipelineSound, ProducersSound, CallSound
<1>3. live \in Epoch /\ e.epoch = live /\ ~ledger.closed /\ e.at = Len(src)
  BY <1>1, <1>2 DEF LedgerTakes, CallType, PipelineSound, LedgerSound
<1>4. e.count \in Nat /\ e.kind \in {"push", "finish"}
  BY <1>2, BoundsAreNumbers DEF CallType
<1>5. src \in Seq(Label) /\ Len(src) \in Nat
  BY SpansAreSpans
<1> HIDE DEF e
<1>6. ASSUME e.count = 0 PROVE src' = src
  <2>1. add = <<>>
    BY <1>6
  <2> QED BY <1>1, <1>5, <2>1, ConcatEmptySeq
<1>7. /\ src' \in Seq(Label) /\ Len(src') = Len(src) + e.count
      /\ \A m \in 1..Len(src) : src'[m] = src[m]
      /\ \A m \in (Len(src) + 1)..Len(src') : src'[m] = e.label
  <2>1. CASE e.count = 0
    BY <1>5, <1>6, <2>1
  <2>2. CASE e.count # 0
    <3>1. e.label \in Label
      BY <1>2, <1>4, <2>2
    <3>2. add \in Seq(Label) /\ Len(add) = e.count /\ \A i \in 1..e.count : add[i] = e.label
      BY <1>4, <3>1
    <3> HIDE DEF add
    <3>3. /\ src' \in Seq(Label) /\ Len(src') = Len(src) + Len(add)
          /\ \A i \in 1..(Len(src) + Len(add)) :
               src'[i] = IF i <= Len(src) THEN src[i] ELSE add[i - Len(src)]
      BY <1>1, <1>5, <3>2, ConcatProperties
    <3>4. ASSUME NEW m \in (Len(src) + 1)..Len(src') PROVE src'[m] = e.label
      <4>1. m \in 1..(Len(src) + Len(add)) /\ ~(m <= Len(src)) /\ m - Len(src) \in 1..e.count
        BY <1>4, <1>5, <3>2, <3>3
      <4> QED BY <3>2, <3>3, <4>1
    <3>5. ASSUME NEW m \in 1..Len(src) PROVE src'[m] = src[m]
      <4>1. m \in 1..(Len(src) + Len(add)) /\ m <= Len(src)
        BY <1>4, <1>5, <3>2
      <4> QED BY <3>3, <4>1
    <3> QED BY <3>2, <3>3, <3>4, <3>5
  <2> QED BY <2>1, <2>2
<1> QED BY <1>1, <1>2, <1>3, <1>4, <1>6, <1>7 DEF e

\* The span of an event covers its samples, or extends that of the same segment.
LEMMA AcceptedSpans ==
  ASSUME PipelineSound, NEW p \in Producer, Accept(p)
  PROVE  spans' \in Seq(SpanType) /\ SpansSound'
<1> DEFINE e == call[p]
<1>1. /\ e.count \in Nat /\ (e.count # 0 => e.label \in Label)
      /\ Len(src) + e.count <= MaxNative
      /\ Len(src') = Len(src) + e.count
      /\ \A m \in 1..Len(src) : src'[m] = src[m]
      /\ \A m \in (Len(src) + 1)..Len(src') : src'[m] = e.label
      /\ (e.count = 0 => src' = src)
  BY AcceptEffect DEF CallType
<1>2. spans' = IF e.count = 0 THEN spans ELSE Extended(spans, Len(src'), e.label)
  <2>1. e.at + e.count = Len(src')
    BY <1>1, AcceptEffect
  <2> QED BY <2>1 DEF Accept
<1>3. out' = out
  BY DEF Accept
<1> HIDE DEF e
<1>4. /\ spans \in Seq(SpanType) /\ Len(spans) \in Nat
      /\ \A i \in 1..Len(spans) : spans[i] \in SpanType /\ spans[i].end \in Nat
      /\ Len(src) \in Nat /\ out \in Nat /\ SourceOf(out) \in Nat
  BY SpansAreSpans
<1>5. CASE e.count = 0
  <2>1. UNCHANGED <<spans, src, out>>
    BY <1>1, <1>2, <1>3, <1>5
  <2>2. SpansSound
    BY DEF PipelineSound
  <2> QED BY <1>4, <2>1, <2>2 DEF SpansSound
<1>6. CASE e.count # 0
  <2> DEFINE x == [end |-> Len(src'), label |-> e.label]
             n == Len(spans)
  <2>1. x \in SpanType /\ x.end = Len(src') /\ x.label = e.label
    <3>1. Len(src') \in 1..MaxNative /\ e.label \in Label
      <4>1. MaxNative \in Nat
        BY BoundsAreNumbers
      <4>2. e.count > 0 /\ Len(src') = Len(src) + e.count /\ Len(src) + e.count <= MaxNative
        BY <1>1, <1>6
      <4> QED BY <1>1, <1>4, <1>6, <4>1, <4>2
    <3> QED BY <3>1 DEF SpanType
  <2>2. Len(src) < Len(src') /\ Len(src') \in Nat
    BY <1>1, <1>4, <1>6
  <2>3. /\ spans # <<>> => /\ n >= 1 /\ spans[n].end = Len(src)
                           /\ \A m \in 1..spans[1].end : SourceOf(out) < m => src[m] = spans[1].label
        /\ \A i \in 1..n : spans[i].end <= Len(src)
        /\ \A i \in 1..(n - 1) :
             \A m \in (spans[i].end + 1)..spans[i + 1].end : src[m] = spans[i + 1].label
    <3>1. spans # <<>> => n >= 1
      BY <1>4, EmptySeq
    <3>2. SpansSound
      BY DEF PipelineSound
    <3> QED BY <3>1, <3>2 DEF SpansSound
  \* In the spans before the last the labels stay.
  <2>4. \A i \in 1..(n - 1) :
          \A m \in (spans[i].end + 1)..spans[i + 1].end : src'[m] = spans[i + 1].label
    <3> SUFFICES ASSUME NEW i \in 1..(n - 1), NEW m \in (spans[i].end + 1)..spans[i + 1].end
                 PROVE  src'[m] = spans[i + 1].label
      OBVIOUS
    <3>1. spans[i].end \in Nat /\ spans[i + 1].end \in Nat /\ spans[i + 1].end <= Len(src)
      BY <1>4, <2>3
    <3>2. m \in 1..Len(src)
      <4>1. Len(src) \in Nat
        BY <1>4
      <4>2. m \in Nat /\ m >= 1 /\ m <= spans[i + 1].end
        BY <3>1
      <4> QED BY <3>1, <4>1, <4>2
    <3>3. src'[m] = src[m]
      BY <1>1, <3>2
    <3>4. src[m] = spans[i + 1].label
      BY <2>3
    <3> QED BY <3>3, <3>4
  <2>5. spans # <<>> =>
          \A m \in 1..spans[1].end : SourceOf(out) < m => src'[m] = spans[1].label
    <3> SUFFICES ASSUME spans # <<>>, NEW m \in 1..spans[1].end, SourceOf(out) < m
                 PROVE  src'[m] = spans[1].label
      OBVIOUS
    <3>1. spans[1].end \in Nat /\ spans[1].end <= Len(src)
      BY <1>4, <2>3
    <3> QED BY <1>1, <1>4, <2>3, <3>1
  <2> HIDE DEF x
  <2>6. CASE spans # <<>> /\ spans[n].label = e.label
    <3>1. spans' = [spans EXCEPT ![n] = x] /\ n \in 1..n
      BY <1>2, <1>4, <1>6, <2>3, <2>6 DEF Extended, x
    <3>2. /\ spans' \in Seq(SpanType) /\ Len(spans') = n
          /\ \A i \in 1..n : spans'[i] = IF i = n THEN x ELSE spans[i]
      BY <1>4, <2>1, <3>1, ExceptSeq
    <3> DEFINE t == spans'
    <3>3. spans' # <<>> /\ spans'[n].end = Len(src')
      BY <2>1, <2>6, <3>1, <3>2, EmptySeq
    <3>4. \A i \in 1..n : spans'[i].end <= Len(src')
      BY <1>4, <2>1, <2>2, <2>3, <3>2
    <3>5. ASSUME NEW m \in 1..spans'[1].end, SourceOf(out) < m PROVE src'[m] = spans'[1].label
      <4>1. CASE n = 1
        <5>1. spans'[1] = x /\ spans[1].end = Len(src) /\ spans[1].label = e.label
          BY <2>3, <2>6, <3>1, <3>2, <4>1
        <5> QED BY <1>1, <1>4, <2>1, <2>5, <2>6, <3>5, <5>1
      <4>2. CASE n # 1
        <5>1. spans'[1] = spans[1]
          BY <3>1, <3>2, <4>2
        <5> QED BY <2>5, <2>6, <3>5, <5>1
      <4> QED BY <4>1, <4>2
    <3>6. ASSUME NEW i \in 1..(n - 1), NEW m \in (spans'[i].end + 1)..spans'[i + 1].end
          PROVE  src'[m] = spans'[i + 1].label
      <4>1. i \in 1..n /\ i + 1 \in 1..n /\ spans'[i] = spans[i]
            /\ spans[i].end \in Nat /\ spans[i + 1].end \in Nat
        BY SMTT(30), <1>4, <3>2
      <4>2. CASE i + 1 = n
        <5>1. spans'[i + 1] = x /\ spans[i + 1].end = Len(src) /\ spans[i + 1].label = e.label
          BY <2>3, <2>6, <3>2, <4>1, <4>2
        <5>2. CASE m <= Len(src)
          BY SMTT(30), <1>4, <2>1, <2>4, <3>6, <4>1, <5>1, <5>2
        <5>3. CASE m > Len(src)
          BY SMTT(30), <1>1, <1>4, <2>1, <2>2, <3>6, <4>1, <5>1, <5>3
        <5> QED BY <1>4, <4>1, <5>2, <5>3
      <4>3. CASE i + 1 # n
        <5>1. spans'[i + 1] = spans[i + 1]
          BY <3>2, <4>1, <4>3
        <5> QED BY <2>4, <3>6, <4>1, <5>1
      <4> QED BY <4>2, <4>3
    <3> QED BY <1>3, <3>2, <3>3, <3>4, <3>5, <3>6 DEF SpansSound
  <2>7. CASE ~(spans # <<>> /\ spans[n].label = e.label)
    <3>1. spans' = Append(spans, x)
      BY <1>2, <1>6, <2>7 DEF Extended, x
    <3>2. /\ spans' \in Seq(SpanType) /\ spans' # <<>> /\ Len(spans') = n + 1
          /\ \A i \in 1..n : spans'[i] = spans[i]
          /\ spans'[n + 1] = x
      BY <1>4, <2>1, <3>1, AppendProperties
    <3>3. \A i \in 1..Len(spans') : spans'[i].end <= Len(src')
      <4>1. \A i \in 1..Len(spans') : i = n + 1 \/ i \in 1..n
        BY <1>4, <3>2
      <4> QED BY <1>4, <2>1, <2>2, <2>3, <3>2, <4>1
    <3>4. ASSUME NEW m \in 1..spans'[1].end, SourceOf(out) < m PROVE src'[m] = spans'[1].label
      <4>1. CASE spans = <<>>
        <5>1. n = 0 /\ spans'[1] = x
          BY <3>2, <4>1, EmptySeq
        <5>2. Len(src) <= SourceOf(out)
          BY <1>4, <4>1, WorthAndSource DEF PipelineSound, SpansSound
        <5> QED BY <1>1, <1>4, <2>1, <3>4, <5>1, <5>2
      <4>2. CASE spans # <<>>
        <5>1. spans'[1] = spans[1]
          BY <1>4, <2>3, <3>2, <4>2
        <5> QED BY <2>5, <3>4, <4>2, <5>1
      <4> QED BY <4>1, <4>2
    <3>5. ASSUME NEW i \in 1..(Len(spans') - 1), NEW m \in (spans'[i].end + 1)..spans'[i + 1].end
          PROVE  src'[m] = spans'[i + 1].label
      <4>1. i \in 1..n /\ spans'[i] = spans[i] /\ spans[i].end \in Nat
        BY <1>4, <3>2
      <4>2. CASE i = n
        <5>1. spans # <<>>
          BY <4>1, <4>2, EmptySeq
        <5>2. spans'[i + 1] = x /\ spans[i].end = Len(src)
          BY <2>3, <3>2, <4>2, <5>1
        <5> QED BY <1>1, <1>4, <2>1, <3>5, <4>1, <5>2
      <4>3. CASE i # n
        <5>1. i \in 1..(n - 1) /\ i + 1 \in 1..n /\ spans'[i + 1] = spans[i + 1]
          BY <1>4, <3>2, <4>1, <4>3
        <5> QED BY <2>4, <3>5, <4>1, <5>1
      <4> QED BY <4>2, <4>3
    <3> QED BY <1>3, <2>1, <3>2, <3>3, <3>4, <3>5 DEF SpansSound
  <2> QED BY <2>6, <2>7
<1> QED BY <1>5, <1>6

LEMMA AcceptKeeps == ASSUME PipelineSound, NEW p \in Producer, Accept(p) PROVE PipelineSound'
<1> DEFINE e == call[p]
<1>1. /\ prod[p] = "lock" /\ LockFree
      /\ ledger' = [next |-> e.at + e.count, seq |-> e.seq, closed |-> e.kind = "finish"]
      /\ released' = Emitted(e.at + e.count, e.kind = "finish")
      /\ prod' = [prod EXCEPT ![p] = "run"]
      /\ UNCHANGED <<epoch, live, out, queueVars, call, item, consVars, sinkVars, heard, faults>>
  BY DEF Accept
<1>2. /\ live \in Epoch /\ e.epoch = live /\ ~ledger.closed
      /\ e \in CallType /\ e.count \in Nat
      /\ e.at + e.count = Len(src')
      /\ Len(src') <= MaxNative /\ Len(src) <= Len(src') /\ Len(src) \in Nat /\ Len(src') \in Nat
      /\ src' \in Seq(Label)
      /\ \A m \in 1..Len(src) : src'[m] = src[m]
  <2>1. /\ live \in Epoch /\ e.epoch = live /\ ~ledger.closed
        /\ e \in CallType /\ e.count \in Nat
        /\ src' \in Seq(Label)
        /\ \A m \in 1..Len(src) : src'[m] = src[m]
    BY AcceptEffect
  <2>2. /\ e.at + e.count = Len(src) + e.count /\ Len(src) + e.count <= MaxNative
        /\ Len(src') = Len(src) + e.count
    BY AcceptEffect
  <2>3. Len(src) \in Nat
    BY SpansAreSpans
  <2> HIDE DEF e
  <2> QED BY <2>1, <2>2, <2>3
<1>3. PICK f \in BOOLEAN : f = (e.kind = "finish")
  OBVIOUS
<1>4. /\ ledger'.next = Len(src') /\ ledger'.closed = f /\ released' = Emitted(Len(src'), f)
      /\ ledger' \in [next : 0..MaxNative, seq : -1..MaxEvents, closed : BOOLEAN]
  <2>1. Len(src') \in 0..MaxNative /\ e.seq \in -1..MaxEvents
    <3>1. MaxNative \in Nat /\ MaxEvents \in Nat
      BY BoundsAreNumbers
    <3>2. e.seq \in 0..MaxEvents
      BY <1>2 DEF CallType
    <3> QED BY <1>2, <3>1, <3>2
  <2> QED BY <1>1, <1>2, <1>3, <2>1
<1>5. GenType' /\ SpansSound'
  <2>1. spans' \in Seq(SpanType) /\ SpansSound'
    BY AcceptedSpans
  <2>2. released' \in Nat
    BY <1>2, <1>4, EmittedBounds
  <2>3. epoch' \in -1..MaxEpoch /\ live' \in Epoch \cup {None} /\ out' \in Nat
    BY <1>1 DEF PipelineSound, GenType
  <2> QED BY <1>2, <1>4, <2>1, <2>2, <2>3 DEF GenType, SpanType, Epoch
<1>6. LedgerSound'
  <2>1. released = Emitted(Len(src), FALSE) /\ out <= released /\ out \in Nat /\ released \in Nat
    BY <1>2 DEF PipelineSound, LedgerSound, GenType, Emitted
  <2>2. released <= released' /\ released' \in Nat
    BY <1>2, <1>4, <2>1, EmittedGrows, EmittedBounds
  <2>3. released' = Emitted(ledger'.next, ledger'.closed)
    BY <1>4
  <2>4. out' <= released' /\ Len(src') = ledger'.next
    <3>1. out' = out /\ Len(src') = ledger'.next
      BY <1>1, <1>4
    <3>2. out <= released /\ out \in Nat /\ released \in Nat
      BY DEF PipelineSound, LedgerSound, GenType
    <3> QED BY <2>2, <3>1, <3>2
  <2> QED BY <2>3, <2>4, Zenon DEF LedgerSound
<1>7. \A x : Fits(x) => Fits(x)'
  BY <1>1, <1>2, FitsStays
<1>8. ProdType' /\ \A q \in Producer : prod'[q] = IF q = p THEN "run" ELSE prod[q]
  BY <1>1 DEF PipelineSound, ProdType, ProdState
<1>9. ProducersSound'
  <2>1. \A q \in Producer : prod[q] \in {"idle", "lock"}
    BY <1>1 DEF LockFree
  <2>2. ASSUME NEW q \in Producer PROVE CallSound(q)'
    <3>1. CallSound(q) /\ UNCHANGED <<epoch, live, call>>
      BY <1>1 DEF PipelineSound, ProducersSound
    <3>2. CASE q = p
      <4>1. prod[p] = "lock" /\ prod'[p] = "run" /\ e.epoch = live
        BY <1>1, <1>2, <1>8
      <4>2. ledger'.closed <=> call[p].kind = "finish"
        BY <1>1
      <4> QED BY <3>1, <3>2, <4>1, <4>2 DEF CallSound, Holder, Pending
    <3>3. CASE q # p
      BY <1>8, <2>1, <3>1, <3>3 DEF CallSound, Holder, Pending
    <3> QED BY <3>2, <3>3
  <2>3. \A q \in Producer : Holder(q)' => q = p
    BY <1>8, <2>1 DEF Holder
  <2> QED BY <2>2, <2>3 DEF ProducersSound
<1>10. QueueSound'
  <2>1. UNCHANGED <<items, qsamples, out>>
    BY <1>1 DEF queueVars
  <2>2. \A i \in 1..Len(items) : Fits(items[i]) /\ items[i].kind # "eof"
    BY <1>2 DEF PipelineSound, QueueSound, Fits
  <2> QED BY <1>7, <2>1, <2>2 DEF PipelineSound, QueueSound, First
<1>11. ConsumersSound'
  <2>1. UNCHANGED <<cons, held, skey, sink, items, qsamples, out, queued>>
    BY <1>1 DEF queueVars, consVars, sinkVars
  <2>2. \A x : HeldFits(x) => HeldFits(x)'
    BY <1>2, <1>7, <2>1 DEF HeldFits, Fits, First
  <2>3. skey # None => ClosedSound'
    BY <1>2, <2>1 DEF PipelineSound, ConsumersSound, ClosedSound
  <2> QED BY <2>1, <2>2, <2>3 DEF PipelineSound, ConsumersSound, First
<1>12. SinkSound'
  <2>1. UNCHANGED <<skey, sink, buffers, queued, delivered, finished, failed, live>>
    BY <1>1 DEF sinkVars
  <2>2. ASSUME skey # None, NEW k \in 1..Len(buffers)
        PROVE  Speech!Sample(live, delivered + k - 1, src') = Speech!Sample(live, delivered + k - 1, src)
    <3>1. delivered + k - 1 \in Nat /\ ~(Worth(Len(src)) <= delivered + k - 1)
      BY <2>2, SinkWithinOutput
    <3>2. SourceOf(delivered + k - 1) \in Nat /\ ~(Len(src) <= SourceOf(delivered + k - 1))
      BY <1>2, <3>1, SourceIsNat, WorthAndSource
    <3>3. src'[SourceOf(delivered + k - 1) + 1] = src[SourceOf(delivered + k - 1) + 1]
      <4>1. SourceOf(delivered + k - 1) + 1 \in 1..Len(src)
        BY <1>2, <3>2
      <4> QED BY <1>2, <4>1
    <3> QED BY <3>3 DEF Speech!Sample, Speech!SourceOf, SourceOf
  <2>3. ASSUME skey # None, NEW k \in 1..Len(buffers)
        PROVE  buffers[k] = Speech!Sample(live, delivered + k - 1, src')
    BY <2>2, <2>3 DEF PipelineSound, SinkSound
  <2>4. \A j : Speech!Sample(live, j, src)' = Speech!Sample(live', j, src')
    BY DEF Speech!Sample, Speech!SourceOf
  <2> QED BY <2>1, <2>3, <2>4 DEF PipelineSound, SinkSound, Speech!Sample, Speech!SourceOf
<1>13. QueueType' /\ ConsType' /\ SinkType' /\ KeysAgree'
  BY <1>1 DEF PipelineSound, QueueType, ConsType, SinkType, KeysAgree, Epoch, queueVars, consVars, sinkVars
<1> QED BY <1>5, <1>6, <1>8, <1>9, <1>10, <1>11, <1>12, <1>13 DEF PipelineSound

\* What is put is next: it comes after everything queued, and after the end of the output
\* nobody puts anything.
LEMMA PutKeeps == ASSUME PipelineSound, NEW p \in Producer, Put(p) PROVE PipelineSound'
<1>0. PICK x : x = item[p]
  OBVIOUS
<1>1. /\ prod[p] \in {"put", "woken"} /\ x.epoch = qkey
      /\ Len(items) < MaxItems /\ qsamples + x.count <= MaxSamples
      /\ items' = Append(items, x) /\ qsamples' = qsamples + x.count
      /\ out' = x.at + x.count
      /\ prod' = [WokenProd(prod) EXCEPT ![p] = IF x.kind = "eof" THEN "idle" ELSE "run"]
      /\ cons' = WokenCons(cons)
      /\ call' = (IF x.kind = "eof" THEN [call EXCEPT ![p] = NoCall] ELSE call)
      /\ item' = [item EXCEPT ![p] = NoItem]
      /\ UNCHANGED <<epoch, live, ledger, spans, src, released, qkey, held, sinkVars, heard, faults>>
  BY <1>0 DEF Put, Putting, Room
<1>2. CallSound(p) /\ Holder(p) /\ \A q \in Producer : Holder(q) => q = p
  <2>1. Holder(p)
    BY <1>1 DEF Holder
  <2> QED BY <2>1 DEF PipelineSound, ProducersSound
<1>3. /\ x \in ItemType /\ x.epoch = live /\ call[p].epoch = live
      /\ Fits(x) /\ x.at = out /\ out + x.count <= released
      /\ (ledger.closed <=> call[p].kind = "finish")
  <2>1. Pending(p) /\ qkey = live
    BY <1>1 DEF Pending, PipelineSound, KeysAgree
  <2> QED BY <1>0, <1>1, <1>2, <2>1 DEF CallSound
<1>4. ~NoOneAdds
  BY <1>2, <1>3 DEF NoOneAdds
<1>5. x.count \in Nat /\ out \in Nat /\ out' = out + x.count /\ x.kind \in {"chunk", "eof"}
      /\ qsamples \in 0..MaxSamples /\ MaxSamples \in Nat
  BY <1>1, <1>3, BoundsAreNumbers DEF ItemType, PipelineSound, GenType, QueueSound
<1>6. \A y : Fits(y)' <=> Fits(y)
  BY <1>1 DEF Fits, Labelled
<1>7. GenType'
  <2>1. UNCHANGED <<epoch, live, ledger, spans, src, released>>
    BY <1>1
  <2>2. out' \in Nat
    BY <1>5
  <2> QED BY <2>1, <2>2 DEF PipelineSound, GenType
<1>8. LedgerSound'
  <2>1. out' <= released'
    BY <1>1, <1>3, <1>5
  <2> QED BY <1>1, <2>1 DEF PipelineSound, LedgerSound
<1>9. SpansSound'
  <2>1. /\ SourceOf(out) \in Nat /\ SourceOf(out') \in Nat /\ SourceOf(out) <= SourceOf(out')
        /\ Worth(Len(src)) \in Nat
    <3>1. out' \in Nat /\ out <= out'
      BY <1>5
    <3>2. Len(src) \in Nat
      BY SpansAreSpans
    <3> QED BY <1>5, <3>1, <3>2, SourceIsNat, SourceGrows, WorthIsNat
  <2>2. UNCHANGED <<spans, src>>
    BY <1>1
  <2>3. spans # <<>> => spans[1].end \in Nat
    BY SpansAreSpans, EmptySeq
  <2>4. ASSUME spans = <<>> PROVE Worth(Len(src)) <= out'
    BY <1>5, <2>1, <2>4 DEF PipelineSound, SpansSound
  <2>5. ASSUME spans # <<>>, NEW m \in 1..spans[1].end, SourceOf(out') < m
        PROVE  src[m] = spans[1].label
    BY <2>1, <2>3, <2>5 DEF PipelineSound, SpansSound
  <2> QED BY <2>2, <2>4, <2>5 DEF PipelineSound, SpansSound
<1>10. ProdType' /\ \A q \in Producer :
         /\ q = p => prod'[q] = IF x.kind = "eof" THEN "idle" ELSE "run"
         /\ q # p => prod'[q] = IF prod[q] = "blocked" THEN "woken" ELSE prod[q]
         /\ q # p => call'[q] = call[q] /\ item'[q] = item[q]
         /\ x.kind # "eof" => call'[q] = call[q]
  BY <1>1 DEF PipelineSound, ProdType, ProdState, WokenProd
<1>11. \A q \in Producer \ {p} : prod[q] \in {"idle", "lock"} /\ prod'[q] = prod[q]
  <2>1. \A q \in Producer \ {p} : prod[q] \in ProdState /\ ~Holder(q)
    BY <1>2 DEF PipelineSound, ProdType
  <2> QED BY <1>10, <2>1 DEF Holder, ProdState
<1>12. ProducersSound'
  <2>1. ASSUME NEW q \in Producer PROVE CallSound(q)'
    <3>1. CASE q # p
      <4>1. CallSound(q) /\ UNCHANGED <<epoch, live>>
        BY <1>1 DEF PipelineSound, ProducersSound
      <4> QED BY <1>10, <1>11, <3>1, <4>1 DEF CallSound, Holder, Pending
    <3>2. CASE q = p /\ x.kind = "eof"
      BY <1>10, <3>2 DEF CallSound, Holder, Pending
    <3>3. CASE q = p /\ x.kind # "eof"
      <4>1. prod'[p] = "run" /\ call'[p] = call[p] /\ prod[p] # "idle" /\ UNCHANGED <<epoch, live, ledger>>
        BY <1>1, <1>10, <3>3
      <4> QED BY <1>2, <1>3, <3>3, <4>1 DEF CallSound, Holder, Pending
    <3> QED BY <3>1, <3>2, <3>3
  <2>2. \A q \in Producer : Holder(q)' => q = p
    BY <1>11 DEF Holder
  <2> QED BY <2>1, <2>2 DEF ProducersSound
<1>13. x.kind = "eof" => NoOneAdds'
  BY <1>10, <1>11 DEF NoOneAdds, Holder
<1>14. /\ items \in Seq(ItemType) /\ Len(items) \in Nat
       /\ items' \in Seq(ItemType) /\ items' # <<>> /\ Len(items') = Len(items) + 1
       /\ \A i \in 1..Len(items) : items'[i] = items[i]
       /\ items'[Len(items) + 1] = x
  <2>1. items \in Seq(ItemType)
    BY DEF PipelineSound, QueueType
  <2> QED BY <1>1, <1>3, <2>1, LenProperties, AppendProperties
<1>15. QueueType' /\ First' = First
  <2>1. qkey' \in Epoch \cup {None}
    BY <1>1 DEF PipelineSound, QueueType
  <2>2. qsamples' = qsamples + x.count /\ qsamples' \in Int
    BY <1>1, <1>5
  <2>3. First' = First
    BY <1>5, <2>2 DEF First
  <2> QED BY <1>14, <2>1, <2>2, <2>3 DEF QueueType
<1>16. QueueSound'
  <2>1. Len(items') <= MaxItems /\ qsamples' \in 0..MaxSamples
    <3>1. MaxItems \in Nat
      BY BoundsAreNumbers
    <3> QED BY <1>1, <1>5, <1>14, <3>1
  <2>2. items'[1].at = First'
    <3>1. CASE items = <<>>
      <4>1. Len(items) = 0 /\ qsamples = 0
        BY <3>1, EmptySeq DEF PipelineSound, QueueSound
      <4> QED BY <1>3, <1>5, <1>14, <1>15, <4>1 DEF First
    <3>2. CASE items # <<>>
      <4>1. 1 \in 1..Len(items)
        BY <1>14, <3>2, EmptySeq
      <4> QED BY <1>14, <1>15, <3>2, <4>1 DEF PipelineSound, QueueSound
    <3> QED BY <3>1, <3>2
  <2>3. items'[Len(items')].at + items'[Len(items')].count = out'
    BY <1>1, <1>14
  <2>4. ASSUME NEW i \in 1..Len(items')
        PROVE  /\ Fits(items[i])' /\ items'[i].at + items'[i].count <= out'
               /\ items'[i].kind = "eof" => i = Len(items') /\ NoOneAdds'
    <3>1. CASE i \in 1..Len(items)
      <4>1. Fits(items[i]) /\ items[i].at + items[i].count <= out /\ items[i].kind # "eof"
        BY <1>4, <3>1 DEF PipelineSound, QueueSound
      <4>2. items[i].at \in Nat /\ items[i].count \in Nat
        BY <4>1, BoundsAreNumbers DEF Fits, ItemType
      <4>3. items'[i] = items[i]
        BY <1>14, <3>1
      <4>4. Fits(items[i])'
        BY <1>6, <4>1, <4>3
      <4> QED BY SMTT(30), <1>5, <4>1, <4>2, <4>3, <4>4
    <3>2. CASE i = Len(items')
      BY <1>1, <1>3, <1>5, <1>6, <1>13, <1>14, <3>2
    <3> QED BY <1>14, <3>1, <3>2
  <2>5. ASSUME NEW i \in 1..(Len(items') - 1)
        PROVE  items'[i + 1].at = items'[i].at + items'[i].count
    <3>1. CASE i = Len(items)
      <4>1. items # <<>>
        BY <3>1, EmptySeq
      <4> QED BY <1>3, <1>14, <3>1, <4>1 DEF PipelineSound, QueueSound
    <3>2. CASE i # Len(items)
      <4>1. i \in 1..(Len(items) - 1) /\ i + 1 \in 1..Len(items)
        BY <1>14, <3>2
      <4> QED BY <1>14, <4>1 DEF PipelineSound, QueueSound
    <3> QED BY <3>1, <3>2
  <2> QED BY <1>14, <2>1, <2>2, <2>3, <2>4, <2>5 DEF QueueSound
<1>17. ConsType' /\ SameConsumer
  <2>1. UNCHANGED <<held, skey>>
    BY <1>1 DEF sinkVars
  <2> QED BY <1>1, <2>1, WakeKeepsConsumers
<1>18. ConsumersSound'
  <2>1. SUFFICES ASSUME skey # None PROVE ConsumersSound'
    BY <1>1 DEF ConsumersSound, sinkVars
  <2>2. UNCHANGED <<skey, sink, queued, ledger, held>>
    BY <1>1 DEF sinkVars
  <2>3. \A y : HeldFits(y) => HeldFits(y)'
    BY <1>4, <1>6, <1>15, <2>2 DEF HeldFits
  <2>4. ClosedSound' /\ ClosedSound
    BY <1>4, <2>1, <2>2 DEF PipelineSound, ConsumersSound, ClosedSound
  <2>5. CASE cons'[skey] = cons[skey]
    BY <1>15, <2>1, <2>2, <2>3, <2>4, <2>5 DEF PipelineSound, ConsumersSound
  <2>6. CASE cons[skey] \in Awaits /\ cons'[skey] \in Awaits
    BY <1>15, <2>1, <2>2, <2>4, <2>6 DEF PipelineSound, ConsumersSound, Awaits, HoldsItem
  <2>7. cons'[skey] = cons[skey] \/ (cons[skey] \in Awaits /\ cons'[skey] \in Awaits)
    <3>1. skey \in Epoch
      BY <2>1 DEF PipelineSound, SinkType
    <3> QED BY <1>1, <3>1 DEF WokenCons, Awaits
  <2> QED BY <2>5, <2>6, <2>7
<1>19. SinkSound' /\ SinkType' /\ KeysAgree'
  <2>1. UNCHANGED <<qkey, live, epoch, src, sinkVars, heard, faults>>
    BY <1>1
  <2>2. SinkSound'
    BY <2>1, SinkStays DEF PipelineSound, SinkType, sinkVars
  <2> QED BY <2>1, <2>2 DEF PipelineSound, SinkType, KeysAgree, sinkVars, Epoch
<1> QED BY <1>7, <1>8, <1>9, <1>10, <1>12, <1>15, <1>16, <1>17, <1>18, <1>19 DEF PipelineSound

\* What is taken from the queue comes next for the device.
LEMMA GetKeeps == ASSUME PipelineSound, NEW c \in Epoch, Get(c) PROVE PipelineSound'
<1>0. PICK x : x = Head(items)
  OBVIOUS
<1>1. /\ cons[c] \in {"ready", "run"} /\ c = qkey /\ items # <<>>
      /\ items' = Tail(items) /\ qsamples' = qsamples - x.count
      /\ held' = [held EXCEPT ![c] = x]
      /\ prod' = WokenProd(prod)
      /\ cons' = [WokenCons(cons) EXCEPT ![c] = IF x.kind = "eof" THEN "submit" ELSE "hand"]
      /\ UNCHANGED <<epoch, genVars, qkey, call, item, sinkVars, heard, faults>>
  BY <1>0 DEF Get, Getting
<1>2. /\ items \in Seq(ItemType) /\ Len(items) \in Nat \ {0} /\ x = items[1] /\ x \in ItemType
      /\ items' \in Seq(ItemType) /\ Len(items') = Len(items) - 1
      /\ \A i \in 1..Len(items') : items'[i] = items[i + 1]
  <2>1. items \in Seq(ItemType)
    BY DEF PipelineSound, QueueType
  <2>2. Len(items) \in Nat \ {0} /\ 1 \in 1..Len(items)
    BY <1>1, <2>1, EmptySeq
  <2>3. x = items[1] /\ x \in ItemType
    BY <1>0, <1>1, <2>1, <2>2, ElementOfSeq
  <2> QED BY <1>1, <2>1, <2>2, <2>3, HeadTailProperties
<1>3. /\ x.at = First /\ Fits(x)
      /\ x.kind = "eof" => Len(items) = 1 /\ NoOneAdds
      /\ x.count \in Nat /\ x.kind \in {"chunk", "eof"} /\ out \in Nat
      /\ qsamples \in 0..MaxSamples /\ MaxSamples \in Nat
  <2>1. 1 \in 1..Len(items)
    BY <1>2
  <2>2. /\ Fits(items[1]) /\ items[1].at = First
        /\ items[1].kind = "eof" => 1 = Len(items) /\ NoOneAdds
        /\ qsamples \in 0..MaxSamples
    BY <1>1, <2>1 DEF PipelineSound, QueueSound
  <2>3. out \in Nat
    BY DEF PipelineSound, GenType
  <2>4. x.count \in Nat /\ x.kind \in {"chunk", "eof"} /\ MaxSamples \in Nat
    <3>1. ChunkMax \in Nat /\ MaxSamples \in Nat
      BY BoundsAreNumbers
    <3> QED BY <1>2, <3>1 DEF ItemType
  <2> QED BY <1>2, <2>2, <2>3, <2>4
<1>4. GenType' /\ LedgerSound' /\ SpansSound' /\ UNCHANGED Generation
  BY <1>1, GenerationStays DEF PipelineSound, Generation, genVars
<1>5. ProdType' /\ ProducersSound' /\ (NoOneAdds => NoOneAdds')
  <2>1. Quiet /\ ProdType'
    BY <1>1, WakeIsQuiet
  <2> QED BY <1>4, <2>1, QuietProducers DEF PipelineSound
<1>6. \A y : Fits(y)' <=> Fits(y)
  BY <1>4 DEF Fits, Labelled, Generation
<1>7. out' = out /\ First' = First + x.count
  BY <1>1, <1>3 DEF First, genVars
<1>8. QueueType'
  BY <1>1, <1>2, <1>3 DEF PipelineSound, QueueType, Epoch, ItemType
<1>9. ASSUME Len(items) = 1 PROVE qsamples = x.count
  BY <1>2, <1>3, <1>9, EmptySeq DEF PipelineSound, QueueSound, First
<1>10. ASSUME Len(items) # 1
       PROVE  items[2].at = First' /\ items[2].at <= out
  <2>1. 1 \in 1..(Len(items) - 1) /\ 2 \in 1..Len(items)
    BY <1>2, <1>10
  <2>2. items[1 + 1].at = items[1].at + items[1].count /\ Fits(items[2])
        /\ items[2].at + items[2].count <= out
    BY <2>1 DEF PipelineSound, QueueSound
  <2>3. items[2].at \in Nat /\ items[2].count \in Nat
    BY <2>2, BoundsAreNumbers DEF Fits, ItemType
  <2> QED BY <1>2, <1>3, <1>7, <2>2, <2>3
<1>11. QueueSound'
  <2>1. Len(items') <= MaxItems /\ qsamples' \in 0..MaxSamples
    <3>1. Len(items) <= MaxItems /\ MaxItems \in Nat
      BY BoundsAreNumbers DEF PipelineSound, QueueSound
    <3>2. CASE Len(items) = 1
      BY <1>1, <1>2, <1>3, <1>9, <3>1, <3>2
    <3>3. CASE Len(items) # 1
      <4>1. First' = First + x.count /\ First' <= out /\ First' = out - qsamples' /\ First = out - qsamples
        BY <1>7, <1>10, <3>3 DEF First
      <4>2. qsamples' = qsamples - x.count
        BY <1>1
      <4>3. qsamples' \in 0..MaxSamples
        BY <1>3, <4>1, <4>2
      <4> QED BY <1>2, <3>1, <4>3
    <3> QED BY <3>2, <3>3
  <2>2. items' = <<>> => qsamples' = 0
    <3> SUFFICES ASSUME items' = <<>> PROVE qsamples' = 0
      OBVIOUS
    <3>1. Len(items) = 1
      BY <1>2, EmptySeq
    <3> QED BY <1>1, <1>3, <1>9, <3>1
  <2>3. items' # <<>> => /\ items'[1].at = First'
                         /\ items'[Len(items')].at + items'[Len(items')].count = out'
    <3> SUFFICES ASSUME items' # <<>>
                 PROVE  /\ items'[1].at = First'
                        /\ items'[Len(items')].at + items'[Len(items')].count = out'
      OBVIOUS
    <3>1. Len(items') \in Nat \ {0}
      BY <1>2, EmptySeq
    <3>2. items'[1] = items[2] /\ items'[Len(items')] = items[Len(items)] /\ Len(items) # 1
      BY <1>2, <3>1
    <3> QED BY <1>1, <1>7, <1>10, <3>2 DEF PipelineSound, QueueSound
  <2>4. ASSUME NEW i \in 1..Len(items')
        PROVE  /\ Fits(items[i])' /\ items'[i].at + items'[i].count <= out'
               /\ items'[i].kind = "eof" => i = Len(items') /\ NoOneAdds'
    <3>1. i + 1 \in 1..Len(items) /\ items'[i] = items[i + 1]
      BY <1>2
    <3>2. /\ Fits(items[i + 1]) /\ items[i + 1].at + items[i + 1].count <= out
          /\ items[i + 1].kind = "eof" => i + 1 = Len(items) /\ NoOneAdds
      BY <3>1 DEF PipelineSound, QueueSound
    <3> QED BY <1>2, <1>5, <1>6, <1>7, <3>1, <3>2
  <2>5. ASSUME NEW i \in 1..(Len(items') - 1)
        PROVE  items'[i + 1].at = items'[i].at + items'[i].count
    <3>1. i + 1 \in 1..(Len(items) - 1) /\ items'[i] = items[i + 1] /\ items'[i + 1] = items[i + 1 + 1]
      BY <1>2
    <3> QED BY <3>1 DEF PipelineSound, QueueSound
  <2> QED BY <2>1, <2>2, <2>3, <2>4, <2>5 DEF QueueSound
<1>12. ConsType' /\ cons'[c] = (IF x.kind = "eof" THEN "submit" ELSE "hand") /\ held'[c] = x
  BY <1>1, <1>2 DEF PipelineSound, ConsType, ConsState, WokenCons, ItemType
<1>13. ConsumersSound'
  <2>1. SUFFICES ASSUME skey # None PROVE ConsumersSound'
    BY <1>1 DEF ConsumersSound, sinkVars
  <2>2. UNCHANGED <<skey, sink, queued, ledger, released, live>>
    BY <1>1 DEF sinkVars, genVars
  <2>3. skey = c
    BY <1>1, <2>1 DEF PipelineSound, KeysAgree
  <2>4. sink.next = First /\ ~sink.closed /\ ~sink.eof
    BY <1>1, <2>1, <2>3 DEF PipelineSound, ConsumersSound, ClosedSound, Awaits
  <2>5. ClosedSound'
    BY <2>2, <2>4 DEF ClosedSound
  <2>6. HeldFits(x)'
    <3>1. x.kind = "eof" => items' = <<>>
      <4>1. Len(items') = 0 => items' = <<>>
        BY <1>2, EmptySeq
      <4> QED BY <1>2, <1>3, <4>1
    <3> QED BY <1>3, <1>5, <1>6, <1>7, <2>2, <2>4, <3>1 DEF HeldFits
  <2> QED BY <1>3, <1>12, <2>2, <2>3, <2>5, <2>6 DEF ConsumersSound, Awaits, HoldsItem
<1>14. SinkSound' /\ SinkType' /\ KeysAgree'
  <2>1. UNCHANGED <<qkey, live, epoch, src, sinkVars, heard, faults>>
    BY <1>1 DEF genVars
  <2>2. SinkSound'
    BY <2>1, SinkStays DEF PipelineSound, SinkType, sinkVars
  <2> QED BY <2>1, <2>2 DEF PipelineSound, SinkType, KeysAgree, sinkVars, Epoch
<1> QED BY <1>4, <1>5, <1>8, <1>11, <1>12, <1>13, <1>14 DEF PipelineSound

\* The device takes what was granted, and each sample has its label.
LEMMA SubmitKeeps == ASSUME PipelineSound, NEW c \in Epoch, Submit(c) PROVE PipelineSound'
<1>0. PICK x : x = held[c]
  OBVIOUS
<1>1. /\ cons[c] = "submit" /\ c = skey
      /\ cons' = [cons EXCEPT ![c] = IF x.kind = "eof" THEN "drain" ELSE "run"]
      /\ held' = [held EXCEPT ![c] = NoItem]
      /\ UNCHANGED <<epoch, genVars, queueVars, prodVars, skey, delivered, finished, failed,
                     signal, heard, faults>>
  BY <1>0 DEF Submit
<1>2. IF x.kind = "eof"
      THEN sink' = [next |-> sink.next, closed |-> TRUE, eof |-> TRUE] /\ UNCHANGED <<buffers, queued>>
      ELSE sink' = [sink EXCEPT !.next = x.at + x.count] /\ buffers' = buffers \o Samples(x)
           /\ queued' = queued + x.count
  BY <1>0 DEF Submit
<1>3. skey # None /\ skey \in Epoch /\ skey = live
  BY <1>1, BoundsAreNumbers DEF PipelineSound, KeysAgree, Epoch
<1>4. SinkTakes(x) /\ HeldFits(x) /\ Fits(x)
  BY <1>0, <1>1, GrantedIsTaken DEF HeldFits
<1>5. /\ x \in ItemType /\ x.at \in Nat /\ x.count \in Nat /\ x.kind \in {"chunk", "eof"}
      /\ x.epoch = live /\ x.at = sink.next /\ x.at + x.count = First /\ ~sink.closed
      /\ (x.kind = "chunk" => Labelled(x) /\ x.count > 0 /\ queued + x.count <= MaxBuffer)
      /\ (x.kind = "eof" => x.count = 0 /\ ledger.closed /\ x.at = released /\ items = <<>> /\ NoOneAdds)
  BY <1>4, BoundsAreNumbers DEF SinkTakes, HeldFits, Fits, ItemType
<1>6. /\ buffers \in Seq(SampleType) /\ Len(buffers) \in Nat /\ queued = Len(buffers)
      /\ sink.next = delivered + queued /\ delivered \in Nat /\ out \in Nat /\ ~failed
      /\ \A k \in 1..Len(buffers) : buffers[k] = Speech!Sample(live, delivered + k - 1, src)
      /\ queued <= MaxBuffer /\ sink \in [next : Nat, closed : BOOLEAN, eof : BOOLEAN]
      /\ ~sink.eof /\ ~finished
  <2>1. buffers \in Seq(SampleType)
    BY DEF PipelineSound, SinkType
  <2> QED BY <1>3, <1>5, <2>1, LenProperties
          DEF PipelineSound, SinkType, GenType, SinkSound, ConsumersSound, ClosedSound
<1>7. GenType' /\ LedgerSound' /\ SpansSound' /\ UNCHANGED Generation
  BY <1>1, GenerationStays DEF PipelineSound, Generation, genVars
<1>8. ProdType' /\ ProducersSound' /\ (NoOneAdds => NoOneAdds')
  <2>1. Quiet /\ ProdType'
    BY <1>1 DEF PipelineSound, ProdType, Quiet, prodVars
  <2> QED BY <1>7, <2>1, QuietProducers DEF PipelineSound
<1>9. QueueType' /\ QueueSound' /\ KeysAgree' /\ First' = First
  <2>1. QueueSound'
    BY <1>1, <1>8, QueueStays DEF PipelineSound, queueVars, genVars
  <2> QED BY <1>1, <2>1 DEF PipelineSound, QueueType, KeysAgree, First, Epoch, queueVars, genVars
<1>10. ConsType' /\ cons'[c] = IF x.kind = "eof" THEN "drain" ELSE "run"
  BY <1>1 DEF PipelineSound, ConsType, ConsState
<1>11. CASE x.kind = "eof"
  <2>1. /\ sink' = [next |-> sink.next, closed |-> TRUE, eof |-> TRUE] /\ UNCHANGED <<buffers, queued>>
    BY <1>2, <1>11
  <2>2. SinkType'
    BY <1>1, <1>6, <2>1 DEF PipelineSound, SinkType, Epoch
  <2>3. SinkSound'
    BY <1>1, <1>6, <2>1 DEF PipelineSound, SinkSound, Speech!Sample, Speech!SourceOf, genVars
  <2>4. sink.next = out /\ out = released
    <3>1. qsamples = 0
      BY <1>5, <1>11 DEF PipelineSound, QueueSound
    <3> QED BY <1>5, <1>6, <1>11, <3>1 DEF First
  <2>5. ClosedSound'
    BY <1>1, <1>5, <1>8, <1>11, <2>1, <2>4 DEF ClosedSound, genVars, queueVars
  <2>6. ConsumersSound'
    BY <1>1, <1>10, <1>11, <2>1, <2>5 DEF ConsumersSound, Awaits, HoldsItem
  <2> QED BY <1>7, <1>8, <1>9, <1>10, <2>2, <2>3, <2>6 DEF PipelineSound
<1>12. CASE x.kind = "chunk"
  <2>1. /\ sink' = [sink EXCEPT !.next = x.at + x.count] /\ buffers' = buffers \o Samples(x)
        /\ queued' = queued + x.count
    BY <1>2, <1>12
  <2>2. sink'.next = First /\ ~sink'.closed /\ ~sink'.eof
        /\ sink' \in [next : Nat, closed : BOOLEAN, eof : BOOLEAN]
    <3>1. x.at + x.count \in Nat
      BY <1>5
    <3> QED BY <1>5, <1>6, <2>1, <3>1
  <2>3. ASSUME NEW k \in 1..x.count
        PROVE  Samples(x)[k] = Speech!Sample(live, x.at + k - 1, src) /\ Samples(x)[k] \in SampleType
    <3>1. x.at + k - 1 \in x.at..(x.at + x.count - 1) /\ x.at + k - 1 \in Nat
      BY <1>5
    <3>2. src[SourceOf(x.at + k - 1) + 1] = x.label
      BY <1>5, <1>12, <3>1 DEF Labelled
    <3>3. Samples(x)[k] = [epoch |-> live, at |-> x.at + k - 1, label |-> x.label]
      BY <1>5 DEF Samples
    <3>4. x.label \in Label
      <4>1. SourceOf(x.at + k - 1) + 1 \in 1..Len(src)
        <5>1. SourceOf(x.at + k - 1) \in Nat /\ SourceOf(x.at + k - 1) < Len(src) /\ Len(src) \in Nat
          BY <1>5, <1>12, <3>1, SourceIsNat, SpansAreSpans DEF Labelled
        <5> QED BY <5>1
      <4>2. src \in Seq(Label)
        BY SpansAreSpans
      <4> QED BY <3>2, <4>1, <4>2, ElementOfSeq
    <3>5. Samples(x)[k] \in SampleType
      BY <1>3, <3>1, <3>3, <3>4 DEF SampleType
    <3>6. Speech!Sample(live, x.at + k - 1, src) =
            [epoch |-> live, at |-> x.at + k - 1, label |-> src[SourceOf(x.at + k - 1) + 1]]
      BY DEF Speech!Sample, Speech!SourceOf, SourceOf
    <3> QED BY <3>2, <3>3, <3>5, <3>6
  <2>4. Samples(x) \in Seq(SampleType) /\ Len(Samples(x)) = x.count
    <3>1. Samples(x) \in [1..x.count -> SampleType]
      BY <2>3 DEF Samples
    <3> QED BY <1>5, <3>1
  <2>5. /\ buffers' \in Seq(SampleType) /\ Len(buffers') = Len(buffers) + x.count
        /\ \A k \in 1..(Len(buffers) + x.count) :
             buffers'[k] = IF k <= Len(buffers) THEN buffers[k] ELSE Samples(x)[k - Len(buffers)]
    <3> DEFINE t == Samples(x)
    <3>1. t \in Seq(SampleType) /\ Len(t) = x.count /\ buffers' = buffers \o t
      BY <2>1, <2>4
    <3> HIDE DEF t
    <3>2. /\ buffers' \in Seq(SampleType) /\ Len(buffers') = Len(buffers) + Len(t)
          /\ \A k \in 1..(Len(buffers) + Len(t)) :
               buffers'[k] = IF k <= Len(buffers) THEN buffers[k] ELSE t[k - Len(buffers)]
      <4>1. buffers \in Seq(SampleType)
        BY <1>6
      <4> QED BY <3>1, <4>1, ConcatProperties
    <3> QED BY <3>1, <3>2 DEF t
  <2>6. SinkType'
    BY <1>1, <1>5, <1>6, <2>1, <2>2, <2>5 DEF PipelineSound, SinkType, Epoch, SampleType
  <2>7. ASSUME NEW k \in 1..Len(buffers')
        PROVE  buffers'[k] = Speech!Sample(live, delivered + k - 1, src)
    <3>1. CASE k <= Len(buffers)
      <4>1. k \in 1..Len(buffers) /\ k \in 1..(Len(buffers) + x.count)
        BY <1>5, <1>6, <2>5, <3>1
      <4> QED BY <1>6, <2>5, <3>1, <4>1
    <3>2. CASE k > Len(buffers)
      <4>1. k - Len(buffers) \in 1..x.count /\ k \in 1..(Len(buffers) + x.count)
            /\ x.at + (k - Len(buffers)) - 1 = delivered + k - 1
        BY <1>5, <1>6, <2>5, <3>2
      <4> QED BY <1>6, <2>3, <2>5, <3>2, <4>1
    <3> QED BY <1>5, <1>6, <2>5, <3>1, <3>2
  <2>8. SinkSound'
    <3>1. queued' = Len(buffers') /\ queued' <= MaxBuffer /\ sink'.next = delivered + queued'
      BY <1>5, <1>6, <1>12, <2>1, <2>2, <2>5
    <3>2. UNCHANGED <<skey, live, src, delivered, failed, finished>>
      BY <1>1 DEF genVars
    <3> QED BY <1>3, <1>6, <2>7, <3>1, <3>2 DEF SinkSound, Speech!Sample, Speech!SourceOf
  <2>9. ClosedSound'
    BY <2>2 DEF ClosedSound
  <2>10. ConsumersSound'
    BY <1>1, <1>9, <1>10, <1>12, <2>2, <2>9 DEF ConsumersSound, Awaits, HoldsItem
  <2> QED BY <1>7, <1>8, <1>9, <1>10, <2>6, <2>8, <2>10 DEF PipelineSound
<1> QED BY <1>5, <1>11, <1>12

-----------------------------------------------------------------------------
(* The invariant holds                                                     *)

LEMMA InitSound == ASSUME Init PROVE PipelineSound
<1> USE DEF Init
<1>1. /\ <<>> \in Seq([end : 1..MaxNative, label : Label]) /\ <<>> \in Seq(Label)
      /\ <<>> \in Seq(ItemType) /\ <<>> \in Seq(SampleType)
      /\ Len(spans) = 0 /\ Len(src) = 0 /\ Len(items) = 0 /\ Len(buffers) = 0
  BY EmptySeq
<1>2. MaxEpoch \in Nat /\ MaxNative \in Nat /\ MaxEvents \in Nat /\ MaxFaults \in Nat
      /\ MaxItems \in Nat /\ MaxSamples \in Nat /\ MaxBuffer \in Nat
  BY BoundsAreNumbers
<1>3. GenType
  <2>1. NewLedger \in [next : 0..MaxNative, seq : -1..MaxEvents, closed : BOOLEAN]
    BY <1>2 DEF NewLedger
  <2> QED BY <1>1, <1>2, <2>1 DEF GenType
<1>4. QueueType /\ ProdType /\ ConsType
  BY <1>1 DEF QueueType, ProdType, ConsType, ProdState, ConsState
<1>5. SinkType
  <2>1. NewSink \in [next : Nat, closed : BOOLEAN, eof : BOOLEAN]
    BY DEF NewSink
  <2>2. finished \in BOOLEAN /\ failed \in BOOLEAN /\ signal \in BOOLEAN
    OBVIOUS
  <2>3. faults \in 0..MaxFaults /\ delivered \in Nat /\ queued \in Int
    BY <1>2
  <2> QED BY <1>1, <2>1, <2>2, <2>3 DEF SinkType
<1>6. KeysAgree
  BY DEF KeysAgree
<1>7. LedgerSound
  <2>1. ledger.next = 0 /\ ledger.closed = FALSE
    BY DEF NewLedger
  <2> QED BY <1>1, <2>1, NothingIsWorthNothing, RatesArePositive DEF LedgerSound, Emitted
<1>8. SpansSound
  BY <1>1, NothingIsWorthNothing DEF SpansSound
<1>9. ProducersSound
  BY DEF ProducersSound, CallSound, Holder, Pending
<1>10. QueueSound
  BY <1>1, <1>2 DEF QueueSound
<1>11. ConsumersSound /\ SinkSound
  BY <1>1, <1>2 DEF ConsumersSound, SinkSound
<1> QED BY <1>3, <1>4, <1>5, <1>6, <1>7, <1>8, <1>9, <1>10, <1>11 DEF PipelineSound

LEMMA StutterKeeps == ASSUME PipelineSound, UNCHANGED vars PROVE PipelineSound'
<1>1. /\ UNCHANGED <<epoch, genVars, queueVars, consVars, sinkVars, heard, faults>>
      /\ UNCHANGED <<prod, call, item>>
  BY DEF vars, prodVars
<1>2. Quiet /\ ProdType'
  BY <1>1 DEF Quiet, PipelineSound, ProdType
<1> QED BY <1>1, <1>2, QuietSteps

LEMMA NextKeeps == ASSUME PipelineSound, Next PROVE PipelineSound'
<1>1. CASE Start
  BY <1>1, StartKeeps
<1>2. CASE Cancel \/ Discontinuity
  BY <1>2, CancelKeeps
<1>3. CASE AbortDevice
  BY <1>3, AbortDeviceKeeps
<1>4. ASSUME NEW p \in Producer, Call(p) \/ Produce(p) \/ CancelTask(p) PROVE PipelineSound'
  <2>1. CASE Call(p)
    BY <2>1, CallKeeps
  <2>2. CASE CancelTask(p)
    BY <2>2, CancelTaskKeeps
  <2>3. CASE Produce(p)
    BY <2>3, RefusedKeeps, AcceptKeeps, DropSpanKeeps, CutKeeps, EndOfCallKeeps,
       PutStaleKeeps, PutBlocksKeeps, PutKeeps DEF Produce
  <2> QED BY <1>4, <2>1, <2>2, <2>3
<1>5. ASSUME NEW c \in Epoch, Consume(c) PROVE PipelineSound'
  BY <1>5, GetCancelledKeeps, GetWaitsKeeps, GetKeeps, HandKeeps, SubmitKeeps,
     SubmitRefusedKeeps, DrainKeeps DEF Consume
<1>6. CASE DeviceSignal \/ Play \/ PlayFails
  BY <1>6, DeviceSignalKeeps, PlayKeeps, PlayFailsKeeps
<1> QED BY <1>1, <1>2, <1>3, <1>4, <1>5, <1>6 DEF Next

\* In every state of the audio core the ledger, the spans, the producers, the queue, the
\* consumer and the device agree on which sample comes next and under which label.
THEOREM PipelineIsSound == Spec => []PipelineSound
<1>1. PipelineSound /\ [Next]_vars => PipelineSound'
  BY NextKeeps, StutterKeeps
<1> QED BY <1>1, InitSound, PTL DEF Spec

\* No sample is refused or lost between the resampler and the device, with any number of
\* producers, at any rates, whatever the callback does between wait_writable and submit.
THEOREM NothingIsEverLost == Spec => []NothingIsLost
<1>1. PipelineSound => NothingIsLost
  <2> SUFFICES ASSUME PipelineSound PROVE NothingIsLost
    OBVIOUS
  <2>1. BoundedAndCounted
    <3>1. TypeOK
      BY DEF PipelineSound, TypeOK, GenType, QueueType, ProdType, ConsType, SinkType
    <3>2. out \in Nat /\ qsamples \in 0..MaxSamples /\ MaxSamples \in Nat
      BY BoundsAreNumbers DEF PipelineSound, GenType, QueueSound
    <3>3. qsamples = IF items = <<>> THEN 0 ELSE out - items[1].at
      BY <3>2 DEF PipelineSound, QueueSound, First
    <3> QED BY <3>1, <3>2, <3>3 DEF PipelineSound, QueueSound, SinkSound, BoundedAndCounted
  <2>2. GrantedEventFits
    BY GrantedIsTaken DEF GrantedEventFits
  <2>3. SpansCover
    <3> SUFFICES ASSUME out < released, spans = <<>> PROVE FALSE
      BY DEF SpansCover
    <3>1. PICK f \in BOOLEAN : f = ledger.closed
      BY DEF PipelineSound, GenType
    <3>2. released = Emitted(Len(src), f) /\ Len(src) \in Nat
      BY <3>1, SpansAreSpans DEF PipelineSound, LedgerSound
    <3>3. released <= Worth(Len(src)) /\ Worth(Len(src)) \in Nat
      BY <3>2, EmittedBounds, WorthIsNat
    <3> QED BY <3>3 DEF PipelineSound, SpansSound, GenType
  <2>4. FinishedIsComplete
    <3> SUFFICES ASSUME finished, skey # None
                 PROVE  ledger.closed /\ delivered = Worth(ledger.next)
      BY DEF FinishedIsComplete
    <3>1. sink.closed /\ queued = 0 /\ sink.next = delivered + queued
      BY DEF PipelineSound, SinkSound
    <3>2. ledger.closed /\ sink.next = released /\ delivered \in Nat
      BY <3>1 DEF PipelineSound, ConsumersSound, ClosedSound, SinkType
    <3>3. released = Worth(ledger.next)
      BY <3>2 DEF PipelineSound, LedgerSound, Emitted
    <3> QED BY <3>1, <3>2, <3>3
  <2> QED BY <2>1, <2>2, <2>3, <2>4 DEF NothingIsLost
<1> QED BY <1>1, PipelineIsSound, PTL

-----------------------------------------------------------------------------
(* The audio core speaks as SpeechOutput promises                          *)

\* What a step that touches none of it does to the listener: nothing.
LEMMA SilentSteps ==
  ASSUME UNCHANGED <<epoch, live, src, delivered, heard>>, ledger'.closed = ledger.closed
  PROVE  UNCHANGED Speech!speechVars
BY DEF Speech!speechVars

LEMMA PlayIsSpoken == ASSUME PipelineSound, Play PROVE Speech!Speak
<1>1. skey # None /\ UNCHANGED <<epoch, live, ledger, src>>
  BY DEF Play, genVars
<1>2. live # None /\ skey = live
  BY <1>1 DEF PipelineSound, KeysAgree
<1>3. PICK n \in 1..Len(buffers) : heard' = [k \in 1..n |-> buffers[k]] /\ delivered' = delivered + n
  BY PlayEffect
<1>4. /\ delivered \in Nat /\ Len(buffers) \in Nat /\ Worth(Len(src)) \in Nat
      /\ delivered + Len(buffers) <= Worth(Len(src))
  BY <1>1, SinkWithinOutput
<1>5. Speech!Worth(Len(src)) = Worth(Len(src))
  BY DEF Speech!Worth, Worth
<1>6. delivered' \in delivered..Speech!Worth(Len(src)) /\ delivered' - delivered = n
  <2> DEFINE w == Worth(Len(src))
  <2>1. w \in Nat /\ delivered + Len(buffers) <= w /\ Speech!Worth(Len(src)) = w
    BY <1>4, <1>5
  <2> HIDE DEF w
  <2> QED BY <1>3, <1>4, <2>1
<1>7. \A k \in 1..n : buffers[k] = Speech!Sample(live, delivered + k - 1, src)
  BY <1>1, <1>3, <1>4 DEF PipelineSound, SinkSound
<1>8. heard' = [k \in 1..(delivered' - delivered) |-> Speech!Sample(live, delivered + k - 1, src)]
  BY <1>3, <1>6, <1>7
<1> QED BY <1>1, <1>2, <1>6, <1>8 DEF Speech!Speak

LEMMA AcceptIsHeard ==
  ASSUME PipelineSound, NEW p \in Producer, Accept(p)
  PROVE  (\E l \in Label : Speech!Accept(l)) \/ Speech!Seal \/ UNCHANGED Speech!speechVars
<1> DEFINE e == call[p]
<1>1. /\ live # None /\ ~ledger.closed /\ ledger'.closed = (e.kind = "finish")
      /\ UNCHANGED <<epoch, live, delivered, heard>>
  <2>1. live \in Epoch /\ ~ledger.closed
    BY AcceptEffect
  <2> QED BY <2>1, BoundsAreNumbers DEF Accept, sinkVars, Epoch
<1>2. /\ e.count \in Nat /\ e \in CallType /\ (e.kind = "push" => e.label \in Label)
      /\ (e.kind = "finish" => e.count = 0)
      /\ src' = src \o [i \in 1..e.count |-> e.label]
      /\ Len(src') = Len(src) + e.count /\ (e.count = 0 => src' = src)
  BY AcceptEffect
<1>3. Len(src) \in Nat
  BY SpansAreSpans
<1>4. e.kind \in {"push", "finish"}
  BY <1>2 DEF CallType
<1> HIDE DEF e
<1>5. CASE e.kind = "push"
  <2>1. e.label \in Label /\ ledger'.closed = ledger.closed
    <3>1. ledger \in [next : 0..MaxNative, seq : -1..MaxEvents, closed : BOOLEAN]
      BY DEF PipelineSound, GenType
    <3> QED BY <1>1, <1>2, <1>5, <3>1
  <2>2. Len(src') - Len(src) = e.count /\ Len(src') >= Len(src)
    BY <1>2, <1>3
  <2>3. src' = src \o [i \in 1..(Len(src') - Len(src)) |-> e.label]
    BY <1>2, <2>2
  <2>4. Speech!Accept(e.label)
    BY <1>1, <2>1, <2>2, <2>3 DEF Speech!Accept
  <2> QED BY <2>1, <2>4
<1>6. CASE e.kind = "finish"
  <2>1. src' = src /\ ledger'.closed = TRUE
    BY <1>1, <1>2, <1>6
  <2> QED BY <1>1, <2>1 DEF Speech!Seal
<1> QED BY <1>4, <1>5, <1>6

LEMMA StepIsSpoken ==
  ASSUME PipelineSound, Next
  PROVE  Speech!SpeechNext \/ UNCHANGED Speech!speechVars
<1>1. CASE Start
  <2>1. /\ epoch' = epoch + 1 /\ epoch \in Int /\ None \notin Nat /\ epoch' \in Nat
        /\ live' = epoch' /\ src' = <<>> /\ ledger' = NewLedger /\ delivered' = 0 /\ heard' = <<>>
    <3>1. epoch \in -1..MaxEpoch
      BY DEF PipelineSound, GenType
    <3> QED BY <1>1, <3>1, BoundsAreNumbers DEF Start, NewGeneration
  <2>2. Speech!Begin
    BY <2>1 DEF Speech!Begin, NewLedger
  <2> QED BY <2>2 DEF Speech!SpeechNext
<1>2. ASSUME NEW prod0, Cancelled(prod0) PROVE Speech!SpeechNext
  <2>1. epoch' = epoch + 1 /\ epoch \in Int
        /\ live' = None /\ src' = <<>> /\ ledger' = NewLedger /\ heard' = <<>>
    BY <1>2 DEF Cancelled, NewGeneration, PipelineSound, GenType
  <2>2. Speech!Abandon
    BY <2>1 DEF Speech!Abandon, NewLedger
  <2> QED BY <2>2 DEF Speech!SpeechNext
<1>3. CASE Cancel \/ Discontinuity
  BY <1>2, <1>3 DEF Cancel, Discontinuity
<1>4. CASE AbortDevice
  BY <1>4, SilentSteps DEF AbortDevice, SinkCancelled, genVars
<1>5. ASSUME NEW p \in Producer, Call(p) \/ Produce(p) \/ CancelTask(p)
      PROVE  Speech!SpeechNext \/ UNCHANGED Speech!speechVars
  <2>1. CASE Call(p)
    BY <2>1, SilentSteps DEF Call, genVars, sinkVars
  <2>2. CASE CancelTask(p)
    <3>1. CASE Cancelled([prod EXCEPT ![p] = "idle"])
      BY <1>2, <3>1
    <3>2. CASE UNCHANGED <<epoch, genVars, queueVars, consVars, sinkVars, heard, faults>>
      BY <3>2, SilentSteps DEF genVars, sinkVars
    <3> QED BY <2>2, <3>1, <3>2 DEF CancelTask
  <2>3. CASE Accept(p)
    BY <2>3, AcceptIsHeard DEF Speech!SpeechNext
  <2>4. CASE Produce(p) /\ ~Accept(p)
    <3>1. UNCHANGED <<epoch, live, ledger, src, sinkVars, heard>>
      BY <2>4 DEF Produce, Refused, DropSpan, Cut, EndOfCall, PutStale, PutBlocks, Put, genVars
    <3> QED BY <3>1, SilentSteps DEF sinkVars
  <2> QED BY <1>5, <2>1, <2>2, <2>3, <2>4
<1>6. ASSUME NEW c \in Epoch, Consume(c) PROVE UNCHANGED Speech!speechVars
  <2>1. UNCHANGED <<epoch, genVars, delivered, heard>>
    BY <1>6 DEF Consume, GetCancelled, GetWaits, Get, Hand, Submit, SubmitRefused, Drain, sinkVars
  <2> QED BY <2>1, SilentSteps DEF genVars
<1>7. CASE DeviceSignal \/ PlayFails
  BY <1>7, SilentSteps DEF DeviceSignal, PlayFails, genVars
<1>8. CASE Play
  BY <1>8, PlayIsSpoken DEF Speech!SpeechNext
<1> QED BY <1>1, <1>3, <1>4, <1>5, <1>6, <1>7, <1>8 DEF Next

\* Each turn is spoken from its first sample, in order, without a gap, every sample under
\* the label of the native sample it was computed from, never more than the input is worth,
\* and nothing of a turn after it was cancelled: the audio core implements SpeechOutput.
THEOREM TurnsAreSpoken == Spec => SpeechSpec
<1>1. Init => Speech!SpeechInit
  BY DEF Init, NewLedger, Speech!SpeechInit
<1>2. PipelineSound /\ [Next]_vars => [Speech!SpeechNext]_(Speech!speechVars)
  <2>1. ASSUME UNCHANGED vars PROVE UNCHANGED Speech!speechVars
    BY <2>1, SilentSteps DEF vars, genVars, sinkVars
  <2> QED BY <2>1, StepIsSpoken
<1> QED BY <1>1, <1>2, PipelineIsSound, PTL DEF Spec, SpeechSpec, Speech!SpeechSpec
=============================================================================
