--------------------------- MODULE ActivityProofs ---------------------------
(***************************************************************************)
(* What the daemon shows of a runtime and keeps of its diagnostics, for    *)
(* every limit and every input: the passive activity (Activity), the       *)
(* snapshot of its tools and its reasoning (Observation) and the log of    *)
(* diagnostic lines (DiagnosticLog).  Each part has an invariant of its    *)
(* own, by which every step of that part is taken.                         *)
(***************************************************************************)
EXTENDS MCRecords, Sequences, FiniteSetTheorems, SequenceTheorems, TLAPS

-----------------------------------------------------------------------------
(***************************************************************************)
(* The passive activity of a run (Activity)                                *)
(***************************************************************************)

Once(s) == \A i, j \in 1 .. Len(s) : s[i] = s[j] => i = j

Contained(s, t) == \A i \in 1 .. Len(s) : \E k \in 1 .. Len(t) : t[k] = s[i]

Disjoint(s, t) == \A i \in 1 .. Len(s), j \in 1 .. Len(t) : s[i] # t[j]

NamedOnce(s) == \A i, j \in 1 .. Len(s) : s[i] = s[j] => i = j \/ s[i] \in Unnamed

ToolStates == {"NEW", "SCHEDULED", "STARTED", "COMPLETED", "FAILED"}
ModelStates == {"NEW", "STARTED", "UNNAMED", "COMPLETED"}

SampleTypes ==
    /\ actSamples \in [DOMAIN actSamples -> Act!Channels]
    /\ IsFiniteSet(actIdentities) /\ actOrder \in Seq(actIdentities)

TextTypes ==
    /\ actTail \in Seq(Chunks) /\ actText \in Seq(Chunks) /\ actTaken \in Seq(Chunks)
    /\ actTruncated \in BOOLEAN /\ actGaps \in BOOLEAN
    /\ actBuffers \in [Messages -> Seq(Chunks)] /\ actProgress \in Seq(Chunks)

WorkTypes ==
    /\ actToolAt \in [Act!Channels -> [ToolCalls -> ToolStates]]
    /\ actModelAt \in [Act!Channels -> [ModelRequests -> ModelStates]]

\* Nothing had to be forgotten: every identity is in samples, in order, and every chunk
\* of the text that has an id is there as the session's own.
NothingForgotten ==
    /\ DOMAIN actSamples = actIdentities /\ Len(actOrder) = Cardinality(actIdentities)
    /\ \A i \in 1 .. Len(actText) : actText[i] \notin Unnamed =>
          actText[i] \in actIdentities /\ actSamples[actText[i]] = "SESSION"
    /\ NamedOnce(actText)

Sampled == Cardinality(actIdentities) <= SampleMax => NothingForgotten

\* What is shown of the messages is text, and as long as no delta comes twice the
\* messages in flight and the progress have no chunk in common.
MessagesApart ==
    /\ Contained(actProgress, actText)
    /\ \A m \in Messages : Contained(actBuffers[m], actText)
    /\ Once(actText) =>
          /\ \A m \in Messages : Disjoint(actBuffers[m], actProgress)
          /\ \A m, n \in Messages : m # n => Disjoint(actBuffers[m], actBuffers[n])

\* Who is shown as active is so by what one of the channels has said last.
ActiveHeld ==
    /\ \A t \in actTools : t \in ToolCalls /\ \E c \in Act!Channels :
          actToolAt[c][t] \in {"SCHEDULED", "STARTED"}
    /\ \A r \in actModels : \E c \in Act!Channels :
          \/ r \in ModelRequests /\ actModelAt[c][r] = "STARTED"
          \/ r = Act!ModelRequest /\ \E q \in ModelRequests : actModelAt[c][q] = "UNNAMED"

ActInv ==
    /\ SampleTypes /\ TextTypes /\ WorkTypes
    /\ Act!TextTakenOnce /\ Sampled /\ MessagesApart /\ ActiveHeld

LEMMA SameActCardinality == \A S : Act!Cardinality(S) = Cardinality(S)
BY DEF Act!Cardinality, Cardinality

LEMMA ActInit == Act!Init => ActInv
<1> SUFFICES ASSUME Act!Init PROVE ActInv
  OBVIOUS
<1> USE DEF Act!Init, Act!NoText
<1>1. SampleTypes
  BY FS_EmptySet DEF SampleTypes
<1>2. TextTypes
  <2>1. << >> \in Seq(Chunks)
    OBVIOUS
  <2>2. actBuffers \in [Messages -> Seq(Chunks)]
    BY <2>1
  <2> QED
    BY <2>1, <2>2 DEF TextTypes
<1>3. WorkTypes
  BY DEF WorkTypes, ToolStates, ModelStates
<1>4. Act!TextTakenOnce
  BY DEF Act!TextTakenOnce
<1>5. Sampled
  BY FS_EmptySet DEF Sampled, NothingForgotten, NamedOnce
<1>6. MessagesApart
  BY DEF MessagesApart, Contained, Disjoint
<1>7. ActiveHeld
  BY DEF ActiveHeld
<1> QED
  BY <1>1, <1>2, <1>3, <1>4, <1>5, <1>6, <1>7 DEF ActInv

\* What remembering an identity does to the samples.
LEMMA RememberStep ==
    ASSUME SampleTypes, NEW id, NEW c \in Act!Channels, Act!Remember(id, c)
    PROVE  /\ SampleTypes' /\ actIdentities' = actIdentities \cup {id}
           /\ Cardinality(actIdentities') <= SampleMax => Cardinality(actIdentities) <= SampleMax
           /\ Cardinality(actIdentities') <= SampleMax /\ DOMAIN actSamples = actIdentities
              /\ Len(actOrder) = Cardinality(actIdentities)
              => /\ DOMAIN actSamples' = actIdentities'
                 /\ Len(actOrder') = Cardinality(actIdentities')
                 /\ \A i \in actIdentities' :
                       actSamples'[i] = IF i = id /\ Act!Admitted(id, c) THEN c ELSE actSamples[i]
<1> DEFINE D == DOMAIN actSamples \cup {id}
<1>1. PICK known, queue :
         /\ known = [i \in D |-> IF i = id /\ Act!Admitted(id, c) THEN c ELSE actSamples[i]]
         /\ queue = IF id \in DOMAIN actSamples THEN actOrder ELSE Append(actOrder, id)
  OBVIOUS
<1>2. /\ actSamples' = Act!Evict(known, queue)[1] /\ actOrder' = Act!Evict(known, queue)[2]
      /\ actIdentities' = actIdentities \cup {id}
  BY <1>1 DEF Act!Remember
<1>3. SampleMax \in Nat \ {0}
  BY ActBounds DEF Act!BoundsAssumption
<1>4. /\ IsFiniteSet(actIdentities') /\ Cardinality(actIdentities) \in Nat
      /\ Cardinality(actIdentities') \in Nat
      /\ Cardinality(actIdentities) <= Cardinality(actIdentities')
      /\ id \notin actIdentities => Cardinality(actIdentities') = Cardinality(actIdentities) + 1
      /\ id \in actIdentities => actIdentities' = actIdentities
  <2>1. IsFiniteSet(actIdentities)
    BY DEF SampleTypes
  <2>2. IsFiniteSet(actIdentities')
        /\ (id \notin actIdentities => Cardinality(actIdentities') = Cardinality(actIdentities) + 1)
    BY <1>2, <2>1, FS_AddElement
  <2>3. actIdentities \subseteq actIdentities' /\ (id \in actIdentities => actIdentities' = actIdentities)
    BY <1>2
  <2> QED
    BY <2>1, <2>2, <2>3, FS_Subset, FS_CardinalityType
<1>5. queue \in Seq(actIdentities')
  <2>1. actOrder \in Seq(actIdentities')
    BY <1>2 DEF SampleTypes
  <2>2. id \in actIdentities'
    BY <1>2
  <2> QED
    BY <1>1, <2>1, <2>2
<1>6. known \in [D -> Act!Channels]
  <2>1. \A i \in D : (IF i = id /\ Act!Admitted(id, c) THEN c ELSE actSamples[i]) \in Act!Channels
    BY DEF SampleTypes, Act!Admitted
  <2> QED
    BY <1>1, <2>1
<1>7. CASE Len(queue) > SampleMax
  <2>1. actSamples' = [i \in DOMAIN known \ {Head(queue)} |-> known[i]] /\ actOrder' = Tail(queue)
    BY <1>2, <1>7 DEF Act!Evict
  <2>2. queue # << >> /\ Len(queue) \in Nat
    BY <1>3, <1>5, <1>7
  <2>3. actOrder' \in Seq(actIdentities')
    BY <1>5, <2>1, <2>2
  <2>4. SampleTypes'
    BY <1>4, <1>6, <2>1, <2>3 DEF SampleTypes
  <2>5. Cardinality(actIdentities') <= SampleMax /\ DOMAIN actSamples = actIdentities
        /\ Len(actOrder) = Cardinality(actIdentities) => FALSE
    <3> SUFFICES ASSUME Cardinality(actIdentities') <= SampleMax, DOMAIN actSamples = actIdentities,
                        Len(actOrder) = Cardinality(actIdentities)
                 PROVE  FALSE
      OBVIOUS
    <3>1. CASE id \in actIdentities
      BY <1>1, <1>3, <1>4, <1>7, <3>1
    <3>2. CASE id \notin actIdentities
      <4>1. Len(queue) = Len(actOrder) + 1
        BY <1>1, <3>2 DEF SampleTypes
      <4> QED
        BY <1>3, <1>4, <1>7, <3>2, <4>1
    <3> QED
      BY <3>1, <3>2
  <2> QED
    BY <1>2, <1>3, <1>4, <2>4, <2>5
<1>8. CASE ~(Len(queue) > SampleMax)
  <2>1. actSamples' = known /\ actOrder' = queue
    BY <1>2, <1>8 DEF Act!Evict
  <2>2. SampleTypes'
    BY <1>4, <1>5, <1>6, <2>1 DEF SampleTypes
  <2>3. DOMAIN actSamples = actIdentities => DOMAIN actSamples' = actIdentities'
    BY <1>2, <1>6, <2>1
  <2>4. DOMAIN actSamples = actIdentities /\ Len(actOrder) = Cardinality(actIdentities)
        => Len(actOrder') = Cardinality(actIdentities')
    <3> SUFFICES ASSUME DOMAIN actSamples = actIdentities, Len(actOrder) = Cardinality(actIdentities)
                 PROVE  Len(actOrder') = Cardinality(actIdentities')
      OBVIOUS
    <3>1. CASE id \in actIdentities
      BY <1>1, <1>4, <2>1, <3>1
    <3>2. CASE id \notin actIdentities
      <4>1. Len(queue) = Len(actOrder) + 1
        BY <1>1, <3>2 DEF SampleTypes
      <4> QED
        BY <1>4, <2>1, <3>2, <4>1
    <3> QED
      BY <3>1, <3>2
  <2>5. DOMAIN actSamples = actIdentities => \A i \in actIdentities' :
           actSamples'[i] = IF i = id /\ Act!Admitted(id, c) THEN c ELSE actSamples[i]
    BY <1>1, <1>2, <2>1
  <2> QED
    BY <1>2, <1>3, <1>4, <2>2, <2>3, <2>4, <2>5
<1> QED
  BY <1>7, <1>8

\* A text that is there as the session's own is not admitted again, so remembering does
\* not touch it.
LEMMA RememberKeeps ==
    ASSUME ActInv, NEW id, NEW c \in Act!Channels, Act!Remember(id, c), actText' = actText
    PROVE  SampleTypes' /\ Sampled'
<1>1. SampleTypes
  BY DEF ActInv
<1>2. SampleTypes' /\ actIdentities' = actIdentities \cup {id}
  BY <1>1, RememberStep
<1>3. ASSUME Cardinality(actIdentities') <= SampleMax PROVE NothingForgotten'
  <2>1. NothingForgotten
    BY <1>1, <1>3, RememberStep DEF ActInv, Sampled
  <2>2. /\ DOMAIN actSamples' = actIdentities' /\ Len(actOrder') = Cardinality(actIdentities')
        /\ \A i \in actIdentities' :
              actSamples'[i] = IF i = id /\ Act!Admitted(id, c) THEN c ELSE actSamples[i]
    BY <1>1, <1>3, <2>1, RememberStep DEF NothingForgotten
  <2>3. \A i \in 1 .. Len(actText) : actText[i] \notin Unnamed =>
           actText[i] \in actIdentities' /\ actSamples'[actText[i]] = "SESSION"
    <3> SUFFICES ASSUME NEW i \in 1 .. Len(actText), actText[i] \notin Unnamed
                 PROVE  actText[i] \in actIdentities' /\ actSamples'[actText[i]] = "SESSION"
      OBVIOUS
    <3>1. actText[i] \in actIdentities /\ actText[i] \in DOMAIN actSamples
          /\ actSamples[actText[i]] = "SESSION"
      BY <2>1 DEF NothingForgotten
    <3>2. ~(actText[i] = id /\ Act!Admitted(id, c))
      BY <3>1 DEF Act!Admitted
    <3> QED
      BY <1>2, <2>2, <3>1, <3>2
  <2> QED
    BY <2>1, <2>2, <2>3 DEF NothingForgotten, NamedOnce
<1> QED
  BY <1>2, <1>3 DEF Sampled

\* The bound on a text keeps its end.
LEMMA BoundedText ==
    ASSUME NEW s \in Seq(Chunks)
    PROVE  /\ Act!Bounded(s) \in Seq(Chunks) /\ Contained(Act!Bounded(s), s)
           /\ Len(s) <= TextMax => Act!Bounded(s) = s
<1>1. TextMax \in Nat \ {0} /\ Len(s) \in Nat
  BY ActBounds DEF Act!BoundsAssumption
<1>2. CASE Len(s) > TextMax
  <2>1. PICK b \in 1 .. Len(s) : b = Len(s) - TextMax + 1
    BY <1>1, <1>2
  <2>2. Act!Bounded(s) = SubSeq(s, b, Len(s))
    BY <1>2, <2>1 DEF Act!Bounded
  <2>3. \A i \in b .. Len(s) : s[i] \in Chunks
    BY <1>1
  <2>4. /\ SubSeq(s, b, Len(s)) \in Seq(Chunks) /\ Len(SubSeq(s, b, Len(s))) = Len(s) - b + 1
        /\ \A i \in 1 .. Len(s) - b + 1 : SubSeq(s, b, Len(s))[i] = s[b + i - 1]
    BY <1>1, <2>1, <2>3, SubSeqProperties
  <2>5. \A i \in 1 .. Len(s) - b + 1 : b + i - 1 \in 1 .. Len(s)
    BY <1>1
  <2>6. Contained(SubSeq(s, b, Len(s)), s)
    BY <2>4, <2>5 DEF Contained
  <2> QED
    BY <1>1, <1>2, <2>2, <2>4, <2>6
<1>3. CASE ~(Len(s) > TextMax)
  BY <1>1, <1>3 DEF Act!Bounded, Contained
<1> QED
  BY <1>2, <1>3

\* Text that grows by a chunk: the old text is at its place, and a text without
\* repetition had none before.
LEMMA Grown ==
    ASSUME NEW s \in Seq(Chunks), NEW x \in Chunks
    PROVE  /\ Append(s, x) \in Seq(Chunks) /\ Len(s) \in Nat /\ Len(Append(s, x)) = Len(s) + 1
           /\ \A i \in 1 .. Len(s) : Append(s, x)[i] = s[i]
           /\ Append(s, x)[Len(s) + 1] = x
           /\ Contained(s, Append(s, x))
           /\ Once(Append(s, x)) => Once(s) /\ \A i \in 1 .. Len(s) : s[i] # x
<1>1. /\ Append(s, x) \in Seq(Chunks) /\ Len(s) \in Nat /\ Len(Append(s, x)) = Len(s) + 1
      /\ \A i \in 1 .. Len(s) : Append(s, x)[i] = s[i]
      /\ Append(s, x)[Len(s) + 1] = x
  OBVIOUS
<1>2. \A i \in 1 .. Len(s) : i \in 1 .. Len(s) + 1 /\ i # Len(s) + 1
  BY <1>1
<1>3. Contained(s, Append(s, x))
  BY <1>1, <1>2 DEF Contained
<1>4. Once(Append(s, x)) => Once(s)
  BY <1>1, <1>2 DEF Once
<1>5. Len(s) + 1 \in 1 .. Len(s) + 1
  BY <1>1
<1>6. Once(Append(s, x)) => \A i \in 1 .. Len(s) : s[i] # x
  BY <1>1, <1>2, <1>5 DEF Once
<1> QED
  BY <1>1, <1>3, <1>4, <1>6

LEMMA ContainedTransitive ==
    ASSUME NEW s, NEW t, NEW u, Contained(s, t), Contained(t, u)
    PROVE  Contained(s, u)
BY DEF Contained

\* What the samples have to do with a chunk of the session that becomes text.
Taken(x) ==
    \/ x \in Unnamed /\ UNCHANGED Act!sampling
    \/ x \notin Unnamed /\ Act!Admitted(x, "SESSION") /\ Act!Remember(x, "SESSION")

\* A delta that is admitted from the session, or has no id.
LEMMA AdmittedDelta ==
    ASSUME ActInv, NEW x \in Chunks, NEW m \in Messages, Taken(x), Act!AppendText(x),
           actBuffers' = [actBuffers EXCEPT ![m] = Act!Bounded(Append(@, x))],
           UNCHANGED <<actProgress, actTaken, actGaps>>
    PROVE  SampleTypes' /\ TextTypes' /\ Act!TextTakenOnce' /\ Sampled' /\ MessagesApart'
<1>0. SampleTypes /\ TextTypes /\ "SESSION" \in Act!Channels /\ TextMax \in Nat
  BY ActBounds DEF ActInv, Act!Channels, Act!BoundsAssumption
<1>1. PICK s, b : s = actText /\ b = actBuffers[m]
  OBVIOUS
<1>2. s \in Seq(Chunks) /\ b \in Seq(Chunks) /\ actTail \in Seq(Chunks) /\ actTaken \in Seq(Chunks)
  BY <1>0, <1>1 DEF TextTypes
<1>3. /\ actTail' = Act!Bounded(Append(actTail, x)) /\ actText' = Append(s, x)
      /\ actTruncated' = (actTruncated \/ Len(actTail) + 1 > TextMax)
  BY <1>1 DEF Act!AppendText
<1>4. PICK nb : nb = Act!Bounded(Append(b, x))
  OBVIOUS
<1>a. Append(b, x) \in Seq(Chunks)
  BY <1>2
<1>5. nb \in Seq(Chunks) /\ Contained(nb, Append(b, x))
  BY <1>4, <1>a, BoundedText
<1>b. /\ Len(b) \in Nat /\ Len(Append(b, x)) = Len(b) + 1 /\ Append(b, x)[Len(b) + 1] = x
      /\ \A i \in 1 .. Len(b) : Append(b, x)[i] = b[i]
  BY <1>2, Grown
<1>c. \A i \in 1 .. Len(b) + 1 : i \in 1 .. Len(b) \/ i = Len(b) + 1
  BY <1>b
<1>6. actBuffers' = [actBuffers EXCEPT ![m] = nb]
  BY <1>1, <1>4
<1>7. TextTypes'
  <2>1. Append(actTail, x) \in Seq(Chunks) /\ Append(s, x) \in Seq(Chunks)
    BY <1>2
  <2>2. actTail' \in Seq(Chunks) /\ actText' \in Seq(Chunks)
    BY <1>3, <2>1, BoundedText
  <2>3. actTruncated' \in BOOLEAN
    BY <1>3
  <2>4. actBuffers' \in [Messages -> Seq(Chunks)]
    BY <1>0, <1>5, <1>6 DEF TextTypes
  <2> QED
    BY <1>0, <2>2, <2>3, <2>4 DEF TextTypes
<1>8. Act!TextTakenOnce'
  <2> SUFFICES ASSUME ~actGaps', ~actTruncated' PROVE actTaken' \o actTail' = actText'
    BY DEF Act!TextTakenOnce
  <2>1. ~actGaps /\ ~actTruncated /\ ~(Len(actTail) + 1 > TextMax)
    BY <1>3
  <2>2. Append(actTail, x) \in Seq(Chunks) /\ Len(Append(actTail, x)) <= TextMax
    BY <1>0, <1>2, <2>1
  <2>3. actTail' = Append(actTail, x)
    BY <1>3, <2>2, BoundedText
  <2>4. actTaken \o actTail = s
    BY <1>1, <2>1 DEF ActInv, Act!TextTakenOnce
  <2>5. actTaken \o Append(actTail, x) = Append(actTaken \o actTail, x)
    BY <1>2
  <2> QED
    BY <1>3, <2>3, <2>4, <2>5
<1>9. SampleTypes'
  <2>1. CASE x \in Unnamed
    BY <1>0, <2>1 DEF Taken, Act!sampling, SampleTypes
  <2>2. CASE x \notin Unnamed
    BY <1>0, <2>2, RememberStep DEF Taken
  <2> QED
    BY <2>1, <2>2
<1>g. /\ Append(s, x) \in Seq(Chunks) /\ Len(s) \in Nat /\ Len(Append(s, x)) = Len(s) + 1
      /\ \A i \in 1 .. Len(s) : Append(s, x)[i] = s[i]
      /\ Append(s, x)[Len(s) + 1] = x
      /\ Contained(s, Append(s, x))
      /\ Once(Append(s, x)) => Once(s) /\ \A i \in 1 .. Len(s) : s[i] # x
  BY <1>2, Grown
<1>h. \A i \in 1 .. Len(s) + 1 : i \in 1 .. Len(s) \/ i = Len(s) + 1
  BY <1>g
<1>10. ASSUME x \in Unnamed PROVE Sampled'
  <2>1. UNCHANGED <<actSamples, actOrder, actIdentities>>
    BY <1>10 DEF Taken, Act!sampling
  <2> SUFFICES ASSUME NothingForgotten PROVE NothingForgotten'
    BY <2>1 DEF ActInv, Sampled
  <2>2. \A i \in 1 .. Len(s) : s[i] \notin Unnamed => s[i] \in actIdentities /\ actSamples[s[i]] = "SESSION"
    BY <1>1 DEF NothingForgotten
  <2>3. \A i \in 1 .. Len(s) + 1 : actText'[i] \notin Unnamed =>
           actText'[i] \in actIdentities /\ actSamples[actText'[i]] = "SESSION"
    BY <1>3, <1>g, <1>h, <1>10, <2>2
  <2>4. NamedOnce(Append(s, x))
    <3>1. NamedOnce(s)
      BY <1>1 DEF NothingForgotten
    <3> SUFFICES ASSUME NEW i \in 1 .. Len(s) + 1, NEW j \in 1 .. Len(s) + 1,
                        Append(s, x)[i] = Append(s, x)[j], Append(s, x)[i] \notin Unnamed
                 PROVE  i = j
      BY <1>g DEF NamedOnce
    <3> QED
      BY <1>g, <1>h, <1>10, <3>1 DEF NamedOnce
  <2> QED
    BY <1>3, <1>g, <2>1, <2>3, <2>4 DEF NothingForgotten, NamedOnce
<1>11. ASSUME x \notin Unnamed PROVE Sampled'
  <2> SUFFICES ASSUME Cardinality(actIdentities') <= SampleMax PROVE NothingForgotten'
    BY DEF Sampled
  <2>0. /\ Act!Admitted(x, "SESSION") /\ Act!Remember(x, "SESSION")
        /\ actIdentities' = actIdentities \cup {x}
    BY <1>0, <1>11, RememberStep DEF Taken
  <2>1. NothingForgotten
    BY <1>0, <2>0, RememberStep DEF ActInv, Sampled
  <2>2. /\ DOMAIN actSamples' = actIdentities' /\ Len(actOrder') = Cardinality(actIdentities')
        /\ \A i \in actIdentities' : actSamples'[i] = IF i = x THEN "SESSION" ELSE actSamples[i]
    <3>1. DOMAIN actSamples = actIdentities /\ Len(actOrder) = Cardinality(actIdentities)
      BY <2>1 DEF NothingForgotten
    <3>2. /\ DOMAIN actSamples' = actIdentities' /\ Len(actOrder') = Cardinality(actIdentities')
          /\ \A i \in actIdentities' : actSamples'[i] =
                IF i = x /\ Act!Admitted(x, "SESSION") THEN "SESSION" ELSE actSamples[i]
      BY <1>0, <2>0, <3>1, RememberStep
    <3> QED
      BY <2>0, <3>2
  <2>3. \A i \in 1 .. Len(s) : s[i] \notin Unnamed =>
           s[i] \in actIdentities /\ s[i] # x /\ actSamples[s[i]] = "SESSION"
    <3> SUFFICES ASSUME NEW i \in 1 .. Len(s), s[i] \notin Unnamed
                 PROVE  s[i] \in actIdentities /\ s[i] # x /\ actSamples[s[i]] = "SESSION"
      OBVIOUS
    <3>1. s[i] \in actIdentities /\ s[i] \in DOMAIN actSamples /\ actSamples[s[i]] = "SESSION"
      BY <1>1, <2>1 DEF NothingForgotten
    <3> QED
      BY <2>0, <3>1 DEF Act!Admitted
  <2>4. \A i \in 1 .. Len(s) + 1 : actText'[i] \notin Unnamed =>
           actText'[i] \in actIdentities' /\ actSamples'[actText'[i]] = "SESSION"
    BY <1>3, <1>g, <1>h, <2>0, <2>2, <2>3
  <2>5. NamedOnce(Append(s, x))
    <3>1. NamedOnce(s)
      BY <1>1, <2>1 DEF NothingForgotten
    <3>2. \A i \in 1 .. Len(s) : s[i] # x
      BY <1>11, <2>3
    <3> SUFFICES ASSUME NEW i \in 1 .. Len(s) + 1, NEW j \in 1 .. Len(s) + 1,
                        Append(s, x)[i] = Append(s, x)[j], Append(s, x)[i] \notin Unnamed
                 PROVE  i = j
      BY <1>g DEF NamedOnce
    <3> QED
      BY <1>g, <1>h, <3>1, <3>2 DEF NamedOnce
  <2> QED
    BY <1>3, <1>g, <2>2, <2>4, <2>5 DEF NothingForgotten, NamedOnce
<1>12. MessagesApart'
  <2> DEFINE t == Append(s, x)
  <2>1. Contained(actProgress, s) /\ \A k \in Messages : Contained(actBuffers[k], s)
    BY <1>1 DEF ActInv, MessagesApart
  <2>2. Contained(actProgress, t) /\ \A k \in Messages : Contained(actBuffers[k], t)
    BY <1>g, <2>1, ContainedTransitive
  <2>3. Contained(nb, t)
    <3>1. Len(t) \in Nat /\ Len(t) = Len(s) + 1 /\ t[Len(t)] = x /\ Len(t) \in 1 .. Len(t)
      BY <1>g
    <3>2. Contained(b, t)
      BY <1>1, <2>2
    <3>3. Contained(Append(b, x), t)
      <4> HIDE DEF t
      <4> QED
        BY <3>1, <3>2, <1>b, <1>c DEF Contained
    <3> QED
      BY <1>5, <3>3, ContainedTransitive
  <2>4. ASSUME Once(t) PROVE /\ \A k \in Messages : Disjoint(actBuffers'[k], actProgress)
                             /\ \A k, n \in Messages : k # n => Disjoint(actBuffers'[k], actBuffers'[n])
    <3>1. Once(s) /\ \A i \in 1 .. Len(s) : s[i] # x
      BY <1>g, <2>4
    <3>2. /\ \A k \in Messages : Disjoint(actBuffers[k], actProgress)
          /\ \A k, n \in Messages : k # n => Disjoint(actBuffers[k], actBuffers[n])
      BY <1>1, <3>1 DEF ActInv, MessagesApart
    <3>3. \A u : Contained(u, s) => \A j \in 1 .. Len(u) : u[j] # x
      BY <3>1 DEF Contained
    <3>4. \A i \in 1 .. Len(nb) : nb[i] = x \/ \E k \in 1 .. Len(b) : b[k] = nb[i]
      BY <1>5, <1>b, <1>c DEF Contained
    <3>5. \A u : Contained(u, s) /\ Disjoint(b, u) => Disjoint(nb, u) /\ Disjoint(u, nb)
      BY <3>3, <3>4 DEF Disjoint
    <3>6. actBuffers'[m] = nb /\ \A k \in Messages \ {m} : actBuffers'[k] = actBuffers[k]
      BY <1>0, <1>6 DEF TextTypes
    <3>7. Disjoint(nb, actProgress) /\ \A k \in Messages \ {m} : Disjoint(nb, actBuffers[k]) /\ Disjoint(actBuffers[k], nb)
      BY <1>1, <2>1, <3>2, <3>5
    <3> QED
      BY <3>2, <3>6, <3>7
  <2>5. \A k \in Messages : Contained(actBuffers'[k], t)
    BY <1>0, <1>6, <2>2, <2>3 DEF TextTypes
  <2> HIDE DEF t
  <2>6. actText' = t
    BY <1>3 DEF t
  <2> QED
    BY <2>2, <2>4, <2>5, <2>6 DEF MessagesApart
<1> QED
  BY <1>7, <1>8, <1>9, <1>10, <1>11, <1>12

\* An action that leaves the text alone.
LEMMA SameText ==
    ASSUME ActInv, UNCHANGED <<actTail, actTruncated, actBuffers, actProgress, actText, actTaken, actGaps>>
    PROVE  TextTypes' /\ Act!TextTakenOnce' /\ MessagesApart'
<1>1. TextTypes' /\ Act!TextTakenOnce'
  BY DEF ActInv, TextTypes, Act!TextTakenOnce
<1>2. MessagesApart'
  BY DEF ActInv, MessagesApart, Contained, Disjoint, Once
<1> QED
  BY <1>1, <1>2

LEMMA SameSamples ==
    ASSUME ActInv, UNCHANGED Act!sampling, actText' = actText
    PROVE  SampleTypes' /\ Sampled'
BY DEF ActInv, Act!sampling, SampleTypes, Sampled, NothingForgotten, NamedOnce

LEMMA SameWork ==
    ASSUME ActInv, UNCHANGED <<actTools, actModels, actToolAt, actModelAt>>
    PROVE  WorkTypes' /\ ActiveHeld'
BY DEF ActInv, WorkTypes, ActiveHeld

LEMMA ActTextSteps ==
    ASSUME ActInv,
           \/ \E c \in Act!Channels, x \in Chunks, m \in Messages : Act!TextDelta(c, x, m)
           \/ \E m \in Messages : Act!MessageFinished(m)
           \/ Act!TakeSnapshot \/ Act!TakeTerminalText
    PROVE  ActInv'
<1> USE DEF Act!channels, Act!readers
<1>1. ASSUME NEW c \in Act!Channels, NEW x \in Chunks, NEW m \in Messages, Act!TextDelta(c, x, m)
      PROVE  ActInv'
  <2>1. WorkTypes' /\ ActiveHeld'
    BY <1>1, SameWork DEF Act!TextDelta
  <2>2. CASE c = "SESSION" /\ (x \in Unnamed \/ Act!Admitted(x, c))
    <3>1. Taken(x)
      BY <1>1, <2>2 DEF Act!TextDelta, Taken
    <3>2. SampleTypes' /\ TextTypes' /\ Act!TextTakenOnce' /\ Sampled' /\ MessagesApart'
      BY <1>1, <2>2, <3>1, AdmittedDelta DEF Act!TextDelta
    <3> QED
      BY <2>1, <3>2 DEF ActInv
  <2>3. CASE ~(c = "SESSION" /\ (x \in Unnamed \/ Act!Admitted(x, c)))
    <3>1. UNCHANGED <<actTail, actTruncated, actBuffers, actProgress, actText, actTaken, actGaps>>
          /\ (UNCHANGED Act!sampling \/ Act!Remember(x, c))
      BY <1>1, <2>3 DEF Act!TextDelta
    <3> QED
      BY <2>1, <3>1, SameText, SameSamples, RememberKeeps DEF ActInv
  <2> QED
    BY <2>2, <2>3
<1>2. ASSUME NEW m \in Messages, Act!MessageFinished(m) PROVE ActInv'
  <2>1. /\ actProgress' = actBuffers[m] /\ actBuffers' = [actBuffers EXCEPT ![m] = << >>]
        /\ UNCHANGED <<actTail, actTruncated, actText, actTaken, actGaps>>
        /\ UNCHANGED Act!sampling /\ UNCHANGED <<actTools, actModels, actToolAt, actModelAt>>
    BY <1>2 DEF Act!MessageFinished, Act!NoText
  <2>2. WorkTypes' /\ ActiveHeld' /\ SampleTypes' /\ Sampled'
    BY <2>1, SameWork, SameSamples
  <2>3. actBuffers \in [Messages -> Seq(Chunks)] /\ << >> \in Seq(Chunks)
    BY DEF ActInv, TextTypes
  <2>4. TextTypes' /\ Act!TextTakenOnce'
    BY <2>1, <2>3 DEF ActInv, TextTypes, Act!TextTakenOnce
  <2>5. MessagesApart'
    <3>1. PICK p : p = actBuffers[m] /\ p = actProgress'
      BY <2>1
    <3>2. actBuffers'[m] = << >> /\ \A k \in Messages \ {m} : actBuffers'[k] = actBuffers[k]
      BY <2>1, <2>3
    <3>3. \A u : Contained(<< >>, u) /\ Disjoint(<< >>, u) /\ Disjoint(u, << >>)
      BY DEF Contained, Disjoint
    <3>4. Contained(p, actText) /\ \A k \in Messages : Contained(actBuffers'[k], actText)
      BY <3>1, <3>2, <3>3 DEF ActInv, MessagesApart
    <3>5. Once(actText) => \A k \in Messages : Disjoint(actBuffers'[k], p)
      BY <3>1, <3>2, <3>3 DEF ActInv, MessagesApart
    <3>6. Once(actText) => \A k, n \in Messages : k # n => Disjoint(actBuffers'[k], actBuffers'[n])
      BY <3>2, <3>3 DEF ActInv, MessagesApart
    <3> QED
      BY <2>1, <3>1, <3>4, <3>5, <3>6 DEF MessagesApart
  <2> QED
    BY <2>2, <2>4, <2>5 DEF ActInv
<1>3. CASE Act!TakeSnapshot
  <2>1. /\ actTaken' = actTaken \o actTail /\ actGaps' = (actGaps \/ actTruncated)
        /\ actTail' = << >> /\ actTruncated' = FALSE
        /\ UNCHANGED <<actBuffers, actProgress, actText>>
        /\ UNCHANGED Act!sampling /\ UNCHANGED <<actTools, actModels, actToolAt, actModelAt>>
    BY <1>3 DEF Act!TakeSnapshot, Act!NoText
  <2>2. WorkTypes' /\ ActiveHeld' /\ SampleTypes' /\ Sampled'
    BY <2>1, SameWork, SameSamples
  <2>3. MessagesApart'
    BY <2>1 DEF ActInv, MessagesApart, Contained, Disjoint, Once
  <2>4. actTaken \o actTail \in Seq(Chunks) /\ (actTaken \o actTail) \o << >> = actTaken \o actTail
    BY DEF ActInv, TextTypes
  <2>5. << >> \in Seq(Chunks) /\ actGaps' \in BOOLEAN
    BY <2>1
  <2>6. TextTypes'
    BY <2>1, <2>4, <2>5 DEF ActInv, TextTypes
  <2>7. Act!TextTakenOnce'
    BY <2>1, <2>4 DEF ActInv, Act!TextTakenOnce
  <2> QED
    BY <2>2, <2>3, <2>6, <2>7 DEF ActInv
<1>4. CASE Act!TakeTerminalText
  <2>1. /\ UNCHANGED <<actTail, actTruncated, actBuffers, actProgress, actText, actTaken, actGaps>>
        /\ UNCHANGED Act!sampling /\ UNCHANGED <<actTools, actModels, actToolAt, actModelAt>>
    BY <1>4 DEF Act!TakeTerminalText
  <2> QED
    BY <2>1, SameText, SameSamples, SameWork DEF ActInv
<1> QED
  BY <1>1, <1>2, <1>3, <1>4

LEMMA ActWorkSteps ==
    ASSUME ActInv, NEW c \in Act!Channels,
           \/ \E t \in ToolCalls, p \in {"SCHEDULED", "STARTED"} \cup Act!Over : Act!ToolUpdated(c, t, p)
           \/ \E t \in ToolCalls : Act!PermissionResolved(c, t)
           \/ \E r \in ModelRequests, named \in BOOLEAN :
                 Act!ModelStarted(c, r, named) \/ Act!ModelCompleted(c, r, named)
           \/ \E response \in BOOLEAN : Act!TurnEnded(c, response)
    PROVE  ActInv'
<1> USE DEF Act!texts, Act!readers, Act!channels
<1>0. WorkTypes /\ ActiveHeld
  BY DEF ActInv
<1>1. ASSUME NEW t \in ToolCalls, NEW p \in {"SCHEDULED", "STARTED"} \cup Act!Over, Act!ToolUpdated(c, t, p)
      PROVE  ActInv'
  <2>1. /\ actToolAt' = [actToolAt EXCEPT ![c][t] = p]
        /\ actTools' = (IF p \in Act!Over THEN actTools \ {t} ELSE actTools \cup {t})
        /\ UNCHANGED <<actTail, actTruncated, actBuffers, actProgress, actText, actTaken, actGaps>>
        /\ UNCHANGED <<actModels, actModelAt>>
    BY <1>1 DEF Act!ToolUpdated, Act!ToolTransition
  <2>2. SampleTypes' /\ Sampled'
    <3>1. CASE p = "SCHEDULED"
      BY <1>1, <2>1, <3>1, SameSamples DEF Act!ToolUpdated
    <3>2. CASE p # "SCHEDULED"
      BY <1>1, <2>1, <3>2, RememberKeeps DEF Act!ToolUpdated
    <3> QED
      BY <3>1, <3>2
  <2>3. p \in ToolStates
    BY DEF ToolStates, Act!Over
  <2>4. /\ actToolAt' \in [Act!Channels -> [ToolCalls -> ToolStates]]
        /\ actToolAt'[c][t] = p
        /\ \A d \in Act!Channels, u \in ToolCalls : u # t => actToolAt'[d][u] = actToolAt[d][u]
    BY <1>0, <2>1, <2>3 DEF WorkTypes
  <2>5. WorkTypes'
    BY <1>0, <2>1, <2>4 DEF WorkTypes
  <2>6. \A u \in actTools' : u \in ToolCalls /\ \E d \in Act!Channels :
           actToolAt'[d][u] \in {"SCHEDULED", "STARTED"}
    <3>1. CASE p \in Act!Over
      BY <1>0, <2>1, <2>4, <3>1 DEF ActiveHeld
    <3>2. CASE p \notin Act!Over
      <4>1. p \in {"SCHEDULED", "STARTED"}
        BY <3>2
      <4> QED
        BY <1>0, <2>1, <2>4, <3>2, <4>1 DEF ActiveHeld
    <3> QED
      BY <3>1, <3>2
  <2>7. ActiveHeld'
    BY <1>0, <2>1, <2>6 DEF ActiveHeld
  <2> QED
    BY <2>1, <2>2, <2>5, <2>7, SameText DEF ActInv
<1>2. ASSUME NEW t \in ToolCalls, Act!PermissionResolved(c, t) PROVE ActInv'
  <2>1. /\ actTools' = actTools \ {t}
        /\ UNCHANGED <<actTail, actTruncated, actBuffers, actProgress, actText, actTaken, actGaps>>
        /\ UNCHANGED Act!sampling /\ UNCHANGED <<actModels, actToolAt, actModelAt>>
    BY <1>2 DEF Act!PermissionResolved
  <2>2. WorkTypes' /\ ActiveHeld'
    BY <1>0, <2>1 DEF WorkTypes, ActiveHeld
  <2> QED
    BY <2>1, <2>2, SameText, SameSamples DEF ActInv
<1>3. ASSUME NEW r \in ModelRequests, NEW named \in BOOLEAN, Act!ModelStarted(c, r, named)
      PROVE  ActInv'
  <2>0. PICK at, id : /\ at = (IF named THEN "STARTED" ELSE "UNNAMED")
                      /\ id = (IF named THEN r ELSE Act!ModelRequest)
    OBVIOUS
  <2>1. /\ actModels' = actModels \cup {id} /\ actModelAt' = [actModelAt EXCEPT ![c][r] = at]
        /\ actModelAt[c][r] = "NEW"
        /\ UNCHANGED <<actTail, actTruncated, actBuffers, actProgress, actText, actTaken, actGaps>>
        /\ UNCHANGED Act!sampling /\ UNCHANGED <<actTools, actToolAt>>
    BY <1>3, <2>0 DEF Act!ModelStarted
  <2>2. /\ actModelAt' \in [Act!Channels -> [ModelRequests -> ModelStates]]
        /\ actModelAt'[c][r] = at
        /\ \A d \in Act!Channels, q \in ModelRequests :
              actModelAt'[d][q] = actModelAt[d][q] \/ actModelAt[d][q] = "NEW"
    BY <1>0, <2>0, <2>1 DEF WorkTypes, ModelStates
  <2>3. WorkTypes' /\ ActiveHeld'
    BY <1>0, <2>0, <2>1, <2>2 DEF WorkTypes, ActiveHeld
  <2> QED
    BY <2>1, <2>3, SameText, SameSamples DEF ActInv
<1>4. ASSUME NEW r \in ModelRequests, NEW named \in BOOLEAN, Act!ModelCompleted(c, r, named)
      PROVE  ActInv'
  <2>0. actModels' = {} \/ (actModels' = actModels \ {r} /\ actModelAt[c][r] = "STARTED")
    <3>1. actModelAt[c][r] \in IF named THEN {"STARTED"} ELSE {"STARTED", "UNNAMED"}
      BY <1>4 DEF Act!ModelCompleted
    <3>2. actModels' = IF named THEN actModels \ {r} ELSE {}
      BY <1>4 DEF Act!ModelCompleted
    <3>3. CASE named
      BY <3>1, <3>2, <3>3
    <3>4. CASE ~named
      BY <3>2, <3>4
    <3> QED
      BY <3>3, <3>4
  <2>1. /\ actModelAt' = [actModelAt EXCEPT ![c][r] = "COMPLETED"]
        /\ UNCHANGED <<actTail, actTruncated, actBuffers, actProgress, actText, actTaken, actGaps>>
        /\ UNCHANGED Act!sampling /\ UNCHANGED <<actTools, actToolAt>>
    BY <1>4 DEF Act!ModelCompleted
  <2>2. /\ actModelAt' \in [Act!Channels -> [ModelRequests -> ModelStates]]
        /\ \A d \in Act!Channels, q \in ModelRequests :
              actModelAt'[d][q] = actModelAt[d][q] \/ (d = c /\ q = r)
    <3>1. actModelAt \in [Act!Channels -> [ModelRequests -> ModelStates]] /\ "COMPLETED" \in ModelStates
      BY <1>0 DEF WorkTypes, ModelStates
    <3>2. actModelAt' = [actModelAt EXCEPT ![c] = [@ EXCEPT ![r] = "COMPLETED"]]
      BY <2>1
    <3> QED
      BY <3>1, <3>2
  <2>3. CASE actModels' = {}
    BY <1>0, <2>1, <2>2, <2>3, SameText, SameSamples DEF ActInv, WorkTypes, ActiveHeld
  <2>4. CASE actModels' = actModels \ {r} /\ actModelAt[c][r] = "STARTED"
    <3>1. \A q \in actModels' : \E d \in Act!Channels :
             \/ q \in ModelRequests /\ actModelAt'[d][q] = "STARTED"
             \/ q = Act!ModelRequest /\ \E u \in ModelRequests : actModelAt'[d][u] = "UNNAMED"
      BY <1>0, <2>2, <2>4 DEF ActiveHeld
    <3>2. WorkTypes' /\ ActiveHeld'
      BY <1>0, <2>1, <2>2, <3>1 DEF WorkTypes, ActiveHeld
    <3> QED
      BY <2>1, <3>2, SameText, SameSamples DEF ActInv
  <2> QED
    BY <2>0, <2>3, <2>4
<1>5. ASSUME NEW response \in BOOLEAN, Act!TurnEnded(c, response) PROVE ActInv'
  <2>1. /\ actTools' = {} /\ actModels' = {}
        /\ UNCHANGED <<actTail, actTruncated, actBuffers, actProgress, actText, actTaken, actGaps>>
        /\ UNCHANGED Act!sampling
    BY <1>5 DEF Act!TurnEnded
  <2>2. ActiveHeld'
    BY <2>1 DEF ActiveHeld
  <2>3. actToolAt' \in [Act!Channels -> [ToolCalls -> ToolStates]]
    <3>1. actToolAt' = [actToolAt EXCEPT ![c] = [t \in ToolCalls |->
                           IF actToolAt[c][t] = "NEW" THEN "NEW" ELSE "FAILED"]]
      BY <1>0, <1>5 DEF Act!TurnEnded, WorkTypes
    <3> QED
      BY <1>0, <3>1 DEF WorkTypes, ToolStates
  <2>4. actModelAt' \in [Act!Channels -> [ModelRequests -> ModelStates]]
    <3>1. actModelAt' = [actModelAt EXCEPT ![c] = [r \in ModelRequests |->
                           IF actModelAt[c][r] = "NEW" THEN "NEW" ELSE "COMPLETED"]]
      BY <1>0, <1>5 DEF Act!TurnEnded, WorkTypes
    <3> QED
      BY <1>0, <3>1 DEF WorkTypes, ModelStates
  <2> QED
    BY <2>1, <2>2, <2>3, <2>4, SameText, SameSamples DEF ActInv, WorkTypes
<1> QED
  BY <1>1, <1>2, <1>3, <1>4, <1>5

LEMMA ActStep == ActInv /\ [Act!Next]_(Act!vars) => ActInv'
<1> SUFFICES ASSUME ActInv, [Act!Next]_(Act!vars) PROVE ActInv'
  OBVIOUS
<1>1. CASE UNCHANGED Act!vars
  <2>1. /\ UNCHANGED <<actTail, actTruncated, actBuffers, actProgress, actText, actTaken, actGaps>>
        /\ UNCHANGED Act!sampling /\ UNCHANGED <<actTools, actModels, actToolAt, actModelAt>>
    BY <1>1 DEF Act!vars, Act!texts, Act!readers, Act!channels
  <2> QED
    BY <2>1, SameText, SameSamples, SameWork DEF ActInv
<1>2. CASE Act!Next
  BY <1>2, ActTextSteps, ActWorkSteps DEF Act!Next
<1> QED
  BY <1>1, <1>2

\* The activity of a run, for any text, messages, tool calls and requests and every
\* limit of the tracker, in whatever way its two channels are interleaved: text is
\* admitted, shown as progress and taken once or a gap is declared, and nothing that
\* both channels are done with stays active (PassiveActivityTracker).
THEOREM ActivityStaysTrue == Act!Spec => []ActivityIsTrue
<1>1. ActInv => ActivityIsTrue
  <2> SUFFICES ASSUME ActInv PROVE ActivityIsTrue
    OBVIOUS
  <2>1. Act!TextAdmittedOnce
    BY SameActCardinality DEF ActInv, Sampled, NothingForgotten, NamedOnce, Act!TextAdmittedOnce
  <2>2. Act!ProgressIsFinished
    BY DEF ActInv, MessagesApart, Once, Disjoint, Act!ProgressIsFinished
  <2>3. Act!NothingActiveWhenDone
    <3>1. (\A c \in Act!Channels, t \in ToolCalls : actToolAt[c][t] \in Act!Over \cup {"NEW"})
             => actTools = {}
      <4>1. \A p \in {"SCHEDULED", "STARTED"} : p \notin Act!Over \cup {"NEW"}
        BY DEF Act!Over
      <4> QED
        BY <4>1 DEF ActInv, ActiveHeld
    <3>2. (\A c \in Act!Channels, r \in ModelRequests : actModelAt[c][r] \in {"NEW", "COMPLETED"})
             => actModels = {}
      BY DEF ActInv, ActiveHeld
    <3> QED
      BY <3>1, <3>2 DEF Act!NothingActiveWhenDone
  <2> QED
    BY <2>1, <2>2, <2>3 DEF ActInv, ActivityIsTrue
<1> QED
  BY <1>1, ActInit, ActStep, PTL DEF Act!Spec

-----------------------------------------------------------------------------
(***************************************************************************)
(* The snapshot that callers poll (Observation)                            *)
(***************************************************************************)

Entries == [seq : Nat, call : Calls, arguments : Arguments]
Groups == [count : Nat, latest : Nat, recent : Seq(Entries)]
Numbered == [name : Names, seq : Nat]

ObsTypes ==
    /\ obsSnapshotSeq \in Nat /\ obsNextCallSeq \in Nat
    /\ obsTools \in [Names -> Groups]
    /\ \A c \in DOMAIN obsSeenCalls : obsSeenCalls[c] \in Numbered

FewEvents == IsFiniteSet(obsSeenEvents) /\ Cardinality(obsSeenEvents) <= IdMax
FewCalls == IsFiniteSet(DOMAIN obsSeenCalls) /\ Cardinality(DOMAIN obsSeenCalls) <= IdMax
FewGroups == IsFiniteSet(Obs!Grouped) /\ Cardinality(Obs!Grouped) <= TypeMax

CallsOf(n, known) == {c \in DOMAIN known : known[c].name = n}

\* The group of a tool counts the calls that are known under its name, and shows the
\* newest of them, newest first, with the numbers they are known by.
Listed(n, recent, known) ==
    /\ \A i \in 1 .. Len(recent) :
          /\ recent[i].call \in DOMAIN known
          /\ known[recent[i].call] = [name |-> n, seq |-> recent[i].seq]
    /\ \A i \in 1 .. Len(recent) - 1 : recent[i].seq > recent[i + 1].seq

Counted(g, n, known, last) ==
    /\ g.count = Cardinality(CallsOf(n, known))
    /\ g.count = 0 => g = Obs!NoGroup
    /\ g.latest <= last
    /\ Len(g.recent) = IF g.count < RecentMax THEN g.count ELSE RecentMax
    /\ g.count > 0 => g.recent[1].seq = g.latest

GroupHolds(g, n, known, last) == Counted(g, n, known, last) /\ Listed(n, g.recent, known)

GroupsHold ==
    \A n \in Names : GroupHolds(obsTools[n], n, obsSeenCalls, obsNextCallSeq)

\* What is said to be complete is, and text beyond the tail is said to be cut.
CompleteHeld ==
    /\ obsToolsComplete => DOMAIN obsSeenCalls = obsCalled
    /\ obsReasoningComplete => obsRaw = obsThought
    /\ Len(obsRaw) > TailMax => obsTruncated

ObsInv == ObsTypes /\ FewEvents /\ FewCalls /\ FewGroups /\ GroupsHold /\ CompleteHeld

LEMMA SameObsCardinality == \A S : Obs!Cardinality(S) = Cardinality(S)
BY DEF Obs!Cardinality, Cardinality

LEMMA ObsLimits ==
    /\ IdMax \in Nat /\ TypeMax \in Nat /\ RecentMax \in Nat /\ RecentMax # 0
    /\ RawMax \in Nat /\ TailMax \in Nat
BY ObsBounds DEF Obs!LimitsAssumption

LEMMA ObsInit == Obs!Init => ObsInv
<1> SUFFICES ASSUME Obs!Init PROVE ObsInv
  OBVIOUS
<1>0. /\ obsTools = [n \in Names |-> Obs!NoGroup] /\ obsSeenCalls = << >> /\ obsSeenEvents = {}
      /\ obsNextCallSeq = 0 /\ obsSnapshotSeq = 0 /\ obsRaw = << >> /\ obsThought = << >>
      /\ obsCalled = {} /\ DOMAIN obsSeenCalls = {}
  BY DEF Obs!Init
<1>1. Obs!NoGroup \in Groups
  <2>1. << >> \in Seq(Entries)
    OBVIOUS
  <2> QED
    BY <2>1 DEF Groups, Obs!NoGroup
<1>2. ObsTypes
  BY <1>0, <1>1 DEF ObsTypes
<1>3. IsFiniteSet({}) /\ Cardinality({}) = 0
  BY FS_EmptySet
<1>4. FewEvents /\ FewCalls
  BY <1>0, <1>3, ObsLimits DEF FewEvents, FewCalls
<1>5. Obs!Grouped = {}
  BY <1>0 DEF Obs!Grouped
<1>6. FewGroups
  BY <1>3, <1>5, ObsLimits DEF FewGroups
<1>7. GroupsHold
  <2> SUFFICES ASSUME NEW n \in Names PROVE GroupHolds(obsTools[n], n, obsSeenCalls, obsNextCallSeq)
    BY DEF GroupsHold
  <2>1. CallsOf(n, obsSeenCalls) = {}
    BY <1>0 DEF CallsOf
  <2>2. obsTools[n].count = 0 /\ obsTools[n].latest = 0 /\ obsTools[n].recent = << >>
        /\ obsTools[n] = Obs!NoGroup /\ Len(obsTools[n].recent) = 0
    BY <1>0 DEF Obs!NoGroup
  <2>a. 0 < RecentMax /\ ~(0 > 0) /\ 0 <= 0
    BY ObsLimits
  <2>3. Counted(obsTools[n], n, obsSeenCalls, obsNextCallSeq)
    BY <1>0, <1>3, <2>1, <2>2, <2>a DEF Counted
  <2>4. Listed(n, obsTools[n].recent, obsSeenCalls)
    BY <2>2 DEF Listed
  <2> QED
    BY <2>3, <2>4 DEF GroupHolds
<1>8. CompleteHeld
  <2>1. Len(obsRaw) = 0
    BY <1>0
  <2> QED
    BY <1>0, <2>1, ObsLimits DEF CompleteHeld
<1> QED
  BY <1>2, <1>4, <1>6, <1>7, <1>8 DEF ObsInv

\* What putting a call first does to the calls that are shown.
PutFirst(r, x, s) ==
    /\ r \in Seq(Entries) /\ Len(r) \in Nat /\ Len(s) \in Nat
    /\ Len(r) = IF Len(s) + 1 > RecentMax THEN RecentMax ELSE Len(s) + 1
    /\ Len(r) > 0 /\ r[1] = x
    /\ \A i \in 1 .. Len(r) : i # 1 => i - 1 \in 1 .. Len(s) /\ r[i] = s[i - 1]

LEMMA RecentAdded ==
    ASSUME NEW s \in Seq(Entries), NEW x \in Entries, NEW r, r = Obs!FirstOf(<<x>> \o s, RecentMax)
    PROVE  PutFirst(r, x, s)
<1>1. PICK t : t = <<x>> \o s
  OBVIOUS
<1>2. /\ t \in Seq(Entries) /\ Len(t) = Len(s) + 1 /\ Len(s) \in Nat
  BY <1>1
<1>3. t[1] = x /\ \A i \in 1 .. Len(t) : i # 1 => i - 1 \in 1 .. Len(s) /\ t[i] = s[i - 1]
  BY <1>1, <1>2
<1>4. CASE Len(t) > RecentMax
  <2>1. r = SubSeq(t, 1, RecentMax)
    BY <1>1, <1>4 DEF Obs!FirstOf
  <2>a. \A i \in 1 .. RecentMax : i \in 1 .. Len(t) /\ t[i] \in Entries
    BY <1>2, <1>4, ObsLimits
  <2>b. 1 \in Int /\ RecentMax \in Int
    BY ObsLimits
  <2>c. /\ r \in Seq(Entries) /\ Len(r) = IF 1 <= RecentMax THEN RecentMax - 1 + 1 ELSE 0
        /\ \A i \in 1 .. RecentMax - 1 + 1 : r[i] = t[1 + i - 1]
    BY <2>1, <2>a, <2>b, SubSeqProperties
  <2>2. r \in Seq(Entries) /\ Len(r) = RecentMax /\ \A i \in 1 .. RecentMax : r[i] = t[i]
    BY <2>c, ObsLimits
  <2>3. Len(s) + 1 > RecentMax /\ Len(r) \in Nat /\ Len(r) > 0
    BY <1>2, <1>4, <2>2, ObsLimits
  <2>4. Len(r) = IF Len(s) + 1 > RecentMax THEN RecentMax ELSE Len(s) + 1
    BY <2>2, <2>3
  <2>5. r[1] = x /\ \A i \in 1 .. Len(r) : i # 1 => i - 1 \in 1 .. Len(s) /\ r[i] = s[i - 1]
    <3>1. 1 \in 1 .. RecentMax
      BY ObsLimits
    <3> QED
      BY <1>3, <2>2, <2>a, <3>1
  <2> QED
    BY <1>2, <2>2, <2>3, <2>4, <2>5 DEF PutFirst
<1>5. CASE ~(Len(t) > RecentMax)
  <2>1. r = t
    BY <1>1, <1>5 DEF Obs!FirstOf
  <2>2. Len(r) = Len(s) + 1 /\ ~(Len(s) + 1 > RecentMax) /\ Len(r) \in Nat /\ Len(r) > 0
    BY <1>2, <1>5, <2>1
  <2>3. Len(r) = IF Len(s) + 1 > RecentMax THEN RecentMax ELSE Len(s) + 1
    BY <2>2
  <2> QED
    BY <1>2, <1>3, <2>1, <2>2, <2>3 DEF PutFirst
<1> QED
  BY <1>4, <1>5

\* The calls of a tool when a call comes to be known.
LEMMA CallsOfAdded ==
    ASSUME NEW known, IsFiniteSet(DOMAIN known), NEW c, c \notin DOMAIN known, NEW n, NEW q,
           NEW after, after = [k \in DOMAIN known \cup {c} |->
                                  IF k = c THEN [name |-> n, seq |-> q] ELSE known[k]]
    PROVE  /\ DOMAIN after = DOMAIN known \cup {c} /\ after[c] = [name |-> n, seq |-> q]
           /\ \A k \in DOMAIN known : after[k] = known[k]
           /\ \A m : m # n => CallsOf(m, after) = CallsOf(m, known)
           /\ Cardinality(CallsOf(n, known)) \in Nat
           /\ Cardinality(CallsOf(n, after)) = Cardinality(CallsOf(n, known)) + 1
<1>1. /\ DOMAIN after = DOMAIN known \cup {c} /\ after[c] = [name |-> n, seq |-> q]
      /\ \A k \in DOMAIN known : after[k] = known[k]
  OBVIOUS
<1>2. after[c].name = n
  BY <1>1
<1>3. \A m : m # n => CallsOf(m, after) = CallsOf(m, known)
  BY <1>1, <1>2 DEF CallsOf
<1>4. CallsOf(n, after) = CallsOf(n, known) \cup {c}
  BY <1>1, <1>2 DEF CallsOf
<1>5. IsFiniteSet(CallsOf(n, known)) /\ c \notin CallsOf(n, known)
  BY FS_Subset DEF CallsOf
<1>6. Cardinality(CallsOf(n, known)) \in Nat
  BY <1>5, FS_CardinalityType
<1>7. Cardinality(CallsOf(n, after)) = Cardinality(CallsOf(n, known)) + 1
  BY <1>4, <1>5, FS_AddElement
<1> QED
  BY <1>1, <1>3, <1>6, <1>7

\* The group of another tool is as it was.
LEMMA OtherGroup ==
    ASSUME NEW known, NEW after, NEW m, NEW g \in Groups, NEW q \in Nat,
           \A k \in DOMAIN known : k \in DOMAIN after /\ after[k] = known[k],
           CallsOf(m, after) = CallsOf(m, known), GroupHolds(g, m, known, q)
    PROVE  GroupHolds(g, m, after, q + 1)
<1>1. g.latest \in Nat /\ g.latest <= q + 1
  BY DEF Groups, GroupHolds, Counted
<1>2. Counted(g, m, after, q + 1)
  BY <1>1 DEF GroupHolds, Counted
<1>3. Listed(m, g.recent, after)
  BY DEF GroupHolds, Listed
<1> QED
  BY <1>2, <1>3 DEF GroupHolds

\* The group of the tool that is called.
LEMMA OwnGroup ==
    ASSUME NEW known, NEW after, NEW n, NEW c \in Calls, NEW a \in Arguments, NEW g \in Groups, NEW q \in Nat,
           \A k \in DOMAIN known : k \in DOMAIN after /\ after[k] = known[k],
           c \in DOMAIN after, after[c] = [name |-> n, seq |-> q + 1],
           Cardinality(CallsOf(n, after)) = Cardinality(CallsOf(n, known)) + 1,
           GroupHolds(g, n, known, q),
           NEW h, NEW x, x = [seq |-> q + 1, call |-> c, arguments |-> a],
           h = [count |-> g.count + 1, latest |-> q + 1,
                recent |-> Obs!FirstOf(<<x>> \o g.recent, RecentMax)]
    PROVE  h \in Groups /\ h.count > 0 /\ GroupHolds(h, n, after, q + 1)
<1>1. PICK s, r, k : s = g.recent /\ r = h.recent /\ k = g.count
  OBVIOUS
<1>2. s \in Seq(Entries) /\ k \in Nat /\ g.latest \in Nat /\ x \in Entries
  BY <1>1 DEF Groups, Entries
<1>3. /\ r \in Seq(Entries) /\ Len(r) \in Nat /\ Len(s) \in Nat
      /\ Len(r) = IF Len(s) + 1 > RecentMax THEN RecentMax ELSE Len(s) + 1
      /\ Len(r) > 0 /\ r[1] = x
      /\ \A i \in 1 .. Len(r) : i # 1 => i - 1 \in 1 .. Len(s) /\ r[i] = s[i - 1]
  <2>1. r = Obs!FirstOf(<<x>> \o s, RecentMax)
    BY <1>1
  <2>2. PutFirst(r, x, s)
    BY <1>2, <2>1, RecentAdded
  <2> QED
    BY <2>2 DEF PutFirst
<1>4. h.count = k + 1 /\ h.latest = q + 1 /\ h = [count |-> k + 1, latest |-> q + 1, recent |-> r]
  BY <1>1
<1>5. h \in Groups /\ h.count > 0 /\ h.count # 0
  BY <1>2, <1>3, <1>4 DEF Groups
<1>6. Len(s) = IF k < RecentMax THEN k ELSE RecentMax
  BY <1>1 DEF GroupHolds, Counted
<1>7. Len(r) = IF k + 1 < RecentMax THEN k + 1 ELSE RecentMax
  BY <1>2, <1>3, <1>6, ObsLimits
<1>8. k = Cardinality(CallsOf(n, known)) /\ (k > 0 => s[1].seq = g.latest) /\ g.latest <= q
  BY <1>1 DEF GroupHolds, Counted
<1>9. Counted(h, n, after, q + 1)
  <2>1. h.count = Cardinality(CallsOf(n, after))
    BY <1>4, <1>8
  <2>2. h.latest <= q + 1
    BY <1>4
  <2>3. h.recent[1].seq = h.latest
    BY <1>1, <1>3, <1>4
  <2> QED
    BY <1>1, <1>4, <1>5, <1>7, <2>1, <2>2, <2>3 DEF Counted
<1>10. Listed(n, r, after)
  <2>1. Listed(n, s, known)
    BY <1>1 DEF GroupHolds
  <2>2. ASSUME NEW i \in 1 .. Len(r)
        PROVE  r[i].call \in DOMAIN after /\ after[r[i].call] = [name |-> n, seq |-> r[i].seq]
    <3>1. CASE i = 1
      <4>1. r[i].call = c /\ r[i].seq = q + 1
        BY <1>3, <3>1
      <4> QED
        BY <4>1
    <3>2. CASE i # 1
      <4>1. PICK j \in 1 .. Len(s) : r[i] = s[j]
        BY <1>3, <3>2
      <4>2. s[j].call \in DOMAIN known /\ known[s[j].call] = [name |-> n, seq |-> s[j].seq]
        BY <2>1 DEF Listed
      <4> QED
        BY <4>1, <4>2
    <3> QED
      BY <3>1, <3>2
  <2>3. ASSUME NEW i \in 1 .. Len(r) - 1 PROVE r[i].seq > r[i + 1].seq
    <3>0. i \in 1 .. Len(r) /\ i + 1 \in 1 .. Len(r) /\ i + 1 # 1 /\ (i + 1) - 1 = i
      BY <1>3
    <3>1. i \in 1 .. Len(s) /\ r[i + 1] = s[i]
      BY <1>3, <3>0
    <3>2. CASE i = 1
      <4>1. r[i].seq = q + 1
        BY <1>3, <3>2
      <4>2. k > 0
        BY <1>2, <1>3, <1>6, <3>1, ObsLimits
      <4>3. r[i + 1].seq = g.latest
        BY <1>8, <3>1, <3>2, <4>2
      <4> QED
        BY <1>2, <1>8, <4>1, <4>3
    <3>3. CASE i # 1
      <4>1. i - 1 \in 1 .. Len(s) - 1 /\ (i - 1) + 1 = i
        BY <1>3, <3>1, <3>3
      <4>2. r[i] = s[i - 1]
        BY <1>3, <3>0, <3>3
      <4>3. s[i - 1].seq > s[(i - 1) + 1].seq
        BY <2>1, <4>1 DEF Listed
      <4> QED
        BY <3>1, <4>1, <4>2, <4>3
    <3> QED
      BY <3>2, <3>3
  <2> QED
    BY <2>2, <2>3 DEF Listed
<1> QED
  BY <1>1, <1>5, <1>9, <1>10 DEF GroupHolds

\* A group whose calls change only their arguments.
WithArguments(g, shown, a) ==
    [g EXCEPT !.recent =
        [i \in DOMAIN @ |-> IF i \in shown THEN [@[i] EXCEPT !.arguments = a] ELSE @[i]]]

LEMMA ArgumentsChanged ==
    ASSUME NEW g \in Groups, NEW n, NEW known, NEW q, g.count # 0, GroupHolds(g, n, known, q),
           NEW shown, NEW a \in Arguments, NEW h, h = WithArguments(g, shown, a)
    PROVE  h \in Groups /\ h.count = g.count /\ GroupHolds(h, n, known, q)
<1>1. PICK s, r : s = g.recent /\ r = h.recent
  OBVIOUS
<1>2. s \in Seq(Entries) /\ Len(s) \in Nat /\ DOMAIN s = 1 .. Len(s)
  BY <1>1 DEF Groups
<1>3. r = [i \in 1 .. Len(s) |-> IF i \in shown THEN [s[i] EXCEPT !.arguments = a] ELSE s[i]]
  BY <1>1, <1>2 DEF Groups, WithArguments
<1>4. \A i \in 1 .. Len(s) : s[i] \in Entries
  BY <1>2
<1>5. \A i \in 1 .. Len(s) : r[i] \in Entries /\ r[i].seq = s[i].seq /\ r[i].call = s[i].call
  <2> SUFFICES ASSUME NEW i \in 1 .. Len(s)
               PROVE  r[i] \in Entries /\ r[i].seq = s[i].seq /\ r[i].call = s[i].call
    OBVIOUS
  <2>1. s[i] \in Entries
    BY <1>4
  <2>2. CASE i \in shown
    <3>1. r[i] = [s[i] EXCEPT !.arguments = a]
      BY <1>3, <2>2
    <3> QED
      BY <2>1, <3>1 DEF Entries
  <2>3. CASE i \notin shown
    <3>1. r[i] = s[i]
      BY <1>3, <2>3
    <3> QED
      BY <2>1, <3>1
  <2> QED
    BY <2>2, <2>3
<1>6. r \in Seq(Entries) /\ Len(r) = Len(s)
  <2>1. r = [i \in 1 .. Len(s) |-> r[i]]
    BY <1>3
  <2>2. r \in Seq(Entries)
    BY <1>2, <1>5, <2>1, IsASeq
  <2>3. DOMAIN r = 1 .. Len(s)
    BY <1>3
  <2> QED
    BY <1>2, <2>2, <2>3, LenProperties
<1>7. /\ h = [count |-> g.count, latest |-> g.latest, recent |-> r]
      /\ h.count = g.count /\ h.latest = g.latest
  BY <1>1 DEF Groups, WithArguments
<1>8. h \in Groups
  <2>1. PICK k \in Nat, l \in Nat : k = g.count /\ l = g.latest
    BY DEF Groups
  <2>2. [count |-> k, latest |-> l, recent |-> r] \in Groups
    BY <1>6 DEF Groups
  <2> QED
    BY <1>7, <2>1, <2>2
<1>9. Counted(h, n, known, q)
  <2>1. g.count > 0 => Len(s) > 0
    <3>1. Len(s) = IF g.count < RecentMax THEN g.count ELSE RecentMax
      BY <1>1 DEF GroupHolds, Counted
    <3> QED
      BY <3>1, ObsLimits DEF Groups
  <2>2. g.count > 0 => r[1].seq = g.latest
    <3>1. g.count > 0 => 1 \in 1 .. Len(s)
      BY <1>2, <2>1
    <3>2. g.count > 0 => s[1].seq = g.latest
      BY <1>1 DEF GroupHolds, Counted
    <3> QED
      BY <1>5, <3>1, <3>2
  <2> QED
    BY <1>1, <1>6, <1>7, <2>2 DEF GroupHolds, Counted
<1>10. Listed(n, r, known)
  <2>1. Listed(n, s, known)
    BY <1>1 DEF GroupHolds
  <2>2. \A i \in 1 .. Len(s) - 1 : i \in 1 .. Len(s) /\ i + 1 \in 1 .. Len(s)
    BY <1>2
  <2> QED
    BY <1>5, <1>6, <2>1, <2>2 DEF Listed
<1> QED
  BY <1>1, <1>7, <1>8, <1>9, <1>10 DEF GroupHolds

\* The steps that only lose something, and the ones that only tell of text.
LEMMA TablesKept ==
    ASSUME ObsInv, UNCHANGED <<obsSeenCalls, obsNextCallSeq, obsTools>>, obsSnapshotSeq' \in Nat
    PROVE  ObsTypes' /\ FewCalls' /\ FewGroups' /\ GroupsHold'
<1>1. obsSeenCalls' = obsSeenCalls /\ obsNextCallSeq' = obsNextCallSeq /\ obsTools' = obsTools
  OBVIOUS
<1>2. Obs!Grouped' = Obs!Grouped
  BY <1>1 DEF Obs!Grouped
<1> QED
  BY <1>1, <1>2 DEF ObsInv, ObsTypes, FewCalls, FewGroups, GroupsHold

\* An event that is remembered found room.
LEMMA EventAdded ==
    ASSUME ObsInv, NEW e, Obs!New(e), obsSeenEvents' = obsSeenEvents \cup {e}
    PROVE  FewEvents'
<1>1. IsFiniteSet(obsSeenEvents) /\ e \notin obsSeenEvents /\ ~(Cardinality(obsSeenEvents) >= IdMax)
  BY SameObsCardinality DEF ObsInv, FewEvents, Obs!New, Obs!Full
<1>2. PICK k \in Nat : k = Cardinality(obsSeenEvents)
  BY <1>1, FS_CardinalityType
<1>3. IsFiniteSet(obsSeenEvents') /\ Cardinality(obsSeenEvents') = k + 1
  BY <1>1, <1>2, FS_AddElement
<1>4. k + 1 <= IdMax
  BY <1>1, <1>2, ObsLimits
<1> QED
  BY <1>3, <1>4 DEF FewEvents

\* The events that are lost, and the ones that tell of text.
LEMMA ObsTextSteps ==
    ASSUME ObsInv,
           \/ Obs!ObserveLoss
           \/ \E tool \in BOOLEAN : Obs!NoEventId(tool) \/ \E e \in Events : Obs!TooManyEvents(e, tool)
           \/ \E e \in Events : Obs!ObserveReasoning(e) \/ Obs!NoDelta(e)
    PROVE  ObsInv' /\ obsSnapshotSeq' > obsSnapshotSeq
<1>0. obsSnapshotSeq \in Nat
  BY DEF ObsInv, ObsTypes
<1> USE DEF Obs!seen, Obs!history, Obs!Bump, Obs!DropEvent
<1>1. /\ UNCHANGED <<obsSeenCalls, obsNextCallSeq, obsTools>>
      /\ obsSnapshotSeq' = obsSnapshotSeq + 1
  BY DEF Obs!ObserveLoss, Obs!NoEventId, Obs!TooManyEvents, Obs!ObserveReasoning, Obs!NoDelta
<1>2. obsSnapshotSeq' \in Nat /\ obsSnapshotSeq' > obsSnapshotSeq
  BY <1>0, <1>1
<1>3. FewEvents'
  <2>1. CASE obsSeenEvents' = obsSeenEvents
    BY <2>1 DEF ObsInv, FewEvents
  <2>2. CASE \E e \in Events : Obs!New(e) /\ obsSeenEvents' = obsSeenEvents \cup {e}
    BY <2>2, EventAdded
  <2> QED
    BY <2>1, <2>2
       DEF Obs!ObserveLoss, Obs!NoEventId, Obs!TooManyEvents, Obs!ObserveReasoning, Obs!NoDelta
<1>4. CompleteHeld'
  <2>0. CompleteHeld /\ obsSeenCalls' = obsSeenCalls
    BY <1>1 DEF ObsInv
  <2>1. CASE Obs!ObserveLoss
    BY <2>0, <2>1 DEF CompleteHeld, Obs!ObserveLoss
  <2>2. CASE \E tool \in BOOLEAN : Obs!NoEventId(tool)
    BY <2>0, <2>2 DEF CompleteHeld, Obs!NoEventId
  <2>3. CASE \E tool \in BOOLEAN : \E e \in Events : Obs!TooManyEvents(e, tool)
    BY <2>0, <2>3 DEF CompleteHeld, Obs!TooManyEvents
  <2>4. ASSUME NEW e \in Events, Obs!ObserveReasoning(e) PROVE CompleteHeld'
    <3>1. PICK t : t = Append(obsRaw, e)
      OBVIOUS
    <3>2. /\ obsRaw' = Obs!LastOf(t, RawMax)
          /\ obsTruncated' = (obsTruncated \/ Len(t) > RawMax \/ Len(obsRaw') > TailMax)
          /\ obsReasoningComplete' => obsReasoningComplete /\ ~(Len(t) > RawMax)
          /\ obsThought' = Append(obsThought, e)
          /\ obsToolsComplete' = obsToolsComplete /\ obsCalled' = obsCalled
      BY <2>4, <3>1 DEF Obs!ObserveReasoning
    <3>3. obsReasoningComplete' => obsRaw' = t /\ obsThought' = t
      BY <2>0, <3>1, <3>2 DEF CompleteHeld, Obs!LastOf
    <3> QED
      BY <2>0, <3>2, <3>3 DEF CompleteHeld
  <2>5. CASE \E e \in Events : Obs!NoDelta(e)
    BY <2>0, <2>5 DEF CompleteHeld, Obs!NoDelta
  <2> QED
    BY <2>1, <2>2, <2>3, <2>4, <2>5
<1> QED
  BY <1>1, <1>2, <1>3, <1>4, TablesKept DEF ObsInv

\* The calls that find no room, or no id.
LEMMA ObsCallLost ==
    ASSUME ObsInv, NEW e \in Events,
           Obs!NoCallId(e) \/ \E c \in Calls, n \in Names : Obs!TooManyCalls(e, c, n)
    PROVE  ObsInv' /\ obsSnapshotSeq' > obsSnapshotSeq
<1>0. obsSnapshotSeq \in Nat /\ CompleteHeld
  BY DEF ObsInv, ObsTypes
<1>1. /\ UNCHANGED <<obsSeenCalls, obsNextCallSeq, obsTools>>
      /\ obsSnapshotSeq' = obsSnapshotSeq + 1
      /\ Obs!New(e) /\ obsSeenEvents' = obsSeenEvents \cup {e}
      /\ obsToolsComplete' = FALSE /\ obsReasoningComplete' = obsReasoningComplete
      /\ obsRaw' = obsRaw /\ obsTruncated' = obsTruncated /\ obsThought' = obsThought
  BY DEF Obs!NoCallId, Obs!TooManyCalls, Obs!DropEvent, Obs!Bump
<1>2. obsSnapshotSeq' \in Nat /\ obsSnapshotSeq' > obsSnapshotSeq
  BY <1>0, <1>1
<1>3. CompleteHeld'
  BY <1>0, <1>1 DEF CompleteHeld
<1> QED
  BY <1>1, <1>2, <1>3, EventAdded, TablesKept DEF ObsInv

\* A call that came before.
LEMMA ObsUpdate ==
    ASSUME ObsInv, NEW e \in Events, NEW c \in Calls, NEW a \in Arguments, Obs!UpdateCall(e, c, a)
    PROVE  /\ ObsInv'
           /\ \/ obsSnapshotSeq' > obsSnapshotSeq
              \/ UNCHANGED <<obsSnapshotSeq, obsTools, Obs!reasoning, obsToolsComplete, obsDropped>>
<1>0. ObsTypes /\ GroupsHold /\ obsSnapshotSeq \in Nat /\ c \in DOMAIN obsSeenCalls
  BY DEF ObsInv, ObsTypes, Obs!UpdateCall, Obs!Fresh, Obs!KnownCall
<1>1. /\ obsSeenCalls' = obsSeenCalls /\ obsNextCallSeq' = obsNextCallSeq
      /\ Obs!New(e) /\ obsSeenEvents' = obsSeenEvents \cup {e}
      /\ UNCHANGED <<Obs!reasoning, obsToolsComplete, obsDropped>>
      /\ UNCHANGED <<obsRaw, obsTruncated, obsReasoningComplete, obsCalled, obsThought>>
  BY DEF Obs!UpdateCall, Obs!reasoning, Obs!history
<1>2. FewEvents'
  BY <1>1, EventAdded
<1>3. CompleteHeld'
  BY <1>1 DEF ObsInv, CompleteHeld
<1>4. PICK n, g, shown :
         /\ n = obsSeenCalls[c].name /\ g = obsTools[n]
         /\ shown = {i \in 1 .. Len(g.recent) : g.recent[i].seq = obsSeenCalls[c].seq}
  OBVIOUS
<1>5. n \in Names /\ g \in Groups /\ GroupHolds(g, n, obsSeenCalls, obsNextCallSeq)
  <2>1. n \in Names
    BY <1>0, <1>4 DEF ObsTypes, Numbered
  <2> QED
    BY <1>0, <1>4, <2>1 DEF ObsTypes, GroupsHold
<1>6. CASE \E i \in shown : g.recent[i].arguments # a
  <2>1. PICK h : h = WithArguments(g, shown, a)
    OBVIOUS
  <2>2. obsTools' = [obsTools EXCEPT ![n] = h] /\ obsSnapshotSeq' = obsSnapshotSeq + 1
    BY <1>0, <1>4, <1>5, <1>6, <2>1 DEF WithArguments, Obs!UpdateCall, Obs!Bump, ObsTypes
  <2>3. g.count # 0
    <3>1. Len(g.recent) > 0 /\ Len(g.recent) \in Nat
      BY <1>4, <1>5, <1>6 DEF Groups
    <3>2. Len(g.recent) = IF g.count < RecentMax THEN g.count ELSE RecentMax
      BY <1>5 DEF GroupHolds, Counted
    <3> QED
      BY <3>1, <3>2, ObsLimits
  <2>4. h \in Groups /\ h.count = g.count /\ GroupHolds(h, n, obsSeenCalls, obsNextCallSeq)
    BY <1>5, <2>1, <2>3, ArgumentsChanged
  <2>5. \A m \in Names : obsTools'[m] = IF m = n THEN h ELSE obsTools[m]
    BY <1>0, <1>5, <2>2 DEF ObsTypes
  <2>6. obsTools' \in [Names -> Groups]
    BY <1>0, <2>2, <2>4 DEF ObsTypes
  <2>7. obsSnapshotSeq' \in Nat /\ obsSnapshotSeq' > obsSnapshotSeq
    BY <1>0, <2>2
  <2>8. ObsTypes'
    BY <1>0, <1>1, <2>6, <2>7 DEF ObsTypes
  <2>9. GroupsHold'
    BY <1>0, <1>1, <2>4, <2>5 DEF GroupsHold
  <2>10. Obs!Grouped' = Obs!Grouped
    <3>1. g # Obs!NoGroup /\ h # Obs!NoGroup
      BY <2>3, <2>4 DEF Obs!NoGroup
    <3> QED
      BY <1>4, <2>5, <3>1 DEF Obs!Grouped
  <2>11. FewCalls' /\ FewGroups'
    BY <1>1, <2>10 DEF ObsInv, FewCalls, FewGroups
  <2> QED
    BY <1>2, <1>3, <2>7, <2>8, <2>9, <2>11 DEF ObsInv
<1>7. CASE ~\E i \in shown : g.recent[i].arguments # a
  <2>1. obsTools' = obsTools /\ obsSnapshotSeq' = obsSnapshotSeq
    BY <1>4, <1>7 DEF Obs!UpdateCall
  <2>2. ObsTypes' /\ FewCalls' /\ FewGroups' /\ GroupsHold'
    BY <1>0, <1>1, <2>1, TablesKept
  <2> QED
    BY <1>1, <1>2, <1>3, <2>1, <2>2 DEF ObsInv
<1> QED
  BY <1>6, <1>7

\* A new call of a tool.
LEMMA ObsCall ==
    ASSUME ObsInv, NEW e \in Events, NEW c \in Calls, NEW n \in Names, NEW a \in Arguments,
           Obs!ObserveTool(e, c, n, a)
    PROVE  ObsInv' /\ obsSnapshotSeq' > obsSnapshotSeq
<1>0. ObsTypes /\ GroupsHold /\ FewCalls /\ FewGroups /\ obsSnapshotSeq \in Nat
  BY DEF ObsInv, ObsTypes
<1>1. PICK g, known, q, x, h :
         /\ g = obsTools[n] /\ known = obsSeenCalls /\ q = obsNextCallSeq
         /\ x = [seq |-> q + 1, call |-> c, arguments |-> a]
         /\ h = [count |-> g.count + 1, latest |-> q + 1,
                 recent |-> Obs!FirstOf(<<x>> \o g.recent, RecentMax)]
  OBVIOUS
<1>2. /\ c \notin DOMAIN known /\ Obs!New(e) /\ obsSeenEvents' = obsSeenEvents \cup {e}
      /\ ~Obs!NoRoom(n) /\ obsNextCallSeq' = q + 1
      /\ obsSeenCalls' = [k \in DOMAIN known \cup {c} |->
                             IF k = c THEN [name |-> n, seq |-> q + 1] ELSE known[k]]
      /\ obsSnapshotSeq' = obsSnapshotSeq + 1
      /\ obsCalled' = obsCalled \cup {c} /\ obsToolsComplete' = obsToolsComplete
      /\ UNCHANGED <<obsRaw, obsTruncated, obsReasoningComplete, obsThought>>
  BY <1>1 DEF Obs!ObserveTool, Obs!Fresh, Obs!KnownCall, Obs!Bump, Obs!reasoning
<1>3. obsTools' = [obsTools EXCEPT ![n] = h]
  BY <1>0, <1>1 DEF Obs!ObserveTool, Obs!NewGroup, ObsTypes
<1>4. PICK after : after = obsSeenCalls'
  OBVIOUS
<1>5. IsFiniteSet(DOMAIN known) /\ g \in Groups /\ q \in Nat /\ GroupHolds(g, n, known, q)
  BY <1>0, <1>1 DEF ObsTypes, GroupsHold, FewCalls
<1>6. /\ DOMAIN after = DOMAIN known \cup {c} /\ after[c] = [name |-> n, seq |-> q + 1]
      /\ \A k \in DOMAIN known : after[k] = known[k]
      /\ \A m : m # n => CallsOf(m, after) = CallsOf(m, known)
      /\ Cardinality(CallsOf(n, after)) = Cardinality(CallsOf(n, known)) + 1
  BY <1>2, <1>4, <1>5, CallsOfAdded
<1>7. \A k \in DOMAIN known : k \in DOMAIN after /\ after[k] = known[k]
  BY <1>6
<1>8. h \in Groups /\ h.count > 0 /\ GroupHolds(h, n, after, q + 1)
  BY <1>1, <1>5, <1>6, <1>7, OwnGroup
<1>9. \A m \in Names : obsTools'[m] = IF m = n THEN h ELSE obsTools[m]
  BY <1>0, <1>3 DEF ObsTypes
<1>10. obsSnapshotSeq' \in Nat /\ obsSnapshotSeq' > obsSnapshotSeq /\ obsNextCallSeq' \in Nat
  BY <1>0, <1>2, <1>5
<1>11. ObsTypes'
  <2>1. obsTools' \in [Names -> Groups]
    BY <1>0, <1>3, <1>8 DEF ObsTypes
  <2>2. \A k \in DOMAIN after : after[k] \in Numbered
    <3>1. [name |-> n, seq |-> q + 1] \in Numbered
      BY <1>5 DEF Numbered
    <3>2. \A k \in DOMAIN known : known[k] \in Numbered
      BY <1>0, <1>1 DEF ObsTypes
    <3> QED
      BY <1>6, <3>1, <3>2
  <2> QED
    BY <1>4, <1>10, <2>1, <2>2 DEF ObsTypes
<1>12. GroupsHold'
  <2> SUFFICES ASSUME NEW m \in Names PROVE GroupHolds(obsTools'[m], m, after, q + 1)
    BY <1>2, <1>4 DEF GroupsHold
  <2>1. CASE m = n
    BY <1>8, <1>9, <2>1
  <2>2. CASE m # n
    <3>1. PICK k : k = obsTools[m] /\ obsTools'[m] = k
      BY <1>9, <2>2
    <3>2. k \in Groups /\ GroupHolds(k, m, known, q)
      BY <1>0, <1>1, <3>1 DEF ObsTypes, GroupsHold
    <3>3. CallsOf(m, after) = CallsOf(m, known)
      BY <1>6, <2>2
    <3> QED
      BY <1>5, <1>7, <3>1, <3>2, <3>3, OtherGroup
  <2> QED
    BY <2>1, <2>2
<1>13. FewCalls'
  <2>1. ~(Cardinality(DOMAIN known) >= IdMax)
    BY <1>1, <1>2, SameObsCardinality DEF Obs!NoRoom, Obs!Full
  <2>2. PICK k \in Nat : k = Cardinality(DOMAIN known)
    BY <1>5, FS_CardinalityType
  <2>3. IsFiniteSet(DOMAIN after) /\ Cardinality(DOMAIN after) = k + 1
    BY <1>2, <1>5, <1>6, <2>2, FS_AddElement
  <2>4. k + 1 <= IdMax
    BY <2>1, <2>2, ObsLimits
  <2> QED
    BY <1>4, <2>3, <2>4 DEF FewCalls
<1>14. FewGroups'
  <2>1. h # Obs!NoGroup
    BY <1>8 DEF Obs!NoGroup
  <2>2. Obs!Grouped' = Obs!Grouped \cup {n}
    BY <1>9, <2>1 DEF Obs!Grouped
  <2>3. CASE n \in Obs!Grouped
    <3>1. Obs!Grouped' = Obs!Grouped
      BY <2>2, <2>3
    <3> QED
      BY <1>0, <3>1 DEF FewGroups
  <2>4. CASE n \notin Obs!Grouped
    <3>1. ~(Cardinality(Obs!Grouped) >= TypeMax)
      BY <1>2, <2>4, SameObsCardinality DEF Obs!NoRoom
    <3>2. PICK k \in Nat : k = Cardinality(Obs!Grouped)
      BY <1>0, FS_CardinalityType DEF FewGroups
    <3>3. IsFiniteSet(Obs!Grouped') /\ Cardinality(Obs!Grouped') = k + 1
      BY <1>0, <2>2, <2>4, <3>2, FS_AddElement DEF FewGroups
    <3>4. k + 1 <= TypeMax
      BY <3>1, <3>2, ObsLimits
    <3> QED
      BY <3>3, <3>4 DEF FewGroups
  <2> QED
    BY <2>3, <2>4
<1>15. CompleteHeld'
  <2>1. CompleteHeld
    BY DEF ObsInv
  <2> QED
    BY <1>1, <1>2, <1>4, <1>6, <2>1 DEF CompleteHeld
<1>16. FewEvents'
  BY <1>2, EventAdded
<1> QED
  BY <1>10, <1>11, <1>12, <1>13, <1>14, <1>15, <1>16 DEF ObsInv

\* The snapshot is made of these alone.
LEMMA SameSnapshot ==
    ASSUME UNCHANGED <<obsTools, Obs!reasoning, obsToolsComplete, obsDropped>>
    PROVE  Obs!Snapshot' = Obs!Snapshot
<1>1. /\ obsTools' = obsTools /\ obsRaw' = obsRaw /\ obsTruncated' = obsTruncated
      /\ obsReasoningComplete' = obsReasoningComplete /\ obsToolsComplete' = obsToolsComplete
      /\ obsDropped' = obsDropped
  BY DEF Obs!reasoning
<1>2. Obs!Grouped' = Obs!Grouped
  BY <1>1 DEF Obs!Grouped
<1>3. Obs!Sorted' = Obs!Sorted
  BY <1>1, <1>2 DEF Obs!Sorted, Obs!Before
<1>4. Obs!Shown' = Obs!Shown
  BY <1>3 DEF Obs!Shown
<1> QED
  BY <1>1, <1>4 DEF Obs!Snapshot

LEMMA ObsStep ==
    ASSUME ObsInv, [Obs!Next]_(Obs!vars)
    PROVE  /\ ObsInv'
           /\ [/\ obsSnapshotSeq' >= obsSnapshotSeq
               /\ Obs!Snapshot' # Obs!Snapshot => obsSnapshotSeq' > obsSnapshotSeq]_(Obs!vars)
<1>0. obsSnapshotSeq \in Nat
  BY DEF ObsInv, ObsTypes
<1>1. CASE UNCHANGED Obs!vars
  <2>1. /\ UNCHANGED <<obsSeenCalls, obsNextCallSeq, obsTools>> /\ obsSnapshotSeq' \in Nat
        /\ obsSeenEvents' = obsSeenEvents /\ obsToolsComplete' = obsToolsComplete
        /\ UNCHANGED <<obsRaw, obsTruncated, obsReasoningComplete, obsCalled, obsThought>>
    BY <1>0, <1>1 DEF Obs!vars, Obs!seen, Obs!reasoning, Obs!history
  <2>2. FewEvents' /\ CompleteHeld'
    BY <2>1 DEF ObsInv, FewEvents, CompleteHeld
  <2> QED
    BY <1>1, <2>1, <2>2, TablesKept DEF ObsInv
<1>2. CASE Obs!Next
  <2>1. /\ ObsInv'
        /\ \/ obsSnapshotSeq' > obsSnapshotSeq
           \/ UNCHANGED <<obsSnapshotSeq, obsTools, Obs!reasoning, obsToolsComplete, obsDropped>>
    BY <1>2, ObsTextSteps, ObsCallLost, ObsUpdate, ObsCall DEF Obs!Next
  <2>2. CASE obsSnapshotSeq' > obsSnapshotSeq
    <3>1. obsSnapshotSeq' \in Nat
      BY <2>1 DEF ObsInv, ObsTypes
    <3>2. obsSnapshotSeq' >= obsSnapshotSeq
      BY <1>0, <2>2, <3>1
    <3> QED
      BY <2>1, <2>2, <3>2
  <2>3. CASE UNCHANGED <<obsSnapshotSeq, obsTools, Obs!reasoning, obsToolsComplete, obsDropped>>
    <3>1. Obs!Snapshot' = Obs!Snapshot
      BY <2>3, SameSnapshot
    <3>2. obsSnapshotSeq' >= obsSnapshotSeq
      BY <1>0, <2>3
    <3> QED
      BY <2>1, <3>1, <3>2
  <2> QED
    BY <2>1, <2>2, <2>3
<1> QED
  BY <1>1, <1>2

LEMMA ObsInvariant == Obs!Spec => []ObsInv
<1>1. ObsInv /\ [Obs!Next]_(Obs!vars) => ObsInv'
  BY ObsStep
<1> QED
  BY <1>1, ObsInit, PTL DEF Obs!Spec

\* The snapshot of a run, for any events, calls and tools and every limit of its tables:
\* a tool history that is called complete counts each call of the runtime once, under
\* its tool, reasoning that is called complete is all of it, the calls that are shown of
\* a tool are its newest, and no table outgrows its limit (ObservationState).
THEOREM SnapshotStaysTrue == Obs!Spec => []SnapshotIsTrue
<1>1. ObsInv => SnapshotIsTrue
  <2> SUFFICES ASSUME ObsInv PROVE SnapshotIsTrue
    OBVIOUS
  <2>1. Obs!CompleteCountsCalls
    <3> SUFFICES ASSUME obsToolsComplete, NEW n \in Names
                 PROVE  /\ DOMAIN obsSeenCalls = obsCalled
                        /\ obsTools[n].count = Cardinality({c \in obsCalled : obsSeenCalls[c].name = n})
      BY SameObsCardinality DEF Obs!CompleteCountsCalls, ObsInv, CompleteHeld
    <3>1. DOMAIN obsSeenCalls = obsCalled
      BY DEF ObsInv, CompleteHeld
    <3>2. obsTools[n].count = Cardinality(CallsOf(n, obsSeenCalls))
      BY DEF ObsInv, GroupsHold, GroupHolds, Counted
    <3> QED
      BY <3>1, <3>2 DEF CallsOf
  <2>2. Obs!CompleteReasoning
    <3>1. ~obsTruncated => Obs!Snapshot.reasoning = obsRaw
      BY DEF ObsInv, CompleteHeld, Obs!Snapshot, Obs!LastOf
    <3> QED
      BY <3>1 DEF ObsInv, CompleteHeld, Obs!CompleteReasoning
  <2>3. Obs!RecentAreNewest
    <3> SUFFICES ASSUME NEW n \in Obs!Grouped, NEW g, g = obsTools[n]
                 PROVE  /\ g.recent[1].seq = g.latest
                        /\ \A i \in 1 .. Len(g.recent) - 1 : g.recent[i].seq > g.recent[i + 1].seq
                        /\ Len(g.recent) = IF g.count < RecentMax THEN g.count ELSE RecentMax
                        /\ \A i \in DOMAIN g.recent :
                              obsSeenCalls[g.recent[i].call] = [name |-> n, seq |-> g.recent[i].seq]
      BY DEF Obs!RecentAreNewest
    <3>1. n \in Names /\ g # Obs!NoGroup
      BY DEF Obs!Grouped
    <3>2. g \in Groups /\ Counted(g, n, obsSeenCalls, obsNextCallSeq) /\ Listed(n, g.recent, obsSeenCalls)
      BY <3>1 DEF ObsInv, ObsTypes, GroupsHold, GroupHolds
    <3>3. g.count > 0
      <4>1. g.count \in Nat /\ g.count # 0
        BY <3>1, <3>2 DEF Groups, Counted
      <4> QED
        BY <4>1
    <3>4. DOMAIN g.recent = 1 .. Len(g.recent)
      BY <3>2 DEF Groups
    <3> QED
      BY <3>2, <3>3, <3>4 DEF Counted, Listed
  <2>4. Obs!WithinLimits
    BY SameObsCardinality DEF ObsInv, FewEvents, FewCalls, FewGroups, Obs!WithinLimits
  <2> QED
    BY <2>1, <2>2, <2>3, <2>4 DEF SnapshotIsTrue
<1> QED
  BY <1>1, ObsInvariant, PTL

\* Nor does a caller that polls the number of the snapshot miss a change: whatever the
\* session tells, a snapshot that differs has a higher number
\* (ObservationState::bump_snapshot).
THEOREM ChangesStayNumbered == Obs!Spec => ChangesAreNumbered
<1>1. ObsInv /\ [Obs!Next]_(Obs!vars)
         => [/\ obsSnapshotSeq' >= obsSnapshotSeq
             /\ Obs!Snapshot' # Obs!Snapshot => obsSnapshotSeq' > obsSnapshotSeq]_(Obs!vars)
  BY ObsStep
<1> QED
  BY <1>1, ObsInvariant, PTL DEF Obs!Spec, ChangesAreNumbered, Obs!ChangesAreNumbered

-----------------------------------------------------------------------------
(***************************************************************************)
(* The diagnostic log (DiagnosticLog)                                      *)
(***************************************************************************)

Rotating == {"TO SECOND", "TO FIRST", "CUT"}

DiagTypes ==
    /\ diagSubmitted \in Nat /\ diagDropped \in Nat /\ diagCount \in Nat /\ diagLine \in Nat
    /\ diagReported \in Nat /\ diagFaults \in Nat
    /\ diagQueue \in Seq(Nat) /\ diagLog \in Seq(Nat)
    /\ diagMain \in Seq(Nat) /\ diagFirst \in Seq(Nat) /\ diagSecond \in Seq(Nat)
    /\ diagPc \in {"RECV", "SWAP", "MARKER", "LINE", "APPEND"} \cup Rotating

\* The writer has a line from recv until it is written or lost, and drops to report
\* from the swap until their marker is.
InHandPlaced ==
    /\ diagPc = "RECV" <=> diagLine = 0
    /\ diagPc \in {"RECV", "SWAP", "LINE"} => diagCount = 0

\* The log, the line in hand, the queue and the next submission come in this order.
DiagOrder ==
    /\ \A i, j \in 1 .. Len(diagLog) : i < j /\ diagLog[j] # 0 => diagLog[i] < diagLog[j]
    /\ \A i \in 1 .. Len(diagLog) : diagLog[i] <= diagSubmitted
    /\ diagLine # 0 => \A i \in 1 .. Len(diagLog) : diagLog[i] < diagLine
    /\ \A i \in 1 .. Len(diagLog), j \in 1 .. Len(diagQueue) : diagLog[i] < diagQueue[j]
    /\ diagLine <= diagSubmitted
    /\ \A j \in 1 .. Len(diagQueue) : diagLine < diagQueue[j] /\ diagQueue[j] <= diagSubmitted
    /\ \A i, j \in 1 .. Len(diagQueue) : i < j => diagQueue[i] < diagQueue[j]

\* The file is the end of the log, full while it is rotated, and copied before it is cut.
DiagFiles ==
    /\ Len(diagMain) <= FileCap /\ Len(diagFirst) <= FileCap /\ Len(diagSecond) <= FileCap
    /\ diagPc \in Rotating => Len(diagMain) = FileCap
    /\ diagPc = "CUT" => diagFirst = diagMain
    /\ diagPc = "APPEND" => Len(diagMain) < FileCap

MainIsEnd ==
    /\ Len(diagMain) <= Len(diagLog)
    /\ \A i \in 1 .. Len(diagMain) : diagMain[i] = diagLog[Len(diagLog) - Len(diagMain) + i]

OnDisk(l) ==
    \/ \E k \in 1 .. Len(diagMain) : diagMain[k] = l
    \/ \E k \in 1 .. Len(diagFirst) : diagFirst[k] = l

DiagNewest == \A i \in 1 .. Len(diagLog) : i + FileCap > Len(diagLog) => OnDisk(diagLog[i])

DiagInv ==
    DiagTypes /\ InHandPlaced /\ DiagOrder /\ Diag!EveryLineAccounted
    /\ DiagFiles /\ MainIsEnd /\ DiagNewest

LEMMA SameDiagCardinality == \A S : Diag!Cardinality(S) = Cardinality(S)
BY DEF Diag!Cardinality, Cardinality

LEMMA DiagInit == Diag!Init => DiagInv
<1> SUFFICES ASSUME Diag!Init PROVE DiagInv
  OBVIOUS
<1> USE DEF Diag!Init, Diag!Marker
<1>1. DiagTypes /\ InHandPlaced
  BY DEF DiagTypes, InHandPlaced
<1>2. DiagOrder /\ MainIsEnd /\ DiagNewest
  BY DEF DiagOrder, MainIsEnd, DiagNewest
<1>3. DiagFiles
  BY DiagBounds DEF DiagFiles, Diag!LogBounds, Rotating
<1>4. Diag!Lines = {}
  BY DEF Diag!Lines
<1>5. Diag!EveryLineAccounted
  BY <1>4, FS_EmptySet, SameDiagCardinality DEF Diag!EveryLineAccounted, Diag!InHand
<1> QED
  BY <1>1, <1>2, <1>3, <1>5 DEF DiagInv

LEMMA LinesCounted == DiagTypes => IsFiniteSet(Diag!Lines) /\ Cardinality(Diag!Lines) \in Nat
<1> SUFFICES ASSUME DiagTypes PROVE IsFiniteSet(Diag!Lines) /\ Cardinality(Diag!Lines) \in Nat
  OBVIOUS
<1>1. Diag!Lines \subseteq 1 .. Len(diagLog) /\ Len(diagLog) \in Nat
  BY DEF DiagTypes, Diag!Lines
<1>2. IsFiniteSet(1 .. Len(diagLog))
  BY <1>1, FS_Interval
<1>3. IsFiniteSet(Diag!Lines)
  BY <1>1, <1>2, FS_Subset
<1> QED
  BY <1>3, FS_CardinalityType

DiagNumbers ==
    /\ diagSubmitted \in Nat /\ diagDropped \in Nat /\ diagCount \in Nat /\ diagReported \in Nat
    /\ Len(diagQueue) \in Nat /\ Diag!InHand \in Nat

LEMMA DiagNumbersType == (DiagTypes => DiagNumbers) /\ (DiagTypes' => DiagNumbers')
<1>1. Diag!InHand \in Nat /\ Diag!InHand' \in Nat
  BY DEF Diag!InHand
<1> QED
  BY <1>1 DEF DiagTypes, DiagNumbers

DiagMoves ==
    diagSubmitted' - diagSubmitted =
        (diagReported' - diagReported) + (diagDropped' - diagDropped)
        + (diagCount' - diagCount) + (Len(diagQueue') - Len(diagQueue))
        + (Diag!InHand' - Diag!InHand)

\* While the sink takes no line the counts only move.
LEMMA DiagMoved ==
    ASSUME DiagInv, DiagTypes', Diag!Lines' = Diag!Lines,
           DiagMoves
    PROVE  Diag!EveryLineAccounted'
<1>1. Cardinality(Diag!Lines) \in Nat
  BY LinesCounted DEF DiagInv
<1>2. PICK n \in Nat : n = Diag!Cardinality(Diag!Lines) /\ n = Diag!Cardinality(Diag!Lines)'
  BY <1>1, SameDiagCardinality
<1>3. DiagNumbers /\ DiagNumbers'
  BY DiagNumbersType DEF DiagInv
<1>4. diagSubmitted = n + diagReported + diagDropped + diagCount + Len(diagQueue) + Diag!InHand
  BY <1>2 DEF Diag!EveryLineAccounted, DiagInv
<1>5. diagSubmitted' = n + diagReported' + diagDropped' + diagCount' + Len(diagQueue') + Diag!InHand'
  <2>1. PICK s \in Nat, r \in Nat, d \in Nat, c \in Nat, q \in Nat, h \in Nat :
           /\ s = diagSubmitted /\ r = diagReported /\ d = diagDropped /\ c = diagCount
           /\ q = Len(diagQueue) /\ h = Diag!InHand
    BY <1>3 DEF DiagNumbers
  <2>2. PICK t \in Nat, u \in Nat, e \in Nat, f \in Nat, p \in Nat, g \in Nat :
           /\ t = diagSubmitted' /\ u = diagReported' /\ e = diagDropped' /\ f = diagCount'
           /\ p = Len(diagQueue') /\ g = Diag!InHand'
    BY <1>3 DEF DiagNumbers
  <2>3. t - s = (u - r) + (e - d) + (f - c) + (p - q) + (g - h)
    BY <2>1, <2>2 DEF DiagMoves
  <2>4. s = n + r + d + c + q + h
    BY <1>4, <2>1
  <2>5. t = n + u + e + f + p + g
    BY <2>3, <2>4
  <2> QED
    BY <2>2, <2>5
<1> QED
  BY <1>2, <1>5 DEF Diag!EveryLineAccounted

\* A full file holds the newest records by itself.
LEMMA FullIsNewest ==
    ASSUME DiagInv, Len(diagMain) = FileCap, NEW i \in 1 .. Len(diagLog), i + FileCap > Len(diagLog)
    PROVE  \E k \in 1 .. Len(diagMain) : diagMain[k] = diagLog[i]
<1>1. PICK m \in Nat, n \in Nat : m = Len(diagMain) /\ n = Len(diagLog) /\ m <= n
  BY DEF DiagInv, DiagTypes, MainIsEnd
<1>2. i - (n - m) \in 1 .. m /\ n - m + (i - (n - m)) = i
  BY <1>1
<1>3. diagMain[i - (n - m)] = diagLog[n - m + (i - (n - m))]
  BY <1>1, <1>2 DEF DiagInv, MainIsEnd
<1> QED
  BY <1>1, <1>2, <1>3

LEMMA SameLines == diagLog' = diagLog => Diag!Lines' = Diag!Lines
BY DEF Diag!Lines

LEMMA DiagSubmit == DiagInv /\ Diag!Submit => DiagInv'
<1> SUFFICES ASSUME DiagInv, Diag!Submit PROVE DiagInv'
  OBVIOUS
<1> USE DEF Diag!files
<1>1. /\ diagSubmitted' = diagSubmitted + 1
      /\ \/ diagQueue' = Append(diagQueue, diagSubmitted + 1) /\ diagDropped' = diagDropped
         \/ diagDropped' = diagDropped + 1 /\ diagQueue' = diagQueue
      /\ UNCHANGED <<diagPc, diagLine, diagCount, diagMain, diagFirst, diagSecond, diagLog,
                     diagReported, diagFaults>>
  BY DEF Diag!Submit
<1>0. diagQueue \in Seq(Nat) /\ Len(diagQueue) \in Nat /\ diagSubmitted \in Nat
      /\ diagDropped \in Nat /\ diagSubmitted + 1 \in Nat
  BY DEF DiagInv, DiagTypes
<1>q. diagQueue' \in Seq(Nat) /\ diagDropped' \in Nat
      /\ diagDropped' + Len(diagQueue') = diagDropped + Len(diagQueue) + 1
  <2>1. CASE diagQueue' = Append(diagQueue, diagSubmitted + 1) /\ diagDropped' = diagDropped
    <3>1. diagQueue' \in Seq(Nat) /\ Len(diagQueue') = Len(diagQueue) + 1
      BY <1>0, <2>1, AppendProperties
    <3> QED
      BY <1>0, <2>1, <3>1
  <2>2. CASE diagDropped' = diagDropped + 1 /\ diagQueue' = diagQueue
    BY <1>0, <2>2
  <2> QED
    BY <1>1, <2>1, <2>2
<1>2. DiagTypes'
  BY <1>0, <1>1, <1>q DEF DiagInv, DiagTypes
<1>3. InHandPlaced' /\ DiagFiles' /\ MainIsEnd' /\ DiagNewest'
  BY <1>1 DEF DiagInv, InHandPlaced, DiagFiles, MainIsEnd, DiagNewest, OnDisk
<1>4. DiagOrder'
  <2>1. CASE diagQueue' = diagQueue
    BY <1>1, <2>1 DEF DiagInv, DiagTypes, DiagOrder
  <2>2. CASE diagQueue' = Append(diagQueue, diagSubmitted + 1)
    <3>1. /\ Len(diagQueue') = Len(diagQueue) + 1
          /\ \A j \in 1 .. Len(diagQueue) : diagQueue'[j] = diagQueue[j]
          /\ diagQueue'[Len(diagQueue) + 1] = diagSubmitted + 1
          /\ Len(diagQueue) \in Nat
      BY <2>2 DEF DiagInv, DiagTypes
    <3>2. \A j \in 1 .. Len(diagQueue') : j \in 1 .. Len(diagQueue) \/ j = Len(diagQueue) + 1
      BY <3>1
    <3>3. \A i \in 1 .. Len(diagLog), j \in 1 .. Len(diagQueue') : diagLog[i] < diagQueue'[j]
      <4> SUFFICES ASSUME NEW i \in 1 .. Len(diagLog), NEW j \in 1 .. Len(diagQueue')
                   PROVE  diagLog[i] < diagQueue'[j]
        OBVIOUS
      <4>1. diagLog[i] \in Nat /\ diagLog[i] <= diagSubmitted
        BY DEF DiagInv, DiagTypes, DiagOrder
      <4>2. CASE j = Len(diagQueue) + 1
        BY <1>0, <3>1, <4>1, <4>2
      <4>3. CASE j \in 1 .. Len(diagQueue)
        BY <3>1, <4>3 DEF DiagInv, DiagOrder
      <4> QED
        BY <3>2, <4>2, <4>3
    <3>4. \A j \in 1 .. Len(diagQueue') : diagLine' < diagQueue'[j] /\ diagQueue'[j] <= diagSubmitted'
      <4> SUFFICES ASSUME NEW j \in 1 .. Len(diagQueue')
                   PROVE  diagLine < diagQueue'[j] /\ diagQueue'[j] <= diagSubmitted + 1
        BY <1>1
      <4>1. diagLine \in Nat /\ diagLine <= diagSubmitted
        BY DEF DiagInv, DiagTypes, DiagOrder
      <4>2. CASE j = Len(diagQueue) + 1
        BY <1>0, <3>1, <4>1, <4>2
      <4>3. CASE j \in 1 .. Len(diagQueue)
        <5>1. diagLine < diagQueue[j] /\ diagQueue[j] <= diagSubmitted /\ diagQueue[j] \in Nat
          BY <4>3 DEF DiagInv, DiagTypes, DiagOrder
        <5> QED
          BY <1>0, <3>1, <4>3, <5>1
      <4> QED
        BY <3>2, <4>2, <4>3
    <3>5. \A i, j \in 1 .. Len(diagQueue') : i < j => diagQueue'[i] < diagQueue'[j]
      <4> SUFFICES ASSUME NEW i \in 1 .. Len(diagQueue'), NEW j \in 1 .. Len(diagQueue'), i < j
                   PROVE  diagQueue'[i] < diagQueue'[j]
        OBVIOUS
      <4>1. i \in 1 .. Len(diagQueue)
        BY <3>1
      <4>2. CASE j = Len(diagQueue) + 1
        BY <1>0, <3>1, <4>1, <4>2 DEF DiagInv, DiagOrder
      <4>3. CASE j \in 1 .. Len(diagQueue)
        BY <3>1, <4>1, <4>3 DEF DiagInv, DiagOrder
      <4> QED
        BY <3>2, <4>2, <4>3
    <3> QED
      BY <1>0, <1>1, <3>3, <3>4, <3>5 DEF DiagInv, DiagTypes, DiagOrder
  <2> QED
    BY <1>1, <2>1, <2>2
<1>5. Diag!EveryLineAccounted'
  <2>1. Diag!InHand' = Diag!InHand /\ Diag!InHand \in Nat
    BY <1>1 DEF Diag!InHand
  <2>2. diagReported \in Nat /\ diagCount \in Nat
    BY DEF DiagInv, DiagTypes
  <2>3. DiagMoves
    BY <1>0, <1>1, <1>q, <2>1, <2>2 DEF DiagMoves
  <2> QED
    BY <1>1, <1>2, <2>3, DiagMoved, SameLines
<1> QED
  BY <1>2, <1>3, <1>4, <1>5 DEF DiagInv

LEMMA DiagReceive == DiagInv /\ Diag!Receive => DiagInv'
<1> SUFFICES ASSUME DiagInv, Diag!Receive PROVE DiagInv'
  OBVIOUS
<1> USE DEF Diag!files
<1>1. /\ diagPc = "RECV" /\ diagQueue # << >> /\ diagLine' = Head(diagQueue)
      /\ diagQueue' = Tail(diagQueue) /\ diagPc' = "SWAP"
      /\ UNCHANGED <<diagSubmitted, diagDropped, diagCount, diagMain, diagFirst, diagSecond,
                     diagLog, diagReported, diagFaults>>
  BY DEF Diag!Receive
<1>2. /\ diagQueue \in Seq(Nat) /\ Len(diagQueue) \in Nat \ {0}
      /\ diagLine' = diagQueue[1] /\ diagQueue' \in Seq(Nat)
      /\ Len(diagQueue') = Len(diagQueue) - 1
      /\ \A j \in 1 .. Len(diagQueue') : diagQueue'[j] = diagQueue[j + 1]
  BY <1>1 DEF DiagInv, DiagTypes
<1>3. diagLine = 0 /\ diagLine' \in Nat /\ diagLine' > 0
  BY <1>1, <1>2 DEF DiagInv, DiagTypes, InHandPlaced, DiagOrder
<1>4. DiagTypes'
  BY <1>1, <1>2, <1>3 DEF DiagInv, DiagTypes
<1>5. InHandPlaced' /\ DiagFiles' /\ MainIsEnd' /\ DiagNewest'
  BY <1>1, <1>3 DEF DiagInv, InHandPlaced, DiagFiles, MainIsEnd, DiagNewest, OnDisk, Rotating
<1>6. DiagOrder'
  <2>1. \A j \in 1 .. Len(diagQueue') : j + 1 \in 1 .. Len(diagQueue) /\ 1 < j + 1
    BY <1>2
  <2>2. 1 \in 1 .. Len(diagQueue)
    BY <1>2
  <2>3. \A j \in 1 .. Len(diagQueue') : diagLine' < diagQueue'[j] /\ diagQueue'[j] <= diagSubmitted'
    BY <1>1, <1>2, <2>1, <2>2 DEF DiagInv, DiagOrder
  <2>4. \A i, j \in 1 .. Len(diagQueue') : i < j => diagQueue'[i] < diagQueue'[j]
    <3> SUFFICES ASSUME NEW i \in 1 .. Len(diagQueue'), NEW j \in 1 .. Len(diagQueue'), i < j
                 PROVE  diagQueue'[i] < diagQueue'[j]
      OBVIOUS
    <3>1. i + 1 \in 1 .. Len(diagQueue) /\ j + 1 \in 1 .. Len(diagQueue) /\ i + 1 < j + 1
      BY <2>1
    <3> QED
      BY <1>2, <3>1 DEF DiagInv, DiagOrder
  <2>5. diagLine' <= diagSubmitted' /\ \A i \in 1 .. Len(diagLog) : diagLog[i] < diagLine'
    BY <1>1, <1>2, <2>2 DEF DiagInv, DiagOrder
  <2>6. \A i \in 1 .. Len(diagLog), j \in 1 .. Len(diagQueue') : diagLog[i] < diagQueue'[j]
    BY <1>2, <2>1 DEF DiagInv, DiagOrder
  <2> QED
    BY <1>1, <2>3, <2>4, <2>5, <2>6 DEF DiagInv, DiagOrder
<1>7. Diag!EveryLineAccounted'
  <2>1. Diag!InHand = 0 /\ Diag!InHand' = 1
    BY <1>3 DEF Diag!InHand, Diag!Marker
  <2> QED
    BY <1>1, <1>2, <1>4, <2>1, DiagMoved, SameLines DEF DiagInv, DiagTypes, DiagMoves
<1> QED
  BY <1>4, <1>5, <1>6, <1>7 DEF DiagInv

LEMMA DiagSwap == DiagInv /\ Diag!Swap => DiagInv'
<1> SUFFICES ASSUME DiagInv, Diag!Swap PROVE DiagInv'
  OBVIOUS
<1> USE DEF Diag!files
<1>1. /\ diagPc = "SWAP" /\ diagCount' = diagDropped /\ diagDropped' = 0
      /\ diagPc' = (IF diagDropped > 0 THEN "MARKER" ELSE "LINE")
      /\ UNCHANGED <<diagSubmitted, diagQueue, diagLine, diagMain, diagFirst, diagSecond,
                     diagLog, diagReported, diagFaults>>
  BY DEF Diag!Swap
<1>2. DiagTypes'
  BY <1>1 DEF DiagInv, DiagTypes
<1>3. InHandPlaced' /\ DiagFiles' /\ MainIsEnd' /\ DiagNewest' /\ DiagOrder'
  BY <1>1 DEF DiagInv, DiagTypes, InHandPlaced, DiagFiles, MainIsEnd, DiagNewest, OnDisk,
              Rotating, DiagOrder
<1>4. Diag!EveryLineAccounted'
  <2>1. Diag!InHand' = Diag!InHand /\ Diag!InHand \in Nat /\ diagCount = 0
    BY <1>1 DEF Diag!InHand, DiagInv, InHandPlaced
  <2> QED
    BY <1>1, <1>2, <2>1, DiagMoved, SameLines DEF DiagInv, DiagTypes, DiagMoves
<1> QED
  BY <1>2, <1>3, <1>4 DEF DiagInv

\* Opening and rotating touch the files alone.
LEMMA DiagRotate ==
    DiagInv /\ (Diag!Open \/ Diag!CopySecond \/ Diag!CopyFirst \/ Diag!Cut) => DiagInv'
<1> SUFFICES ASSUME DiagInv, Diag!Open \/ Diag!CopySecond \/ Diag!CopyFirst \/ Diag!Cut
             PROVE  DiagInv'
  OBVIOUS
<1> USE DEF Diag!files, Diag!channel
<1>0. FileCap \in Nat \ {0}
  BY DiagBounds DEF Diag!LogBounds
<1>1. /\ UNCHANGED <<diagSubmitted, diagQueue, diagDropped, diagLine, diagCount, diagLog,
                     diagReported, diagFaults>>
      /\ diagPc \notin {"RECV", "SWAP"} /\ diagPc' \notin {"RECV", "SWAP", "LINE"}
  BY DEF Diag!Open, Diag!CopySecond, Diag!CopyFirst, Diag!Cut
<1>2. DiagTypes'
  <2>1. diagPc' \in {"TO SECOND", "TO FIRST", "CUT", "APPEND"}
    BY DEF Diag!Open, Diag!CopySecond, Diag!CopyFirst, Diag!Cut
  <2>2. diagMain' \in Seq(Nat) /\ diagFirst' \in Seq(Nat) /\ diagSecond' \in Seq(Nat)
    <3>1. << >> \in Seq(Nat)
      OBVIOUS
    <3> QED
      BY <3>1 DEF DiagInv, DiagTypes, Diag!Open, Diag!CopySecond, Diag!CopyFirst, Diag!Cut
  <2> QED
    BY <1>1, <2>1, <2>2 DEF DiagInv, DiagTypes, Rotating
<1>3. InHandPlaced' /\ DiagOrder'
  BY <1>1 DEF DiagInv, InHandPlaced, DiagOrder
<1>4. Diag!EveryLineAccounted'
  <2>1. Diag!InHand' = Diag!InHand /\ Diag!InHand \in Nat
    BY <1>1 DEF Diag!InHand
  <2> QED
    BY <1>1, <1>2, <2>1, DiagMoved, SameLines DEF DiagInv, DiagTypes, DiagMoves
<1>5. DiagFiles' /\ MainIsEnd' /\ DiagNewest'
  <2>1. CASE Diag!Open
    <3>1. /\ UNCHANGED <<diagMain, diagFirst, diagSecond, diagLog>>
          /\ diagPc' = IF Len(diagMain) + 1 > FileCap THEN "TO SECOND" ELSE "APPEND"
      BY <2>1 DEF Diag!Open
    <3>2. Len(diagMain) \in Nat /\ Len(diagMain) <= FileCap
      BY DEF DiagInv, DiagTypes, DiagFiles
    <3>3. diagPc' \in Rotating => diagPc' = "TO SECOND"
      BY <3>1 DEF Rotating
    <3>a. diagPc' \in Rotating => Len(diagMain) = FileCap
      <4>1. CASE Len(diagMain) + 1 > FileCap
        BY <1>0, <3>2, <4>1
      <4>2. CASE ~(Len(diagMain) + 1 > FileCap)
        BY <3>1, <3>3, <4>2
      <4> QED
        BY <4>1, <4>2
    <3>b. diagPc' = "APPEND" => Len(diagMain) < FileCap
      BY <1>0, <3>1, <3>2
    <3>c. diagPc' # "CUT"
      BY <3>1
    <3>4. DiagFiles'
      BY <3>1, <3>a, <3>b, <3>c DEF DiagInv, DiagFiles
    <3> QED
      BY <3>1, <3>4 DEF DiagInv, MainIsEnd, DiagNewest, OnDisk
  <2>2. CASE Diag!CopySecond
    BY <2>2 DEF Diag!CopySecond, DiagInv, DiagFiles, MainIsEnd, DiagNewest, OnDisk, Rotating
  <2>3. CASE Diag!CopyFirst
    <3>1. DiagFiles' /\ MainIsEnd'
      BY <2>3 DEF Diag!CopyFirst, DiagInv, DiagFiles, MainIsEnd, Rotating
    <3>2. DiagNewest'
      <4>1. diagMain' = diagMain /\ diagLog' = diagLog /\ Len(diagMain) = FileCap
        BY <2>3 DEF Diag!CopyFirst, DiagInv, DiagFiles, Rotating
      <4> QED
        BY <4>1, FullIsNewest DEF DiagNewest, OnDisk
    <3> QED
      BY <3>1, <3>2
  <2>4. CASE Diag!Cut
    BY <1>0, <2>4 DEF Diag!Cut, DiagInv, DiagTypes, DiagFiles, MainIsEnd, DiagNewest, OnDisk, Rotating
  <2> QED
    BY <2>1, <2>2, <2>3, <2>4
<1> QED
  BY <1>2, <1>3, <1>4, <1>5 DEF DiagInv

\* The sink takes the marker or the line.
LEMMA DiagWrite == DiagInv /\ Diag!Write => DiagInv'
<1> SUFFICES ASSUME DiagInv, Diag!Write PROVE DiagInv'
  OBVIOUS
<1> USE DEF Diag!channel
<1>0. FileCap \in Nat \ {0}
  BY DiagBounds DEF Diag!LogBounds
<1>1. PICK w : w = Diag!Writing
  OBVIOUS
<1>2. /\ diagPc = "APPEND" /\ diagMain' = Append(diagMain, w) /\ diagLog' = Append(diagLog, w)
      /\ UNCHANGED <<diagSubmitted, diagQueue, diagDropped, diagFirst, diagSecond, diagFaults>>
  BY <1>1 DEF Diag!Write
<1>3. \/ /\ diagCount > 0 /\ w = 0 /\ diagReported' = diagReported + diagCount
         /\ diagCount' = 0 /\ diagPc' = "LINE" /\ diagLine' = diagLine
      \/ /\ diagCount = 0 /\ w = diagLine /\ diagPc' = "RECV" /\ diagLine' = 0
         /\ diagCount' = diagCount /\ diagReported' = diagReported
  BY <1>1 DEF Diag!Write, Diag!Writing, Diag!Marker, DiagInv, DiagTypes
<1>4. diagLine # 0 /\ diagLine \in Nat /\ w \in Nat
  BY <1>2, <1>3 DEF DiagInv, DiagTypes, InHandPlaced
<1>5. PICK m \in Nat, n \in Nat : m = Len(diagMain) /\ n = Len(diagLog) /\ m <= n /\ m < FileCap
  BY <1>2 DEF DiagInv, DiagTypes, MainIsEnd, DiagFiles
<1>6. /\ diagLog \in Seq(Nat) /\ diagLog' \in Seq(Nat) /\ Len(diagLog') = n + 1
      /\ diagLog'[n + 1] = w /\ \A i \in 1 .. n : diagLog'[i] = diagLog[i]
  BY <1>2, <1>4, <1>5 DEF DiagInv, DiagTypes
<1>7. /\ diagMain' \in Seq(Nat) /\ Len(diagMain') = m + 1
      /\ diagMain'[m + 1] = w /\ \A i \in 1 .. m : diagMain'[i] = diagMain[i]
  BY <1>2, <1>4, <1>5 DEF DiagInv, DiagTypes
<1>8. DiagTypes' /\ InHandPlaced'
  <2>1. diagReported' \in Nat /\ diagCount' \in Nat /\ diagLine' \in Nat
        /\ diagPc' \in {"LINE", "RECV"}
    BY <1>3 DEF DiagInv, DiagTypes
  <2>2. DiagTypes'
    BY <1>2, <1>6, <1>7, <2>1 DEF DiagInv, DiagTypes
  <2>3. InHandPlaced'
    BY <1>3, <1>4 DEF InHandPlaced
  <2> QED
    BY <2>2, <2>3
<1>9. \A i \in 1 .. n + 1 : i \in 1 .. n \/ i = n + 1
  BY <1>5
<1>10. DiagOrder'
  <2>1. \A i \in 1 .. n : diagLog[i] < diagLine /\ diagLog[i] <= diagSubmitted
    BY <1>4, <1>5 DEF DiagInv, DiagOrder
  <2>2. \A i, j \in 1 .. n + 1 : i < j /\ diagLog'[j] # 0 => diagLog'[i] < diagLog'[j]
    <3> SUFFICES ASSUME NEW i \in 1 .. n + 1, NEW j \in 1 .. n + 1, i < j, diagLog'[j] # 0
                 PROVE  diagLog'[i] < diagLog'[j]
      OBVIOUS
    <3>1. i \in 1 .. n
      BY <1>5
    <3>2. CASE j = n + 1
      BY <1>3, <1>6, <2>1, <3>1, <3>2
    <3>3. CASE j \in 1 .. n
      BY <1>5, <1>6, <3>1, <3>3 DEF DiagInv, DiagOrder
    <3> QED
      BY <1>9, <3>2, <3>3
  <2>3. w <= diagSubmitted /\ \A j \in 1 .. Len(diagQueue) : w < diagQueue[j] /\ 0 < diagQueue[j]
    BY <1>3, <1>4 DEF DiagInv, DiagTypes, DiagOrder
  <2>4. \A i \in 1 .. n + 1 : diagLog'[i] <= diagSubmitted
    BY <1>6, <1>9, <2>1, <2>3
  <2>5. diagLine' # 0 => \A i \in 1 .. n + 1 : diagLog'[i] < diagLine'
    BY <1>3, <1>4, <1>6, <1>9, <2>1
  <2>6. \A i \in 1 .. n + 1, j \in 1 .. Len(diagQueue) : diagLog'[i] < diagQueue[j]
    BY <1>5, <1>6, <1>9, <2>3 DEF DiagInv, DiagOrder
  <2>7. diagLine' <= diagSubmitted /\ \A j \in 1 .. Len(diagQueue) : diagLine' < diagQueue[j]
    BY <1>3, <2>3 DEF DiagInv, DiagTypes, DiagOrder
  <2> QED
    BY <1>2, <1>6, <2>2, <2>4, <2>5, <2>6, <2>7 DEF DiagInv, DiagOrder
<1>11. Diag!EveryLineAccounted'
  <2>1. IsFiniteSet(Diag!Lines) /\ Cardinality(Diag!Lines) \in Nat
    BY LinesCounted DEF DiagInv
  <2>2. DOMAIN diagLog = 1 .. n /\ DOMAIN diagLog' = 1 .. n + 1
    BY <1>5, <1>6
  <2>3. CASE w = 0
    <3>1. Diag!Lines' = Diag!Lines
      BY <1>6, <1>9, <2>2, <2>3 DEF Diag!Lines, Diag!Marker
    <3>2. Diag!InHand' = Diag!InHand /\ Diag!InHand = 1
      BY <1>3, <1>4, <2>3 DEF Diag!InHand, Diag!Marker
    <3>5. diagDropped' = diagDropped /\ diagQueue' = diagQueue /\ diagSubmitted' = diagSubmitted
      BY <1>2
    <3>7. DiagNumbers /\ DiagNumbers'
      BY <1>8, DiagNumbersType DEF DiagInv
    <3>6. DiagMoves
      <4>1. PICK c \in Nat, r \in Nat, d \in Nat, q \in Nat, t \in Nat :
               c = diagCount /\ r = diagReported /\ d = diagDropped /\ q = Len(diagQueue)
               /\ t = diagSubmitted
        BY <3>7 DEF DiagNumbers
      <4>2. diagReported' = r + c /\ diagCount' = 0
        BY <1>3, <1>4, <2>3, <4>1
      <4>3. t - t = ((r + c) - r) + (d - d) + (0 - c) + (q - q) + (1 - 1)
        OBVIOUS
      <4> QED
        BY <3>2, <3>5, <4>1, <4>2, <4>3 DEF DiagMoves
    <3> QED
      BY <1>8, <3>1, <3>6, DiagMoved
  <2>4. CASE w # 0
    <3>0. n + 1 \notin Diag!Lines
      BY <1>5, <2>2 DEF Diag!Lines
    <3>1. Diag!Lines' = Diag!Lines \cup {n + 1}
      BY <1>5, <1>6, <1>9, <2>2, <2>4 DEF Diag!Lines, Diag!Marker
    <3>2. Diag!InHand' = 0 /\ Diag!InHand = 1 /\ diagCount' = 0 /\ diagCount = 0 /\ diagReported' = diagReported
      BY <1>3, <1>4, <2>4 DEF Diag!InHand, Diag!Marker
    <3>3. Cardinality(Diag!Lines') = Cardinality(Diag!Lines) + 1
      BY <2>1, <3>0, <3>1, FS_AddElement
    <3>4. PICK k \in Nat : Diag!Cardinality(Diag!Lines) = k /\ Diag!Cardinality(Diag!Lines)' = k + 1
      BY <2>1, <3>3, SameDiagCardinality
    <3>5. diagSubmitted = k + diagReported + diagDropped + 0 + Len(diagQueue) + 1
      BY <3>2, <3>4 DEF DiagInv, Diag!EveryLineAccounted
    <3>6. diagSubmitted' = (k + 1) + diagReported' + diagDropped' + 0 + Len(diagQueue') + 0
      BY <1>2, <3>2, <3>5 DEF DiagInv, DiagTypes
    <3> QED
      BY <3>2, <3>4, <3>6 DEF Diag!EveryLineAccounted
  <2> QED
    BY <2>3, <2>4
<1>12. DiagFiles'
  <2>1. diagPc' \in {"LINE", "RECV"} /\ Len(diagMain') <= FileCap
    BY <1>0, <1>3, <1>5, <1>7
  <2> QED
    BY <1>2, <2>1 DEF DiagInv, DiagFiles, Rotating
<1>13. MainIsEnd'
  <2>1. \A i \in 1 .. m + 1 : diagMain'[i] = diagLog'[(n + 1) - (m + 1) + i]
    <3> SUFFICES ASSUME NEW i \in 1 .. m + 1 PROVE diagMain'[i] = diagLog'[(n + 1) - (m + 1) + i]
      OBVIOUS
    <3>1. CASE i = m + 1
      <4>1. (n + 1) - (m + 1) + i = n + 1
        BY <1>5, <3>1
      <4> QED
        BY <1>6, <1>7, <3>1, <4>1
    <3>2. CASE i \in 1 .. m
      <4>1. (n + 1) - (m + 1) + i = n - m + i /\ n - m + i \in 1 .. n
        BY <1>5, <3>2
      <4>2. diagMain[i] = diagLog[n - m + i]
        BY <1>5, <3>2 DEF DiagInv, MainIsEnd
      <4> QED
        BY <1>6, <1>7, <3>2, <4>1, <4>2
    <3> QED
      BY <1>5, <3>1, <3>2
  <2>2. m + 1 <= n + 1
    BY <1>5
  <2> QED
    BY <1>6, <1>7, <2>1, <2>2 DEF MainIsEnd
<1>14. DiagNewest'
  <2> SUFFICES ASSUME NEW i \in 1 .. n + 1, i + FileCap > n + 1
               PROVE  \/ \E k \in 1 .. m + 1 : diagMain'[k] = diagLog'[i]
                      \/ \E k \in 1 .. Len(diagFirst) : diagFirst[k] = diagLog'[i]
    BY <1>2, <1>6, <1>7 DEF DiagNewest, OnDisk
  <2>1. CASE i = n + 1
    <3>1. m + 1 \in 1 .. m + 1
      BY <1>5
    <3> QED
      BY <1>6, <1>7, <2>1, <3>1
  <2>2. CASE i \in 1 .. n
    <3>1. i + FileCap > n
      BY <1>0, <1>5
    <3>2. OnDisk(diagLog[i])
      BY <1>5, <2>2, <3>1 DEF DiagInv, DiagNewest
    <3>3. 1 .. m \subseteq 1 .. m + 1
      BY <1>5
    <3> QED
      BY <1>5, <1>6, <1>7, <2>2, <3>2, <3>3 DEF OnDisk
  <2> QED
    BY <1>9, <2>1, <2>2
<1> QED
  BY <1>8, <1>10, <1>11, <1>12, <1>13, <1>14 DEF DiagInv

\* An error of the sink: nothing is written but the part of a copy.
LEMMA DiagFails == DiagInv /\ Diag!Fails => DiagInv'
<1> SUFFICES ASSUME DiagInv, Diag!Fails PROVE DiagInv'
  OBVIOUS
<1>0. FileCap \in Nat \ {0}
  BY DiagBounds DEF Diag!LogBounds
<1>1. /\ diagPc \in {"TO SECOND", "TO FIRST", "CUT", "APPEND"} /\ diagFaults' = diagFaults + 1
      /\ UNCHANGED <<diagSubmitted, diagQueue, diagMain, diagLog, diagReported>>
  BY DEF Diag!Fails
<1>2. \/ /\ diagCount > 0 /\ diagDropped' = diagDropped + diagCount
         /\ diagCount' = 0 /\ diagPc' = "LINE" /\ diagLine' = diagLine
      \/ /\ diagCount = 0 /\ diagDropped' = diagDropped + 1 /\ diagPc' = "RECV" /\ diagLine' = 0
         /\ diagCount' = diagCount
  <2>1. diagCount \in Nat
    BY DEF DiagInv, DiagTypes
  <2>2. CASE diagCount > 0
    BY <2>2 DEF Diag!Fails
  <2>3. CASE ~(diagCount > 0)
    <3>1. diagCount = 0
      BY <2>1, <2>3
    <3> QED
      BY <2>3, <3>1 DEF Diag!Fails, Diag!Marker
  <2> QED
    BY <2>2, <2>3
<1>3. PICK k \in 0 .. FileCap :
         /\ diagSecond' = IF diagPc = "TO SECOND" /\ k < Len(diagFirst)
                              THEN SubSeq(diagFirst, 1, k) ELSE diagSecond
         /\ diagFirst' = IF diagPc = "TO FIRST" /\ k < Len(diagMain)
                             THEN SubSeq(diagMain, 1, k) ELSE diagFirst
  BY DEF Diag!Fails
<1>4. \A s \in Seq(Nat) : k < Len(s) => SubSeq(s, 1, k) \in Seq(Nat) /\ Len(SubSeq(s, 1, k)) = k
  BY <1>0
<1>5. diagMain \in Seq(Nat) /\ diagFirst \in Seq(Nat) /\ diagSecond \in Seq(Nat)
      /\ diagLine # 0 /\ diagCount \in Nat /\ diagDropped \in Nat /\ diagLine \in Nat
  BY <1>1 DEF DiagInv, DiagTypes, InHandPlaced
<1>6. /\ diagFirst' \in Seq(Nat) /\ diagSecond' \in Seq(Nat)
      /\ Len(diagFirst') <= FileCap /\ Len(diagSecond') <= FileCap
  <2>1. Len(diagFirst) <= FileCap /\ Len(diagSecond) <= FileCap /\ k <= FileCap
    BY <1>0 DEF DiagInv, DiagFiles
  <2>2. k < Len(diagFirst) => SubSeq(diagFirst, 1, k) \in Seq(Nat) /\ Len(SubSeq(diagFirst, 1, k)) = k
    BY <1>4, <1>5
  <2>3. k < Len(diagMain) => SubSeq(diagMain, 1, k) \in Seq(Nat) /\ Len(SubSeq(diagMain, 1, k)) = k
    BY <1>4, <1>5
  <2> QED
    BY <1>3, <1>5, <2>1, <2>2, <2>3
<1>7. DiagTypes' /\ InHandPlaced'
  <2>1. diagDropped' \in Nat /\ diagCount' \in Nat /\ diagLine' \in Nat
        /\ diagPc' \in {"LINE", "RECV"} /\ diagFaults' \in Nat
    <3>1. diagFaults \in Nat
      BY DEF DiagInv, DiagTypes
    <3>2. diagDropped' \in Nat /\ diagCount' \in Nat /\ diagLine' \in Nat
      BY <1>2, <1>5
    <3>3. diagPc' \in {"LINE", "RECV"}
      BY <1>2
    <3>4. diagFaults' = diagFaults + 1
      BY <1>1
    <3>5. diagFaults' \in Nat
      BY <3>1, <3>4
    <3> QED
      BY <3>2, <3>3, <3>5
  <2>2. DiagTypes'
    BY <1>1, <1>6, <2>1 DEF DiagInv, DiagTypes
  <2>3. InHandPlaced'
    BY <1>2, <1>5 DEF InHandPlaced
  <2> QED
    BY <2>2, <2>3
<1>8. DiagOrder'
  <2>1. \A j \in 1 .. Len(diagQueue) : 0 < diagQueue[j]
    BY <1>5 DEF DiagInv, DiagTypes, DiagOrder
  <2>2. CASE diagLine' = 0
    <3>1. diagSubmitted \in Nat
      BY DEF DiagInv, DiagTypes
    <3>a. diagSubmitted' = diagSubmitted
      BY <1>1
    <3>2. diagLine' <= diagSubmitted'
      BY <2>2, <3>1, <3>a
    <3>3. \A j \in 1 .. Len(diagQueue') : diagLine' < diagQueue'[j] /\ diagQueue'[j] <= diagSubmitted'
      BY <1>1, <2>1, <2>2 DEF DiagInv, DiagOrder
    <3> QED
      BY <1>1, <2>2, <3>2, <3>3 DEF DiagInv, DiagOrder
  <2>3. CASE diagLine' = diagLine
    BY <1>1, <2>3 DEF DiagInv, DiagOrder
  <2> QED
    BY <1>2, <2>2, <2>3
<1>9. Diag!EveryLineAccounted'
  <2>1. PICK c \in Nat, r \in Nat, d \in Nat, q \in Nat, t \in Nat :
           c = diagCount /\ r = diagReported /\ d = diagDropped /\ q = Len(diagQueue)
           /\ t = diagSubmitted
    BY DiagNumbersType DEF DiagInv, DiagNumbers
  <2>u. diagReported' = r /\ Len(diagQueue') = q /\ diagSubmitted' = t /\ Diag!InHand = 1
    BY <1>1, <1>5, <2>1 DEF Diag!InHand, Diag!Marker
  <2>2. DiagMoves
    <3>1. CASE diagDropped' = d + c /\ diagCount' = 0 /\ diagLine' = diagLine
      <4>1. Diag!InHand' = 1
        BY <1>5, <3>1 DEF Diag!InHand, Diag!Marker
      <4>2. t - t = (r - r) + ((d + c) - d) + (0 - c) + (q - q) + (1 - 1)
        OBVIOUS
      <4> QED
        BY <2>1, <2>u, <3>1, <4>1, <4>2 DEF DiagMoves
    <3>2. CASE diagDropped' = d + 1 /\ diagCount' = c /\ diagLine' = 0
      <4>1. Diag!InHand' = 0
        BY <3>2 DEF Diag!InHand, Diag!Marker
      <4>2. t - t = (r - r) + ((d + 1) - d) + (c - c) + (q - q) + (0 - 1)
        OBVIOUS
      <4> QED
        BY <2>1, <2>u, <3>2, <4>1, <4>2 DEF DiagMoves
    <3> QED
      BY <1>2, <2>1, <3>1, <3>2
  <2> QED
    BY <1>1, <1>7, <2>2, DiagMoved, SameLines
<1>10. DiagFiles' /\ MainIsEnd'
  <2>1. diagPc' \in {"LINE", "RECV"}
    BY <1>2
  <2> QED
    BY <1>1, <1>6, <2>1 DEF DiagInv, DiagFiles, MainIsEnd, Rotating
<1>11. DiagNewest'
  <2>1. CASE diagPc = "TO FIRST"
    <3>1. Len(diagMain) = FileCap
      BY <2>1 DEF DiagInv, DiagFiles, Rotating
    <3> QED
      BY <1>1, <3>1, FullIsNewest DEF DiagNewest, OnDisk
  <2>2. CASE diagPc # "TO FIRST"
    BY <1>1, <1>3, <2>2 DEF DiagInv, DiagNewest, OnDisk
  <2> QED
    BY <2>1, <2>2
<1> QED
  BY <1>7, <1>8, <1>9, <1>10, <1>11 DEF DiagInv

LEMMA DiagStep == DiagInv /\ [Diag!Next]_(Diag!vars) => DiagInv'
<1> SUFFICES ASSUME DiagInv, [Diag!Next]_(Diag!vars) PROVE DiagInv'
  OBVIOUS
<1>1. CASE UNCHANGED Diag!vars
  <2> USE <1>1 DEF Diag!vars
  <2>1. DiagTypes' /\ InHandPlaced' /\ DiagOrder' /\ DiagFiles' /\ MainIsEnd' /\ DiagNewest'
    BY DEF DiagInv, DiagTypes, InHandPlaced, DiagOrder, DiagFiles, MainIsEnd, DiagNewest, OnDisk
  <2>2. Diag!EveryLineAccounted'
    BY DEF DiagInv, Diag!EveryLineAccounted, Diag!InHand, Diag!Lines
  <2> QED
    BY <2>1, <2>2 DEF DiagInv
<1> QED
  BY <1>1, DiagSubmit, DiagReceive, DiagSwap, DiagRotate, DiagWrite, DiagFails DEF Diag!Next

\* The diagnostic log, for every capacity of the queue, every size of the files and any
\* failures of the sink: a line is in the log, on its way or counted, the log is in
\* order, and neither a rotation nor one that fails halfway loses the newest records or
\* outgrows a file (DiagnosticLogger, RotatingDiagnosticWriter::write).
THEOREM DiagnosticsStayKept == Diag!Spec => []DiagnosticsKept
<1>1. DiagInv => DiagnosticsKept
  <2> SUFFICES ASSUME DiagInv PROVE DiagnosticsKept
    OBVIOUS
  <2>1. DOMAIN diagLog = 1 .. Len(diagLog)
    BY DEF DiagInv, DiagTypes
  <2>2. Diag!LogInOrder
    BY <2>1 DEF DiagInv, DiagOrder, Diag!LogInOrder, Diag!Lines, Diag!Marker
  <2>3. \A l : OnDisk(l) => l \in Diag!OnDisk
    BY DEF DiagInv, DiagTypes, OnDisk, Diag!OnDisk, Diag!ToSet
  <2>4. Diag!NewestOnDisk
    BY <2>1, <2>3 DEF DiagInv, DiagNewest, Diag!NewestOnDisk
  <2>5. Diag!FilesBounded
    BY DEF DiagInv, DiagFiles, Diag!FilesBounded
  <2> QED
    BY <2>2, <2>4, <2>5 DEF DiagInv, DiagnosticsKept
<1> QED
  BY <1>1, DiagInit, DiagStep, PTL DEF Diag!Spec
=============================================================================
