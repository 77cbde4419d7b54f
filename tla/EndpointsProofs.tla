---------------------------- MODULE EndpointsProofs ----------------------------
(***************************************************************************)
(* Theorems about Endpoints and PredictionResponse, for every set of       *)
(* names, every list of labels and every bound on the frames.  RouteInv    *)
(* says where a request stands and that what is answered is the format of  *)
(* the frame; the rest is about format_prediction_response alone: how it   *)
(* splits the columns (SplitCases), what a row is answered (AnswerRow) and *)
(* which errors it ends in (FormatErrors).                                 *)
(***************************************************************************)
EXTENDS Endpoints, SequenceTheorems, FiniteSetTheorems, FunctionTheorems, TLAPS

-----------------------------------------------------------------------------
(* The first, the greatest, and Predicted *)

\* A set of natural numbers that is not empty has a least element, which is Min.
LEMMA LeastExists ==
  ASSUME NEW S \in SUBSET Nat, S # {}
  PROVE  Min(S) \in S /\ \A y \in S : Min(S) <= y
<1> DEFINE R == OpToRel(<, Nat)
<1>1. IsWellFoundedOn(R, Nat)
  BY NatLessThanWellFounded
<1>2. \A x, y \in Nat : x < y => <<x, y>> \in R
  BY DEF OpToRel
<1> HIDE DEF R
<1>3. PICK x \in S : \A y \in S : ~(<<y, x>> \in R)
  BY <1>1, WFMin
<1>4. ASSUME NEW y \in S
      PROVE  x <= y
  <2>1. x \in Nat /\ y \in Nat
    OBVIOUS
  <2>2. ~(y < x)
    BY <1>2, <1>3, <2>1
  <2> QED
    BY <2>1, <2>2
<1> QED
  BY <1>4 DEF Min

\* Among finitely many numbers there is a first of the greatest.
LEMMA GreatestExists ==
  ASSUME NEW n \in Nat \ {0}, NEW v \in [1 .. n -> Numbers]
  PROVE  \E i \in 1 .. n : /\ \A j \in 1 .. n : v[j] <= v[i]
                           /\ \A j \in 1 .. i - 1 : v[j] < v[i]
<1> DEFINE below == {MaxValue - v[j] : j \in 1 .. n}
<1>1. MaxValue \in Nat /\ \A j \in 1 .. n : v[j] \in Nat /\ v[j] <= MaxValue
  BY BoundsAssumption DEF Numbers
<1>2. below \in SUBSET Nat /\ below # {}
  <2>1. \A j \in 1 .. n : MaxValue - v[j] \in Nat
    BY <1>1
  <2>2. MaxValue - v[1] \in below
    OBVIOUS
  <2> QED
    BY <2>1, <2>2
<1> HIDE DEF below
<1>3. Min(below) \in below /\ \A y \in below : Min(below) <= y
  BY <1>2, LeastExists
<1>4. PICK k \in 1 .. n : Min(below) = MaxValue - v[k]
  BY <1>3 DEF below
<1>5. ASSUME NEW j \in 1 .. n
      PROVE  v[j] <= v[k]
  <2>1. MaxValue - v[k] <= MaxValue - v[j]
    BY <1>3, <1>4 DEF below
  <2> QED
    BY <1>1, <2>1
<1> DEFINE best == {j \in 1 .. n : v[j] = v[k]}
<1>6. best \in SUBSET Nat /\ best # {}
  OBVIOUS
<1>7. Min(best) \in best /\ \A y \in best : Min(best) <= y
  BY <1>6, LeastExists
<1> DEFINE i == Min(best)
<1>8. i \in 1 .. n /\ v[i] = v[k]
  BY <1>7
<1>9. ASSUME NEW j \in 1 .. i - 1
      PROVE  v[j] < v[i]
  <2>1. j \in 1 .. n /\ ~(i <= j)
    BY <1>8
  <2>2. v[j] # v[k]
    BY <1>7, <2>1
  <2> QED
    BY <1>1, <1>5, <1>8, <2>1, <2>2
<1> QED
  BY <1>5, <1>8, <1>9

\* The label of a row of numbers is the name of a column with the greatest.
LEMMA PredictedFacts ==
  ASSUME NEW columns \in Seq(Columns), columns # <<>>, NEW row,
         \A c \in Range(columns) : row[c] \in Numbers
  PROVE  \E c \in Range(columns) : /\ Predicted(columns, row) = c.name
                                   /\ \A d \in Range(columns) : row[d] <= row[c]
<1> DEFINE n == Len(columns)
           v == [i \in 1 .. n |-> row[columns[i]]]
           First(i) == /\ \A j \in DOMAIN columns : row[columns[j]] <= row[columns[i]]
                       /\ \A j \in 1 .. i - 1 : row[columns[j]] < row[columns[i]]
<1>1. DOMAIN columns = 1 .. n /\ n \in Nat \ {0}
  BY LenProperties, EmptySeq
<1>2. v \in [1 .. n -> Numbers]
  BY <1>1 DEF Range
<1>3. PICK i \in 1 .. n : /\ \A j \in 1 .. n : v[j] <= v[i]
                          /\ \A j \in 1 .. i - 1 : v[j] < v[i]
  BY <1>1, <1>2, GreatestExists
<1>4. First(i)
  <2>1. \A j \in 1 .. n : v[j] = row[columns[j]]
    OBVIOUS
  <2>2. i \in 1 .. n /\ 1 .. i - 1 \subseteq 1 .. n
    BY <1>1
  <2> HIDE DEF v, n
  <2> QED
    BY <1>1, <1>3, <2>1, <2>2
<1> DEFINE best == CHOOSE k \in DOMAIN columns : First(k)
<1>5. best \in DOMAIN columns /\ First(best)
  BY <1>1, <1>4
<1>6. Predicted(columns, row) = columns[best].name
  BY DEF Predicted
<1> HIDE DEF best
<1> QED
  BY <1>5, <1>6 DEF Range

\* A sequence that is not empty has a first.
LEMMA FirstOfSeq ==
  ASSUME NEW S, NEW seq \in Seq(S), seq # <<>>
  PROVE  /\ DOMAIN seq = 1 .. Len(seq) /\ Len(seq) \in Nat \ {0}
         /\ 1 \in DOMAIN seq /\ seq[1] \in S /\ seq[1] \in Range(seq)
<1>1. DOMAIN seq = 1 .. Len(seq) /\ Len(seq) \in Nat
  BY LenProperties
<1>2. Len(seq) # 0
  BY EmptySeq
<1> DEFINE n == Len(seq)
<1> HIDE DEF n
<1>3. n \in Nat /\ n # 0
  BY <1>1, <1>2 DEF n
<1>4. 1 \in 1 .. n
  BY <1>3
<1>5. seq[1] \in S
  BY <1>4, ElementOfSeq DEF n
<1>6. 1 \in DOMAIN seq
  BY <1>1, <1>4 DEF n
<1> QED
  BY <1>1, <1>2, <1>5, <1>6 DEF Range

-----------------------------------------------------------------------------
(* The split of the columns *)

\* The columns of the labels, as the split looks for them.
Own(labels) == {TextColumn(l) : l \in Range(labels)}

\* A column named by a text is the one that its name is looked up as.
LEMMA TextColumns ==
  ASSUME NEW c \in Columns
  PROVE  c.text => c = TextColumn(c.name)
<1>1. CASE c \in {TextColumn(n) : n \in Names}
  BY <1>1 DEF TextColumn
<1>2. CASE c \in [name : NumberNames, text : {FALSE}]
  <2>1. c.text = FALSE
    BY <1>2
  <2> QED
    BY <2>1
<1> QED
  BY <1>1, <1>2 DEF Columns

\* The configured labels are names, and a pair of them makes two.
LEMMA MetadataFacts ==
  ASSUME NEW m \in Metadata
  PROVE  /\ m.targetType \in TargetTypes
         /\ PredictionColumns(m) \in Seq(Names)
         /\ m.targetType = "binary" /\ Len(PredictionColumns(m)) >= 2 =>
                /\ IsFiniteSet(Range(PredictionColumns(m)))
                /\ Cardinality(Range(PredictionColumns(m))) = 2
<1>1. /\ Labels \in Seq(Names) /\ Len(Labels) \in Nat /\ Len(Labels) >= 2
      /\ DOMAIN Labels = 1 .. Len(Labels) /\ IsInjective(Labels)
  BY LabelsAssumption, LenProperties
<1>2. Labels[1] \in Names /\ Labels[2] \in Names /\ Labels[1] # Labels[2]
  BY <1>1 DEF IsInjective
<1>3. Labels[1] # "" /\ Labels[2] # ""
  BY <1>2, NamesAssumption
<1>4. /\ m.targetType \in TargetTypes
      /\ m.positive \in {"", Labels[1]} /\ m.negative \in {"", Labels[2]}
      /\ m.classLabels \in {<<>>, Labels}
  BY DEF Metadata
<1>5. CASE m.targetType = "binary"
  <2>2. PredictionColumns(m) = Given(m.positive) \o Given(m.negative)
    BY <1>5 DEF PredictionColumns
  <2>3. PredictionColumns(m) \in {<<>>, <<Labels[1]>>, <<Labels[2]>>, <<Labels[1], Labels[2]>>}
    <3>1. /\ <<>> \o <<>> = <<>> /\ <<>> \o <<Labels[2]>> = <<Labels[2]>>
          /\ <<Labels[1]>> \o <<>> = <<Labels[1]>>
          /\ <<Labels[1]>> \o <<Labels[2]>> = <<Labels[1], Labels[2]>>
      <4>1. /\ <<>> \in Seq(Names) /\ <<Labels[1]>> \in Seq(Names)
            /\ <<Labels[2]>> \in Seq(Names)
        BY <1>2
      <4>2. <<Labels[1]>> \o <<Labels[2]>> = <<Labels[1], Labels[2]>>
        <5> DEFINE pair == <<Labels[1], Labels[2]>>
                   both == <<Labels[1]>> \o <<Labels[2]>>
        <5>1. pair \in Seq(Names) /\ Len(pair) = 2 /\ pair[1] = Labels[1] /\ pair[2] = Labels[2]
          BY <1>2
        <5>2. both \in Seq(Names) /\ Len(both) = 2 /\ both[1] = Labels[1] /\ both[2] = Labels[2]
          BY <4>1, ConcatProperties
        <5> HIDE DEF pair, both
        <5>3. both = pair
          BY <5>1, <5>2, SeqEqual
        <5> QED
          BY <5>3 DEF pair, both
      <4> QED
        BY <4>1, <4>2, ConcatEmptySeq
    <3>2. /\ Given(m.positive) \in {<<>>, <<Labels[1]>>}
          /\ Given(m.negative) \in {<<>>, <<Labels[2]>>}
      BY <1>4 DEF Given
    <3> QED
      BY <2>2, <3>1, <3>2
  <2>4. PredictionColumns(m) \in Seq(Names)
    <3>1. /\ <<>> \in Seq(Names) /\ <<Labels[1]>> \in Seq(Names) /\ <<Labels[2]>> \in Seq(Names)
          /\ <<Labels[1], Labels[2]>> \in Seq(Names)
      BY <1>2
    <3> QED
      BY <2>3, <3>1
  <2>5. Len(PredictionColumns(m)) >= 2 => PredictionColumns(m) = <<Labels[1], Labels[2]>>
    <3>1. Len(<<>>) = 0 /\ Len(<<Labels[1]>>) = 1 /\ Len(<<Labels[2]>>) = 1
      OBVIOUS
    <3> QED
      BY <2>3, <3>1
  <2>6. Range(<<Labels[1], Labels[2]>>) = {Labels[1]} \cup {Labels[2]}
    BY DEF Range
  <2>7. /\ IsFiniteSet({Labels[1]} \cup {Labels[2]})
        /\ Cardinality({Labels[1]} \cup {Labels[2]}) = 2
    <3>1. IsFiniteSet({Labels[1]}) /\ Cardinality({Labels[1]}) = 1 /\ Labels[2] \notin {Labels[1]}
      BY <1>2, FS_Singleton
    <3> DEFINE S == {Labels[1]}
    <3> HIDE DEF S
    <3>2. IsFiniteSet(S) /\ Cardinality(S) = 1 /\ Labels[2] \notin S
      BY <3>1 DEF S
    <3>3. IsFiniteSet(S \cup {Labels[2]}) /\ Cardinality(S \cup {Labels[2]}) = 1 + 1
      BY <3>2, FS_AddElement
    <3> QED
      BY <3>3 DEF S
  <2> QED
    BY <1>4, <2>4, <2>5, <2>6, <2>7
<1>6. CASE m.targetType # "binary"
  <2>2. PredictionColumns(m) = m.classLabels
    BY <1>6 DEF PredictionColumns
  <2> QED
    BY <1>1, <1>4, <1>6, <2>2, EmptySeq
<1> QED
  BY <1>5, <1>6

\* By labels: the frame whole, or the columns of the labels and the others apart.
LEMMA LabelSplit ==
  ASSUME NEW columns \in Seq(Columns), NEW labels \in Seq(Names),
         NEW split, split = SplitByLabels(columns, labels)
  PROVE  \/ /\ split = Whole(columns)
            /\ Own(labels) \subseteq Range(columns) => Range(columns) = Own(labels)
         \/ /\ split.extra = Range(columns) \ Own(labels) /\ split.extra # {}
            /\ Own(labels) \subseteq Range(columns)
            /\ split.predictions \in Seq(Columns)
            /\ Range(split.predictions) = Own(labels)
<1> DEFINE wanted == [i \in DOMAIN labels |-> TextColumn(labels[i])]
<1>1. DOMAIN labels = 1 .. Len(labels) /\ Len(labels) \in Nat
      /\ \A i \in DOMAIN labels : labels[i] \in Names
  BY LenProperties, ElementOfSeq
<1>2. \A i \in DOMAIN labels : TextColumn(labels[i]) \in Columns
  BY <1>1 DEF Columns
<1>3. wanted \in Seq(Columns)
  BY <1>1, <1>2
<1>4. Range(wanted) = Own(labels)
  BY DEF Range, Own
<1>5. split = IF Range(wanted) \subseteq Range(columns) /\ Range(columns) \ Range(wanted) # {}
              THEN [predictions |-> wanted, extra |-> Range(columns) \ Range(wanted)]
              ELSE Whole(columns)
  BY DEF SplitByLabels
<1> HIDE DEF wanted
<1>6. CASE Own(labels) \subseteq Range(columns) /\ Range(columns) \ Own(labels) # {}
  <2>1. split.extra = Range(columns) \ Own(labels) /\ split.predictions = wanted
    BY <1>4, <1>5, <1>6
  <2> QED
    BY <1>3, <1>4, <1>6, <2>1
<1>7. CASE ~(Own(labels) \subseteq Range(columns) /\ Range(columns) \ Own(labels) # {})
  <2>1. split = Whole(columns)
    BY <1>4, <1>5, <1>7
  <2> QED
    BY <1>7, <2>1
<1> QED
  BY <1>6, <1>7

\* By target: the frame whole, or one column and the others apart.
LEMMA TargetSplit ==
  ASSUME NEW columns \in Seq(Columns), columns # <<>>,
         NEW target, target = "" \/ TextColumn(target) \in Range(columns),
         NEW split, split = SplitByTarget(columns, target)
  PROVE  \/ split = Whole(columns) /\ (Len(columns) = 1 \/ ~columns[1].text)
         \/ \E w \in Range(columns) :
               split = [predictions |-> <<w>>, extra |-> Range(columns) \ {w}]
<1> DEFINE wanted == IF target = "" THEN TextColumn(columns[1].name) ELSE TextColumn(target)
<1>1. split = IF Len(columns) = 1 \/ wanted \notin Range(columns)
              THEN Whole(columns)
              ELSE [predictions |-> <<wanted>>, extra |-> Range(columns) \ {wanted}]
  BY DEF SplitByTarget
<1>2. columns[1] \in Columns /\ columns[1] \in Range(columns)
  BY FirstOfSeq
<1>3. columns[1].text => columns[1] = TextColumn(columns[1].name)
  BY <1>2, TextColumns
<1>4. wanted \notin Range(columns) => ~columns[1].text
  BY <1>2, <1>3
<1> HIDE DEF wanted
<1> QED
  BY <1>1, <1>4

\* What the split does to a frame, for every target type.
WholeFits(m, columns) ==
    LET labels == PredictionColumns(m)
    IN  /\ Scalar(m) => Len(columns) = 1 \/ ~columns[1].text
        /\ m.targetType # "other" /\ columns = <<>> => Classifies(m) /\ labels # <<>>
        /\ Classifies(m) /\ labels # <<>> =>
              (Own(labels) \subseteq Range(columns) => Range(columns) = Own(labels))

OneColumn(m, columns, split) ==
    /\ m.targetType # "other"
    /\ Classifies(m) => PredictionColumns(m) = <<>>
    /\ \E w \in Range(columns) :
          split = [predictions |-> <<w>>, extra |-> Range(columns) \ {w}]

LabelColumns(m, columns, split) ==
    LET labels == PredictionColumns(m)
    IN  /\ Classifies(m) /\ labels # <<>>
        /\ split.extra = Range(columns) \ Own(labels) /\ split.extra # {}
        /\ Own(labels) \subseteq Range(columns)
        /\ split.predictions \in Seq(Columns)
        /\ Range(split.predictions) = Own(labels)

\* The split leaves a frame whole, takes one column or takes those of the labels.
LEMMA SplitCases ==
  ASSUME NEW m \in Metadata, NEW columns \in Seq(Columns), ~SplitFails(m, columns),
         NEW split, split = Split(m, columns)
  PROVE  \/ split = Whole(columns) /\ WholeFits(m, columns)
         \/ OneColumn(m, columns, split)
         \/ LabelColumns(m, columns, split)
<1> DEFINE labels == PredictionColumns(m)
<1>1. m.targetType \in TargetTypes /\ labels \in Seq(Names)
  BY MetadataFacts
<1>2. CASE m.targetType = "other"
  BY <1>2 DEF Split, WholeFits, Scalar, Classifies
<1>3. CASE Classifies(m) /\ labels # <<>>
  <2>1. m.targetType # "other" /\ ~Scalar(m)
    BY <1>3 DEF Classifies, Scalar
  <2>2. split = SplitByLabels(columns, labels)
    BY <1>3, <2>1 DEF Split
  <2>3. \/ /\ split = Whole(columns)
           /\ Own(labels) \subseteq Range(columns) => Range(columns) = Own(labels)
        \/ /\ split.extra = Range(columns) \ Own(labels) /\ split.extra # {}
           /\ Own(labels) \subseteq Range(columns)
           /\ split.predictions \in Seq(Columns)
           /\ Range(split.predictions) = Own(labels)
    BY <1>1, <2>2, LabelSplit
  <2> HIDE DEF labels
  <2> QED
    BY <1>3, <2>1, <2>3 DEF WholeFits, LabelColumns, labels
<1>4. CASE m.targetType # "other" /\ ~(Classifies(m) /\ labels # <<>>)
  <2> DEFINE target == IF Classifies(m) THEN "" ELSE TargetColumn(m, columns)
  <2>1. split = SplitByTarget(columns, target)
    BY <1>4 DEF Split
  <2>2. columns # <<>>
    <3>1. Scalar(m) \/ Classifies(m)
      BY <1>1, <1>4 DEF TargetTypes, Scalar, Classifies
    <3> QED
      BY <1>4, <3>1 DEF SplitFails
  <2>3. target = "" \/ TextColumn(target) \in Range(columns)
    BY DEF TargetColumn, Prediction
  <2> HIDE DEF target
  <2>4. \/ split = Whole(columns) /\ (Len(columns) = 1 \/ ~columns[1].text)
        \/ \E w \in Range(columns) :
              split = [predictions |-> <<w>>, extra |-> Range(columns) \ {w}]
    <3>1. \A t : t = "" \/ TextColumn(t) \in Range(columns) =>
             \/ /\ SplitByTarget(columns, t) = Whole(columns)
                /\ Len(columns) = 1 \/ ~columns[1].text
             \/ \E w \in Range(columns) :
                   SplitByTarget(columns, t) =
                      [predictions |-> <<w>>, extra |-> Range(columns) \ {w}]
      BY <2>2, TargetSplit
    <3> QED
      BY <2>1, <2>3, <3>1
  <2>5. CASE split = Whole(columns) /\ (Len(columns) = 1 \/ ~columns[1].text)
    <3>1. WholeFits(m, columns)
      BY <1>4, <2>2, <2>5 DEF WholeFits
    <3> QED
      BY <2>5, <3>1
  <2>6. CASE \E w \in Range(columns) :
                split = [predictions |-> <<w>>, extra |-> Range(columns) \ {w}]
    BY <1>4, <2>6 DEF OneColumn
  <2> QED
    BY <2>4, <2>5, <2>6
<1> QED
  BY <1>2, <1>3, <1>4

-----------------------------------------------------------------------------
(* The outcome of the rows *)

\* The first row that does not fit decides, and only such a row.
LEMMA RowsFacts ==
  ASSUME NEW m, NEW columns, NEW rows, NEW n \in Nat, DOMAIN rows = 1 .. n,
         m.targetType # "other"
  PROVE  /\ RowsOutcome(m, columns, rows) = Ok <=>
               \A i \in DOMAIN rows : RowOutcome(m, columns, rows[i]) = Ok
         /\ RowsOutcome(m, columns, rows) # Ok =>
               \E i \in DOMAIN rows :
                  RowsOutcome(m, columns, rows) = RowOutcome(m, columns, rows[i])
<1> DEFINE outcomes == [i \in DOMAIN rows |-> RowOutcome(m, columns, rows[i])]
           bad == {i \in DOMAIN rows : outcomes[i] # Ok}
<1>1. RowsOutcome(m, columns, rows) = IF bad = {} THEN Ok ELSE outcomes[Min(bad)]
  BY DEF RowsOutcome
<1>2. bad \in SUBSET Nat
  OBVIOUS
<1>3. CASE bad = {}
  BY <1>1, <1>3
<1>4. CASE bad # {}
  <2>1. Min(bad) \in bad
    BY <1>2, <1>4, LeastExists
  <2>2. /\ Min(bad) \in DOMAIN rows /\ outcomes[Min(bad)] # Ok
        /\ outcomes[Min(bad)] = RowOutcome(m, columns, rows[Min(bad)])
    BY <2>1
  <2>3. RowsOutcome(m, columns, rows) = outcomes[Min(bad)]
    BY <1>1, <1>4
  <2> HIDE DEF outcomes, bad
  <2> QED
    BY <2>2, <2>3
<1> QED
  BY <1>3, <1>4

\* A row of a classification is answered when its cells are numbers and its labels fit.
LEMMA ClassFacts ==
  ASSUME NEW m, NEW columns \in Seq(Columns), NEW row
  PROVE  /\ ClassOutcome(m, columns, row) = Ok <=>
               /\ columns # <<>>
               /\ \A c \in Range(columns) : row[c] \in Numbers
               /\ LabelsFit(m, columns, Predicted(columns, row))
         /\ ClassOutcome(m, columns, row) # Ok =>
               \/ ClassOutcome(m, columns, row) = Unprocessable
               \/ \E c \in Range(columns) : row[c] \notin Numbers /\ row[c] # Text
<1> DEFINE bad == {i \in DOMAIN columns : row[columns[i]] \notin Numbers}
<1>1. ClassOutcome(m, columns, row) =
        IF bad # {} THEN FloatError(row[columns[Min(bad)]])
        ELSE IF columns # <<>> /\ LabelsFit(m, columns, Predicted(columns, row))
             THEN Ok ELSE Unprocessable
  BY DEF ClassOutcome
<1>2. bad = {} <=> \A c \in Range(columns) : row[c] \in Numbers
  BY DEF Range
<1>3. CASE bad = {}
  BY <1>1, <1>2, <1>3 DEF Ok, Unprocessable
<1>4. CASE bad # {}
  <2>1. bad \in SUBSET Nat
    BY LenProperties
  <2>2. Min(bad) \in bad
    BY <1>4, <2>1, LeastExists
  <2> DEFINE c == columns[Min(bad)]
  <2>3. c \in Range(columns) /\ row[c] \notin Numbers
    BY <2>2 DEF Range
  <2>4. ClassOutcome(m, columns, row) = FloatError(row[c])
    BY <1>1, <1>4
  <2> HIDE DEF c, bad
  <2>5. ClassOutcome(m, columns, row) # Ok
    BY <2>4 DEF FloatError, Ok, Unprocessable, ServerError
  <2>6. row[c] = Text => ClassOutcome(m, columns, row) = Unprocessable
    BY <2>4 DEF FloatError
  <2> QED
    BY <2>3, <2>5, <2>6
<1> QED
  BY <1>3, <1>4

-----------------------------------------------------------------------------
(* The answer *)

Framed(f) == /\ f.columns \in Seq(Columns)
             /\ f.rows \in Seq([Range(f.columns) -> Cells])

\* The columns that an item answers.
Answering(m, predictions) ==
    IF Scalar(m) THEN {ScalarColumn(predictions)} ELSE Range(predictions)

\* The cases of the split, for the columns of a frame.
SplitIs(m, columns, split) ==
    \/ split = Whole(columns) /\ WholeFits(m, columns)
    \/ OneColumn(m, columns, split)
    \/ LabelColumns(m, columns, split)

\* An answer says what the split, the rows and the items are.
LEMMA AnswerFacts ==
  ASSUME NEW m \in Metadata, NEW f, Framed(f), Format(m, f).outcome = Ok,
         NEW split, split = Split(m, f.columns)
  PROVE  /\ ~SplitFails(m, f.columns)
         /\ SplitIs(m, f.columns, split)
         /\ \A c \in split.extra : c.text
         /\ RowsOutcome(m, split.predictions, f.rows) = Ok
         /\ Format(m, f) = [outcome |-> Ok,
                            items |-> [i \in DOMAIN f.rows |-> Item(m, split.predictions, f.rows[i])],
                            extra |-> split.extra]
<1>1. Failure(ServerError).outcome # Ok /\ Failure(Unprocessable).outcome # Ok
  BY DEF Failure, Ok, ServerError, Unprocessable
<1>2. ~SplitFails(m, f.columns)
  BY <1>1 DEF Format
<1>3. \A c \in split.extra : c.text
  BY <1>1, <1>2 DEF Format
<1>4. RowsOutcome(m, split.predictions, f.rows) = Ok
  BY <1>2, <1>3 DEF Format, Failure
<1>5. Format(m, f) = [outcome |-> Ok,
                      items |-> [i \in DOMAIN f.rows |-> Item(m, split.predictions, f.rows[i])],
                      extra |-> split.extra]
  BY <1>2, <1>3, <1>4 DEF Format
<1>6. SplitIs(m, f.columns, split)
  BY <1>2, SplitCases DEF SplitIs, Framed
<1> QED
  BY <1>2, <1>3, <1>4, <1>5, <1>6

\* The items and the extra output part the columns, but where a scalar is taken from
\* a frame whose first column is named by a number.
LEMMA AnswerParts ==
  ASSUME NEW m, NEW columns \in Seq(Columns), NEW split, SplitIs(m, columns, split)
  PROVE  /\ Answering(m, split.predictions) \subseteq Range(columns)
         /\ \/ /\ split.extra \cap Answering(m, split.predictions) = {}
               /\ Answering(m, split.predictions) \cup split.extra = Range(columns)
            \/ Scalar(m) /\ columns # <<>> /\ ~columns[1].text
<1>1. CASE split = Whole(columns) /\ WholeFits(m, columns)
  <2>1. split.predictions = columns /\ split.extra = {}
    BY <1>1 DEF Whole
  <2>2. CASE ~Scalar(m)
    BY <2>1, <2>2 DEF Answering
  <2>3. CASE Scalar(m)
    <3>1. m.targetType # "other" /\ ~Classifies(m)
      BY <2>3 DEF Scalar, Classifies
    <3>2. columns # <<>> /\ (Len(columns) = 1 \/ ~columns[1].text)
      BY <1>1, <2>3, <3>1 DEF WholeFits
    <3>3. CASE Len(columns) = 1
      <4>1. Range(columns) = {columns[1]}
        <5>1. DOMAIN columns = 1 .. 1
          BY <3>2, <3>3, FirstOfSeq
        <5>2. 1 .. 1 = {1}
          OBVIOUS
        <5> QED
          BY <5>1, <5>2 DEF Range
      <4>2. ScalarColumn(columns) = columns[1]
        BY <4>1 DEF ScalarColumn
      <4> QED
        BY <2>1, <2>3, <4>1, <4>2 DEF Answering
    <3>4. ScalarColumn(columns) \in Range(columns)
      BY <3>2, FirstOfSeq DEF ScalarColumn
    <3>5. Answering(m, columns) \subseteq Range(columns)
      BY <2>3, <3>4 DEF Answering
    <3> QED
      BY <2>1, <2>3, <3>2, <3>3, <3>5
  <2> QED
    BY <2>2, <2>3
<1>2. CASE OneColumn(m, columns, split)
  <2>1. PICK w \in Range(columns) :
            split = [predictions |-> <<w>>, extra |-> Range(columns) \ {w}]
    BY <1>2 DEF OneColumn
  <2>2. split.predictions = <<w>> /\ split.extra = Range(columns) \ {w}
    BY <2>1
  <2>3. Range(<<w>>) = {w}
    BY DEF Range
  <2>4. ScalarColumn(<<w>>) = w
    BY <2>3 DEF ScalarColumn
  <2>5. Answering(m, split.predictions) = {w}
    BY <2>2, <2>3, <2>4 DEF Answering
  <2> QED
    BY <2>2, <2>5
<1>3. CASE LabelColumns(m, columns, split)
  <2>1. ~Scalar(m)
    BY <1>3 DEF LabelColumns, Classifies, Scalar
  <2>2. /\ split.extra = Range(columns) \ Range(split.predictions)
        /\ Range(split.predictions) \subseteq Range(columns)
    BY <1>3 DEF LabelColumns
  <2> QED
    BY <2>1, <2>2 DEF Answering
<1> QED
  BY <1>1, <1>2, <1>3 DEF SplitIs

\* The predictions are a sequence of columns.
LEMMA PredictionsTyped ==
  ASSUME NEW m, NEW columns \in Seq(Columns), NEW split, SplitIs(m, columns, split)
  PROVE  split.predictions \in Seq(Columns)
<1>1. CASE split = Whole(columns)
  BY <1>1 DEF Whole
<1>2. CASE OneColumn(m, columns, split)
  <2>1. PICK w \in Range(columns) :
            split = [predictions |-> <<w>>, extra |-> Range(columns) \ {w}]
    BY <1>2 DEF OneColumn
  <2>2. w \in Columns
    BY RangeOfSeq
  <2> QED
    BY <2>1, <2>2
<1>3. CASE LabelColumns(m, columns, split)
  BY <1>3 DEF LabelColumns
<1> QED
  BY <1>1, <1>2, <1>3 DEF SplitIs

\* What a cell taken for a scalar may be.
LEMMA ScalarFacts ==
  ASSUME NEW m, Scalar(m), NEW cell
  PROVE  /\ ScalarOutcome(m, cell) = Ok =>
               /\ m.targetType = "regression" => cell \in Numbers
               /\ m.targetType = "vectordatabase" => cell = Documents
         /\ ScalarOutcome(m, cell) # Ok =>
               \/ ScalarOutcome(m, cell) = Unprocessable
               \/ ScalarOutcome(m, cell) = ServerError /\ cell \notin Numbers /\ cell # Text
<1>1. CASE m.targetType = "regression"
  BY <1>1 DEF ScalarOutcome, FloatError, Ok, Unprocessable, ServerError
<1>2. CASE m.targetType = "vectordatabase"
  BY <1>2 DEF ScalarOutcome, Ok, Unprocessable
<1>3. CASE m.targetType = "textgeneration"
  BY <1>3 DEF ScalarOutcome, Ok
<1> QED
  BY <1>1, <1>2, <1>3 DEF Scalar

\* A frame of another target type is answered or a 422.
LEMMA GenericFacts ==
  ASSUME NEW columns, NEW rows
  PROVE  GenericOutcome(columns, rows) \in {Ok, Unprocessable}
BY DEF GenericOutcome

\* Every answer that is none is a 422, or a 500 for the frame's lists or for its lack of
\* columns.
LEMMA FormatErrors ==
  ASSUME NEW m \in Metadata, NEW f, Framed(f), Format(m, f).outcome # Ok
  PROVE  \/ Format(m, f).outcome = Unprocessable
         \/ /\ Format(m, f).outcome = ServerError
            /\ \/ f.columns = <<>>
               \/ \E i \in DOMAIN f.rows : Documents \in Range(f.rows[i])
<1> DEFINE split == Split(m, f.columns)
           outcome == RowsOutcome(m, split.predictions, f.rows)
<1>1. \A o : Failure(o).outcome = o
  BY DEF Failure
<1>2. CASE SplitFails(m, f.columns)
  BY <1>1, <1>2 DEF Format, SplitFails
<1>3. CASE ~SplitFails(m, f.columns) /\ \E c \in split.extra : ~c.text
  BY <1>1, <1>3 DEF Format
<1>4. CASE ~SplitFails(m, f.columns) /\ ~\E c \in split.extra : ~c.text
  <2>1. outcome # Ok /\ Format(m, f).outcome = outcome
    <3>1. CASE outcome = Ok
      BY <1>4, <3>1 DEF Format
    <3>2. CASE outcome # Ok
      BY <1>1, <1>4, <3>2 DEF Format
    <3> QED
      BY <3>1, <3>2
  <2>2. CASE m.targetType = "other"
    BY <2>1, <2>2, GenericFacts DEF RowsOutcome
  <2>3. CASE m.targetType # "other"
    <3>1. /\ f.columns \in Seq(Columns) /\ f.rows \in Seq([Range(f.columns) -> Cells])
          /\ DOMAIN f.rows = 1 .. Len(f.rows) /\ Len(f.rows) \in Nat
          /\ \A i \in DOMAIN f.rows : f.rows[i] \in [Range(f.columns) -> Cells]
      BY LenProperties, ElementOfSeq DEF Framed
    <3>2. PICK i \in DOMAIN f.rows : outcome = RowOutcome(m, split.predictions, f.rows[i])
      BY <2>1, <2>3, <3>1, RowsFacts
    <3> DEFINE row == f.rows[i]
               P == split.predictions
    <3>3. SplitIs(m, f.columns, split)
      BY <1>4, <3>1, SplitCases DEF SplitIs
    <3>4. Answering(m, P) \subseteq Range(f.columns)
      BY <3>1, <3>3, AnswerParts
    <3>5. ASSUME NEW c \in Answering(m, P), row[c] \notin Numbers, row[c] # Text
          PROVE  Documents \in Range(f.rows[i])
      <4>1. c \in DOMAIN row /\ row[c] \in Cells
        BY <3>1, <3>4, <3>5
      <4>2. row[c] = Documents
        BY <3>5, <4>1 DEF Cells
      <4> QED
        BY <4>1, <4>2 DEF Range
    <3> HIDE DEF outcome
    <3>6. CASE Scalar(m)
      <4>1. outcome = ScalarOutcome(m, row[ScalarColumn(P)]) /\ ScalarColumn(P) \in Answering(m, P)
        BY <3>2, <3>6 DEF RowOutcome, Answering
      <4>2. \/ outcome = Unprocessable
            \/ /\ outcome = ServerError
               /\ row[ScalarColumn(P)] \notin Numbers /\ row[ScalarColumn(P)] # Text
        BY <2>1, <3>6, <4>1, ScalarFacts
      <4> QED
        BY <2>1, <3>5, <4>1, <4>2
    <3>7. CASE ~Scalar(m)
      <4>1. outcome = ClassOutcome(m, P, row) /\ Range(P) = Answering(m, P)
        BY <3>2, <3>7 DEF RowOutcome, Answering
      <4>2. outcome \in {Ok, Unprocessable, ServerError}
        BY <4>1 DEF ClassOutcome, FloatError
      <4>3. P \in Seq(Columns)
        BY <3>1, <3>3, PredictionsTyped
      <4>4. \/ outcome = Unprocessable
            \/ \E c \in Range(P) : row[c] \notin Numbers /\ row[c] # Text
        BY <2>1, <4>1, <4>3, ClassFacts
      <4> QED
        BY <2>1, <3>5, <4>1, <4>2, <4>4
    <3> QED
      BY <3>6, <3>7
  <2> QED
    BY <2>2, <2>3
<1> QED
  BY <1>2, <1>3, <1>4

-----------------------------------------------------------------------------
(* The inductive invariant *)

\* An unstructured hook is called with what came in; a hook has been called where the
\* stage says so, and an answer before that blames the request or a missing hook.
StageInv ==
    /\ stage \in {"received", "called", "scored", "answered", "formatted"}
    /\ request.route \in {"predict", "unstructured", "models", "capabilities"}
    /\ stage = "received" => given = ""
    /\ stage \in {"called", "scored", "formatted"} => given # ""
    /\ stage # "answered" => raised = ""
    /\ stage = "formatted" => response = Format(metadata, frame)
    /\ request.route = "unstructured" => given \in {"", Incoming(request)}
    /\ reply.written # "" /\ reply.typed => reply.charset = reply.written

\* Whom an answer blames, when the hook has raised nothing and when it has.
Blamed ==
    LET outcome == response.outcome
    IN  /\ raised = "" =>
              /\ outcome \in {Ok, "400", "404", Unprocessable, "501", ServerError}
              /\ outcome \in {"400", "404", Unprocessable} => given = ""
              /\ outcome = "501" => given = "" /\ ~present
              /\ outcome = ServerError =>
                    given # "" \/ (request.route = "predict" /\ request.csv = "crash")
              /\ outcome = Ok => given # "" \/ request.route = "capabilities"
        /\ raised # "" => given # "" /\ outcome = StatusOf(raised)

RouteInv == /\ metadata \in Metadata /\ Framed(frame)
            /\ StageInv
            /\ stage = "answered" => Blamed

\* The frames of the model have columns and rows of cells of them.
LEMMA FramesFramed ==
  ASSUME NEW f \in Frames
  PROVE  Framed(f)
<1> DEFINE Shapes == {d \in (0 .. MaxColumns) \X (0 .. MaxRows) : d[1] * d[2] <= MaxCells}
           Of(c, n) == [columns : {c}, rows : [1 .. n -> [Range(c) -> Cells]]]
           Lists(k) == {s \in [1 .. k -> Columns] : IsInjective(s)}
           Sized(d) == UNION {Of(c, d[2]) : c \in Lists(d[1])}
<1>1. Frames = UNION {Sized(d) : d \in Shapes}
  BY DEF Frames
<1> HIDE DEF Sized
<1>2. PICK d \in Shapes : f \in Sized(d)
  BY <1>1
<1>3. d[1] \in Nat /\ d[2] \in Nat
  BY BoundsAssumption
<1> HIDE DEF Shapes, Of
<1>4. PICK c \in Lists(d[1]) : f \in Of(c, d[2])
  BY <1>2 DEF Sized
<1>5. f.columns = c /\ f.rows \in [1 .. d[2] -> [Range(c) -> Cells]]
  BY <1>4 DEF Of
<1> QED
  BY <1>3, <1>4, <1>5 DEF Framed

\* The routes start in the invariant.
LEMMA RouteInit == EndpointsInit => RouteInv
<1> SUFFICES ASSUME EndpointsInit PROVE RouteInv
  OBVIOUS
<1>1. stage = "received" /\ given = "" /\ raised = "" /\ reply = NoReply
  BY DEF EndpointsInit
<1>2. StageInv
  <2>1. request.route \in {"predict", "unstructured", "models", "capabilities"}
    <3>1. CASE request = [route |-> "predict", X |-> "full", body |-> "empty", csv |-> "good"]
      BY <3>1
    <3>2. CASE request \in Payloads
      BY <3>2 DEF Payloads
    <3>3. CASE request \in Documented
      BY <3>3 DEF Documented
    <3>4. CASE request \in Listings
      BY <3>4 DEF Listings
    <3> QED
      BY <3>1, <3>2, <3>3, <3>4 DEF EndpointsInit
  <2>2. reply.written = ""
    BY <1>1 DEF NoReply
  <2> QED
    BY <1>1, <2>1, <2>2 DEF StageInv
<1>3. CASE metadata \in Metadata /\ frame \in Frames
  BY <1>1, <1>2, <1>3, FramesFramed DEF RouteInv
<1>4. CASE /\ metadata = CHOOSE m \in Metadata : m.targetType = "other"
           /\ frame = [columns |-> <<>>, rows |-> <<>>]
  <2>1. metadata \in Metadata
    <3> DEFINE other == [targetType |-> "other", positive |-> "", negative |-> "",
                         classLabels |-> <<>>, targetName |-> ""]
    <3>1. other \in Metadata /\ other.targetType = "other"
      BY DEF Metadata, TargetTypes
    <3> QED
      BY <1>4, <3>1
  <2>2. Framed(frame)
    BY <1>4, EmptySeq DEF Framed
  <2> QED
    BY <1>1, <1>2, <2>1, <2>2 DEF RouteInv
<1> QED
  BY <1>3, <1>4 DEF EndpointsInit

\* What a request is refused for: a 500 only where its payload breaks the reader, a 501
\* only where the hook is missing; and with the hook missing every route refuses but
\* the one that calls none.
LEMMA RefusalFacts ==
  /\ Refusal(request) \in {"", "400", "404", Unprocessable, "501", ServerError}
  /\ Refusal(request) = "501" => ~present
  /\ Refusal(request) = ServerError => request.route = "predict" /\ request.csv = "crash"
  /\ request.route \in {"predict", "unstructured", "models"} /\ ~present => Refusal(request) # ""
  /\ request.route = "unstructured" /\ Refusal(request) = "" => Incoming(request) # ""
<1>1. HookError \in {"", "501"} /\ (HookError = "501" <=> ~present)
  BY DEF HookError
<1>2. CASE request.route = "predict"
  <2>1. Refusal(request) = FirstOf(PayloadError(request), HookError)
    BY <1>2 DEF Refusal
  <2>2. /\ PayloadError(request) \in {"", "400", Unprocessable, ServerError}
        /\ PayloadError(request) = ServerError => request.csv = "crash"
    BY DEF PayloadError, Unprocessable, ServerError
  <2> QED
    BY <1>1, <1>2, <2>1, <2>2 DEF FirstOf, Unprocessable, ServerError
<1>3. CASE request.route = "unstructured"
  <2> DEFINE target == IF request.target \in {"unstructured", "textgeneration"} THEN "" ELSE Unprocessable
             unread == IF Incoming(request) = "" THEN "400" ELSE ""
  <2>1. Refusal(request) = FirstOf(target, FirstOf(HookError, unread))
    BY <1>3 DEF Refusal
  <2>2. target \in {"", Unprocessable} /\ unread \in {"", "400"}
        /\ (Incoming(request) = "" => unread # "")
    OBVIOUS
  <2> HIDE DEF target, unread
  <2> QED
    BY <1>1, <1>3, <2>1, <2>2 DEF FirstOf, Unprocessable, ServerError
<1>4. CASE request.route = "models"
  <2> DEFINE target == IF request.target \in {"textgeneration", "agenticworkflow"} THEN "" ELSE "404"
  <2>1. Refusal(request) = FirstOf(target, HookError)
    BY <1>4 DEF Refusal
  <2>2. target \in {"", "404"}
    OBVIOUS
  <2> HIDE DEF target
  <2> QED
    BY <1>1, <1>4, <2>1, <2>2 DEF FirstOf, Unprocessable, ServerError
<1>5. CASE request.route \notin {"predict", "unstructured", "models"}
  <2>1. Refusal(request) = ""
    BY <1>5 DEF Refusal
  <2> QED
    BY <1>5, <2>1 DEF Unprocessable, ServerError
<1> QED
  BY <1>2, <1>3, <1>4, <1>5

\* A text that is answered is written in the charset the answer names.
LEMMA OutgoingFacts ==
  ASSUME NEW result \in Results
  PROVE  LET sent == Outgoing(result)
         IN  sent.written # "" /\ sent.typed /\ Encodes(result) => sent.charset = sent.written
<1>1. CASE result.data = "text"
  BY <1>1 DEF Outgoing, Encodes
<1>2. CASE result.data # "text"
  BY <1>2 DEF Outgoing
<1> QED
  BY <1>1, <1>2

\* Every step keeps the invariant.
LEMMA RouteStep == RouteInv /\ [EndpointsNext]_evars => RouteInv'
<1> SUFFICES ASSUME RouteInv, [EndpointsNext]_evars PROVE RouteInv'
  OBVIOUS
<1>1. metadata \in Metadata /\ Framed(frame) /\ StageInv /\ (stage = "answered" => Blamed)
  BY DEF RouteInv
<1>2. CASE Refuse
  <2>1. /\ stage' = "answered" /\ response' = Failure(Refusal(request))
        /\ given = "" /\ raised = "" /\ Refusal(request) # ""
        /\ UNCHANGED <<metadata, frame, request, present, given, raised, reply>>
    BY <1>1, <1>2 DEF Refuse, Answer, StageInv
  <2>2. StageInv'
    BY <1>1, <2>1 DEF StageInv, Incoming, CharsetOf, ParsedCharset
  <2>3. response'.outcome = Refusal(request)
    BY <2>1 DEF Failure
  <2>4. Blamed'
    BY <2>1, <2>3, RefusalFacts DEF Blamed, Ok, Unprocessable, ServerError
  <2> QED
    BY <1>1, <2>1, <2>2, <2>4 DEF RouteInv
<1>3. CASE ReadOnly
  <2>1. /\ stage' = "answered" /\ response' = Failure(Ok) /\ given = "" /\ raised = ""
        /\ request.route = "capabilities"
        /\ UNCHANGED <<metadata, frame, request, present, given, raised, reply>>
    BY <1>1, <1>3 DEF ReadOnly, Answer, StageInv
  <2>2. StageInv'
    BY <1>1, <2>1 DEF StageInv
  <2>3. response'.outcome = Ok
    BY <2>1 DEF Failure
  <2>4. Blamed'
    BY <2>1, <2>3 DEF Blamed, Ok, Unprocessable, ServerError
  <2> QED
    BY <1>1, <2>1, <2>2, <2>4 DEF RouteInv
<1>4. CASE CallHook
  <2>1. /\ present /\ stage' = "called" /\ UNCHANGED response
        /\ given' = IF request.route = "unstructured" THEN Incoming(request) ELSE "call"
        /\ Refusal(request) = "" /\ raised = ""
        /\ UNCHANGED <<metadata, frame, request, present, raised, reply>>
    <3>1. /\ request.route \in {"predict", "unstructured", "models"} /\ Refusal(request) = ""
          /\ raised = ""
      BY <1>1, <1>4 DEF CallHook, StageInv
    <3>2. present
      BY <3>1, RefusalFacts
    <3> QED
      BY <1>4, <3>1, <3>2 DEF CallHook
  <2>2. given' # "" /\ (request.route = "unstructured" => given' = Incoming(request))
    BY <2>1, RefusalFacts
  <2>3. StageInv'
    BY <1>1, <2>1, <2>2 DEF StageInv
  <2> QED
    BY <1>1, <2>1, <2>3 DEF RouteInv
<1>5. CASE HookRaises
  <2>1. PICK error \in Raisable : raised' = error /\ Answer(StatusOf(error))
    BY <1>5 DEF HookRaises
  <2>2. /\ stage' = "answered" /\ response' = Failure(StatusOf(error)) /\ given # ""
        /\ raised' # "" /\ raised' = error
        /\ UNCHANGED <<metadata, frame, request, present, given, reply>>
    BY <1>1, <1>5, <2>1 DEF HookRaises, Answer, StageInv, Raisable, Unprocessable, ServerError
  <2>3. StageInv'
    BY <1>1, <2>2 DEF StageInv
  <2>4. response'.outcome = StatusOf(error)
    BY <2>2 DEF Failure
  <2>5. Blamed'
    BY <2>2, <2>4 DEF Blamed, StatusOf
  <2> QED
    BY <1>1, <2>2, <2>3, <2>5 DEF RouteInv
<1>6. CASE HookScores
  <2>1. /\ stage' = "scored" /\ given # "" /\ raised = ""
        /\ UNCHANGED <<metadata, frame, response, request, present, given, raised, reply>>
    BY <1>1, <1>6 DEF HookScores, StageInv
  <2>2. StageInv'
    BY <1>1, <2>1 DEF StageInv
  <2> QED
    BY <1>1, <2>1, <2>2 DEF RouteInv
<1>7. CASE HookLists
  <2>1. /\ stage' = "answered" /\ response' = Failure(Ok) /\ given # "" /\ raised = ""
        /\ UNCHANGED <<metadata, frame, request, present, given, raised, reply>>
    BY <1>1, <1>7 DEF HookLists, Answer, StageInv
  <2>2. StageInv'
    BY <1>1, <2>1 DEF StageInv
  <2>3. response'.outcome = Ok
    BY <2>1 DEF Failure
  <2>4. Blamed'
    BY <2>1, <2>3 DEF Blamed, Ok, Unprocessable, ServerError
  <2> QED
    BY <1>1, <2>1, <2>2, <2>4 DEF RouteInv
<1>8. CASE HookAnswers
  <2>1. PICK result \in Results :
            IF result.data = "bad" \/ ~Encodes(result)
            THEN Answer(ServerError) /\ UNCHANGED reply
            ELSE Answer(Ok) /\ reply' = Outgoing(result)
    BY <1>8 DEF HookAnswers
  <2>2. /\ given # "" /\ raised = "" /\ stage = "called"
        /\ UNCHANGED <<metadata, frame, request, present, given, raised>>
    BY <1>1, <1>8 DEF HookAnswers, StageInv
  <2>3. /\ stage' = "answered" /\ response'.outcome \in {Ok, ServerError}
        /\ reply'.written # "" /\ reply'.typed => reply'.charset = reply'.written
    <3>1. CASE result.data = "bad" \/ ~Encodes(result)
      <4>1. stage' = "answered" /\ response' = Failure(ServerError) /\ reply' = reply
        BY <2>1, <3>1 DEF Answer
      <4>2. reply.written # "" /\ reply.typed => reply.charset = reply.written
        BY <1>1 DEF StageInv
      <4> QED
        BY <4>1, <4>2 DEF Failure
    <3>2. CASE ~(result.data = "bad" \/ ~Encodes(result))
      <4>1. stage' = "answered" /\ response' = Failure(Ok) /\ reply' = Outgoing(result)
        BY <2>1, <3>2 DEF Answer
      <4>2. LET sent == Outgoing(result)
            IN  sent.written # "" /\ sent.typed => sent.charset = sent.written
        BY <3>2, OutgoingFacts
      <4> QED
        BY <4>1, <4>2 DEF Failure
    <3> QED
      BY <3>1, <3>2
  <2>4. StageInv'
    BY <1>1, <2>2, <2>3 DEF StageInv
  <2>5. Blamed'
    BY <2>2, <2>3 DEF Blamed, Ok, Unprocessable, ServerError
  <2> QED
    BY <1>1, <2>2, <2>3, <2>4, <2>5 DEF RouteInv
<1>9. CASE FormatScored
  <2>1. /\ stage' = "formatted" /\ response' = Format(metadata, frame) /\ given # "" /\ raised = ""
        /\ UNCHANGED <<metadata, frame, request, present, given, raised, reply>>
    BY <1>1, <1>9 DEF FormatScored, Predict, StageInv
  <2>2. StageInv'
    BY <1>1, <2>1 DEF StageInv
  <2> QED
    BY <1>1, <2>1, <2>2 DEF RouteInv
<1>10. CASE UNCHANGED evars
  BY <1>1, <1>10 DEF evars, vars, RouteInv, StageInv, Blamed, Incoming, CharsetOf
<1> QED
  BY <1>2, <1>3, <1>4, <1>5, <1>6, <1>7, <1>8, <1>9, <1>10 DEF EndpointsNext

\* The invariant holds.
THEOREM RouteInvHolds == EndpointsSpec => []RouteInv
BY RouteInit, RouteStep, PTL DEF EndpointsSpec

-----------------------------------------------------------------------------
(* Texts and faults *)

\* A text of the client's own charset is what the hook is called with.
LEMMA TextDecoded ==
  ASSUME request.route = "unstructured", Honest(request),
         TextMimetype(request.mimetype), ~request.quoted
  PROVE  Incoming(request) = "text" /\ Refusal(request) # "400"
<1>1. request.body = CharsetOf(request)
  BY DEF Honest, CharsetOf, ParsedCharset
<1>2. Incoming(request) = "text"
  <2>1. Incoming(request) = Decoded(request.body, request.body)
    BY <1>1 DEF Incoming
  <2> QED
    BY <2>1 DEF Decoded
<1> DEFINE target == IF request.target \in {"unstructured", "textgeneration"} THEN "" ELSE Unprocessable
<1>3. Refusal(request) = FirstOf(target, FirstOf(HookError, ""))
  BY <1>2 DEF Refusal
<1>4. target \in {"", Unprocessable} /\ HookError \in {"", "501"}
  BY DEF HookError
<1> HIDE DEF target
<1> QED
  BY <1>2, <1>3, <1>4 DEF FirstOf, Unprocessable

\* And it is never read as another text, however the header is written.
LEMMA TextUngarbled ==
  ASSUME request.route = "unstructured", Honest(request)
  PROVE  Incoming(request) # "garbled"
<1>1. Decoded(request.body, CharsetOf(request)) # "garbled"
  BY DEF Honest, CharsetOf, ParsedCharset, Decoded
<1> QED
  BY <1>1 DEF Incoming

\* An honest client's text reaches the hook as it was written, as bytes or not at all,
\* and as a text where the header is written as the code reads it; a text the hook
\* returns is sent in the charset the answer names.
THEOREM TextIsKept == EndpointsSpec => []TextSurvives
<1>1. RouteInv => TextSurvives
  BY TextDecoded, TextUngarbled DEF RouteInv, StageInv, TextSurvives
<1> QED
  BY <1>1, RouteInvHolds, PTL

\* A failed answer blames the one at fault, for every frame.
THEOREM FaultsAreBlamed == EndpointsSpec => []FaultsAreAttributed
<1>1. RouteInv => ErrorsAreClassified
  <2> SUFFICES ASSUME RouteInv, Done, response.outcome = ServerError
               PROVE  \/ frame.columns = <<>>
                      \/ \E i \in DOMAIN frame.rows : Documents \in Range(frame.rows[i])
    BY DEF ErrorsAreClassified
  <2>1. /\ metadata \in Metadata /\ Framed(frame)
        /\ Format(metadata, frame).outcome = ServerError
    BY DEF RouteInv, StageInv, Done
  <2> QED
    BY <2>1, FormatErrors DEF Ok, Unprocessable, ServerError
<1>2. RouteInv => FaultsAreAttributed
  <2> SUFFICES ASSUME RouteInv, stage \in {"answered", "formatted"}
               PROVE  IF raised # "" THEN given # "" /\ response.outcome = StatusOf(raised)
                      ELSE CASE response.outcome \in {"400", "404"} -> given = ""
                             [] response.outcome = "501" -> given = "" /\ ~present
                             [] response.outcome = ServerError ->
                                   given # "" \/ (request.route = "predict" /\ request.csv = "crash")
                             [] response.outcome = Unprocessable -> given # "" => stage = "formatted"
                             [] OTHER -> given # "" \/ request.route = "capabilities"
    BY <1>1 DEF FaultsAreAttributed
  <2>1. CASE stage = "answered"
    <3>1. Blamed
      BY <2>1 DEF RouteInv
    <3> QED
      BY <3>1 DEF Blamed, Ok, Unprocessable, ServerError
  <2>2. CASE stage = "formatted"
    <3>1. given # "" /\ raised = "" /\ response = Format(metadata, frame)
          /\ metadata \in Metadata /\ Framed(frame)
      BY <2>2 DEF RouteInv, StageInv
    <3>2. response.outcome \in {Ok, Unprocessable, ServerError}
      BY <3>1, FormatErrors
    <3> QED
      BY <2>2, <3>1, <3>2 DEF Ok, Unprocessable, ServerError
  <2> QED
    BY <2>1, <2>2
<1> QED
  BY <1>2, RouteInvHolds, PTL

-----------------------------------------------------------------------------
(* The frames that are answered *)

\* What an answer says of one row.
AnswersRow(m, P, row, item) ==
    /\ m.targetType # "other" => RowOutcome(m, P, row) = Ok
    /\ item = Item(m, P, row)
    /\ DOMAIN item.cells = Answering(m, P)
    /\ \A c \in Answering(m, P) : item.cells[c] = row[c]
    /\ item.label = IF Classifies(m) THEN Predicted(P, row) ELSE ""

\* Every row of an answered frame is answered so.
LEMMA AnswerRow ==
  ASSUME NEW m \in Metadata, NEW f, Framed(f), Format(m, f).outcome = Ok,
         NEW i \in DOMAIN f.rows
  PROVE  /\ AnswersRow(m, Split(m, f.columns).predictions, f.rows[i], Format(m, f).items[i])
         /\ f.rows[i] \in [Range(f.columns) -> Cells]
<1> DEFINE split == Split(m, f.columns)
<1>1. DOMAIN f.rows = 1 .. Len(f.rows) /\ Len(f.rows) \in Nat
      /\ f.rows[i] \in [Range(f.columns) -> Cells]
  BY LenProperties, ElementOfSeq DEF Framed
<1>2. /\ RowsOutcome(m, split.predictions, f.rows) = Ok
      /\ Format(m, f) = [outcome |-> Ok,
                         items |-> [j \in DOMAIN f.rows |-> Item(m, split.predictions, f.rows[j])],
                         extra |-> split.extra]
  BY AnswerFacts
<1>3. Format(m, f).items[i] = Item(m, split.predictions, f.rows[i])
  BY <1>2
<1>4. ASSUME m.targetType # "other"
      PROVE  RowOutcome(m, split.predictions, f.rows[i]) = Ok
  BY <1>1, <1>2, <1>4, RowsFacts
<1>5. PICK P, row, item : /\ P = split.predictions /\ row = f.rows[i]
                          /\ item = Format(m, f).items[i]
  OBVIOUS
<1>6. item = Item(m, P, row)
  BY <1>3, <1>5
<1>7. /\ DOMAIN Item(m, P, row).cells = Answering(m, P)
      /\ \A c \in Answering(m, P) : Item(m, P, row).cells[c] = row[c]
      /\ Item(m, P, row).label = IF Classifies(m) THEN Predicted(P, row) ELSE ""
  BY DEF Item, Answering
<1>8. AnswersRow(m, P, row, item)
  BY <1>4, <1>5, <1>6, <1>7 DEF AnswersRow
<1> QED
  BY <1>1, <1>5, <1>8

\* What has been answered is the answer to the frame.
LEMMA AnsweredFacts ==
  ASSUME RouteInv, Answered
  PROVE  /\ metadata \in Metadata /\ Framed(frame)
         /\ response = Format(metadata, frame) /\ Format(metadata, frame).outcome = Ok
         /\ DOMAIN response.items = DOMAIN frame.rows
         /\ Len(response.items) = Len(frame.rows)
         /\ response.extra = Split(metadata, frame.columns).extra
<1>1. /\ metadata \in Metadata /\ Framed(frame)
      /\ response = Format(metadata, frame) /\ Format(metadata, frame).outcome = Ok
  BY DEF RouteInv, StageInv, Answered, Done
<1> DEFINE split == Split(metadata, frame.columns)
<1>2. response = [outcome |-> Ok,
                  items |-> [j \in DOMAIN frame.rows |-> Item(metadata, split.predictions, frame.rows[j])],
                  extra |-> split.extra]
  BY <1>1, AnswerFacts
<1>3. DOMAIN frame.rows = 1 .. Len(frame.rows) /\ Len(frame.rows) \in Nat
  BY <1>1, LenProperties DEF Framed
<1> QED
  BY <1>1, <1>2, <1>3

\* Every cell of an answered frame is in one place of the answer.
THEOREM CellsKept == EndpointsSpec => []CellsAreKept
<1>1. RouteInv => CellsAreKept
  <2> SUFFICES ASSUME RouteInv, Answered, ~NumberedFirst PROVE CellsInPlace
    BY DEF CellsAreKept
  <2>1. /\ metadata \in Metadata /\ Framed(frame)
        /\ response = Format(metadata, frame) /\ Format(metadata, frame).outcome = Ok
        /\ DOMAIN response.items = DOMAIN frame.rows
        /\ Len(response.items) = Len(frame.rows)
        /\ response.extra = Split(metadata, frame.columns).extra
    BY AnsweredFacts
  <2>2. PICK split : split = Split(metadata, frame.columns)
    OBVIOUS
  <2>3. PICK P : P = split.predictions
    OBVIOUS
  <2>4. SplitIs(metadata, frame.columns, split) /\ frame.columns \in Seq(Columns)
    BY <2>1, <2>2, AnswerFacts DEF Framed
  <2>5. /\ response.extra \cap Answering(metadata, P) = {}
        /\ Answering(metadata, P) \cup response.extra = Range(frame.columns)
    BY <2>1, <2>2, <2>3, <2>4, AnswerParts DEF NumberedFirst
  <2>6. ASSUME NEW i \in DOMAIN response.items
        PROVE  LET cells == response.items[i].cells
               IN  /\ \A c \in DOMAIN cells : cells[c] = frame.rows[i][c]
                   /\ response.extra \cap DOMAIN cells = {}
                   /\ DOMAIN cells \cup response.extra = Range(frame.columns)
    <3>1. PICK item, row : item = response.items[i] /\ row = frame.rows[i]
      OBVIOUS
    <3>2. AnswersRow(metadata, P, row, item)
      <4>1. /\ metadata \in Metadata /\ Framed(frame) /\ Format(metadata, frame).outcome = Ok
            /\ i \in DOMAIN frame.rows /\ item = Format(metadata, frame).items[i]
            /\ row = frame.rows[i] /\ P = Split(metadata, frame.columns).predictions
        BY <2>1, <2>2, <2>3, <2>6, <3>1
      <4> QED
        BY <4>1, AnswerRow
    <3> QED
      BY <2>5, <3>1, <3>2 DEF AnswersRow
  <2> QED
    BY <2>1, <2>6 DEF CellsInPlace
<1> QED
  BY <1>1, RouteInvHolds, PTL

\* Numbers are answered as numbers and documents as documents.
THEOREM RowsChecked == EndpointsSpec => []RowsAreChecked
<1>1. RouteInv => RowsAreChecked
  <2> SUFFICES ASSUME RouteInv, Answered, NEW i \in DOMAIN response.items
               PROVE  LET cells == Range(response.items[i].cells)
                      IN  /\ metadata.targetType = "regression" \/ Classifies(metadata) => cells \subseteq Numbers
                          /\ metadata.targetType = "vectordatabase" => cells = {Documents}
    BY DEF RowsAreChecked, Classifies
  <2>1. /\ metadata \in Metadata /\ Framed(frame)
        /\ response = Format(metadata, frame) /\ Format(metadata, frame).outcome = Ok
        /\ i \in DOMAIN frame.rows
    BY AnsweredFacts
  <2>2. PICK split, P : split = Split(metadata, frame.columns) /\ P = split.predictions
    OBVIOUS
  <2>3. PICK item, row : item = response.items[i] /\ row = frame.rows[i]
    OBVIOUS
  <2>4. AnswersRow(metadata, P, row, item)
    <3>1. /\ metadata \in Metadata /\ Framed(frame) /\ Format(metadata, frame).outcome = Ok
          /\ i \in DOMAIN frame.rows /\ item = Format(metadata, frame).items[i]
          /\ row = frame.rows[i] /\ P = Split(metadata, frame.columns).predictions
      BY <2>1, <2>2, <2>3
    <3> QED
      BY <3>1, AnswerRow
  <2>5. P \in Seq(Columns)
    <3>1. SplitIs(metadata, frame.columns, split) /\ frame.columns \in Seq(Columns)
      BY <2>1, <2>2, AnswerFacts DEF Framed
    <3> QED
      BY <2>2, <3>1, PredictionsTyped
  <2>6. CASE Scalar(metadata)
    <3>1. ScalarOutcome(metadata, row[ScalarColumn(P)]) = Ok
      BY <2>4, <2>6 DEF AnswersRow, RowOutcome, Scalar
    <3>2. Range(item.cells) = {row[ScalarColumn(P)]}
      BY <2>4, <2>6 DEF AnswersRow, Answering, Range
    <3>3. /\ metadata.targetType = "regression" => row[ScalarColumn(P)] \in Numbers
          /\ metadata.targetType = "vectordatabase" => row[ScalarColumn(P)] = Documents
      BY <2>6, <3>1, ScalarFacts
    <3> QED
      BY <2>3, <2>6, <3>2, <3>3 DEF Scalar, Classifies
  <2>7. CASE Classifies(metadata)
    <3>1. ClassOutcome(metadata, P, row) = Ok /\ ~Scalar(metadata)
      BY <2>4, <2>7 DEF AnswersRow, RowOutcome, Scalar, Classifies
    <3>2. \A c \in Range(P) : row[c] \in Numbers
      BY <2>5, <3>1, ClassFacts
    <3>3. Range(item.cells) \subseteq Numbers
      BY <2>4, <3>1, <3>2 DEF AnswersRow, Answering, Range
    <3> QED
      BY <2>3, <2>7, <3>3 DEF Scalar, Classifies
  <2> QED
    BY <2>6, <2>7 DEF Scalar, Classifies
<1> QED
  BY <1>1, RouteInvHolds, PTL

-----------------------------------------------------------------------------
(* Classifications *)

\* The columns that a classification answers are those of the labels, where the frame
\* has them all.
LEMMA ClassColumns ==
  ASSUME NEW m, NEW columns \in Seq(Columns), NEW split, SplitIs(m, columns, split),
         Classifies(m), PredictionColumns(m) # <<>>,
         Own(PredictionColumns(m)) \subseteq Range(columns)
  PROVE  Range(split.predictions) = Own(PredictionColumns(m))
<1>1. CASE split = Whole(columns) /\ WholeFits(m, columns)
  <2>1. split.predictions = columns
    BY <1>1 DEF Whole
  <2> QED
    BY <1>1, <2>1 DEF WholeFits
<1>2. CASE OneColumn(m, columns, split)
  BY <1>2 DEF OneColumn
<1>3. CASE LabelColumns(m, columns, split)
  BY <1>3 DEF LabelColumns
<1> QED
  BY <1>1, <1>2, <1>3 DEF SplitIs

\* A complete configuration fits only the columns of its labels.
LEMMA CompleteFit ==
  ASSUME NEW m \in Metadata, Classifies(m), Len(PredictionColumns(m)) >= 2,
         NEW columns, NEW predicted, LabelsFit(m, columns, predicted)
  PROVE  PredictionColumns(m) # <<>> /\ LabelsOf(columns) = Range(PredictionColumns(m))
<1> DEFINE labels == PredictionColumns(m)
<1>1. labels \in Seq(Names)
  BY MetadataFacts
<1>2. labels # <<>>
  BY <1>1, EmptySeq
<1>3. Range(labels) # {}
  BY <1>1, <1>2, FirstOfSeq
<1>4. m.targetType = "multiclass" \/ Cardinality(Range(labels)) = 2
  BY MetadataFacts DEF Classifies
<1> HIDE DEF labels
<1>5. LabelsOf(columns) = Range(labels)
  BY <1>3, <1>4 DEF LabelsFit, labels
<1> QED
  BY <1>2, <1>5 DEF labels

\* A classification names a label of the greatest value, among the configured ones.
THEOREM ClassesOfTheModel == EndpointsSpec => []ClassesAreTheModels
<1>1. RouteInv => ClassesAreTheModels
  <2> SUFFICES ASSUME RouteInv, Answered, Classifies(metadata), NEW i \in DOMAIN response.items
               PROVE  LET item   == response.items[i]
                          labels == PredictionColumns(metadata)
                          own    == {TextColumn(l) : l \in Range(labels)}
                      IN  /\ \E c \in DOMAIN item.cells :
                                c.name = item.label /\ \A d \in DOMAIN item.cells : item.cells[d] <= item.cells[c]
                          /\ Len(labels) >= 2 =>
                                /\ {c.name : c \in DOMAIN item.cells} = Range(labels)
                                /\ own \subseteq Range(frame.columns) => DOMAIN item.cells = own
    BY DEF ClassesAreTheModels
  <2>1. /\ metadata \in Metadata /\ Framed(frame)
        /\ response = Format(metadata, frame) /\ Format(metadata, frame).outcome = Ok
        /\ i \in DOMAIN frame.rows
    BY AnsweredFacts
  <2>2. PICK split, P : split = Split(metadata, frame.columns) /\ P = split.predictions
    OBVIOUS
  <2>3. PICK item, row : item = response.items[i] /\ row = frame.rows[i]
    OBVIOUS
  <2>4. AnswersRow(metadata, P, row, item)
    <3>1. /\ metadata \in Metadata /\ Framed(frame) /\ Format(metadata, frame).outcome = Ok
          /\ i \in DOMAIN frame.rows /\ item = Format(metadata, frame).items[i]
          /\ row = frame.rows[i] /\ P = Split(metadata, frame.columns).predictions
      BY <2>1, <2>2, <2>3
    <3> QED
      BY <3>1, AnswerRow
  <2>5. SplitIs(metadata, frame.columns, split) /\ frame.columns \in Seq(Columns)
    BY <2>1, <2>2, AnswerFacts DEF Framed
  <2>6. P \in Seq(Columns)
    BY <2>2, <2>5, PredictionsTyped
  <2>7. ClassOutcome(metadata, P, row) = Ok /\ ~Scalar(metadata)
    BY <2>4 DEF AnswersRow, RowOutcome, Scalar, Classifies
  <2>8. /\ P # <<>> /\ \A c \in Range(P) : row[c] \in Numbers
        /\ LabelsFit(metadata, P, Predicted(P, row))
    BY <2>6, <2>7, ClassFacts
  <2>9. /\ DOMAIN item.cells = Range(P)
        /\ \A c \in Range(P) : item.cells[c] = row[c]
        /\ item.label = Predicted(P, row)
    BY <2>4, <2>7 DEF AnswersRow, Answering
  <2>10. \E c \in DOMAIN item.cells :
             c.name = item.label /\ \A d \in DOMAIN item.cells : item.cells[d] <= item.cells[c]
    <3>1. PICK c \in Range(P) : Predicted(P, row) = c.name /\ \A d \in Range(P) : row[d] <= row[c]
      BY <2>6, <2>8, PredictedFacts
    <3> QED
      BY <2>9, <3>1
  <2>11. ASSUME Len(PredictionColumns(metadata)) >= 2
         PROVE  /\ {c.name : c \in DOMAIN item.cells} = Range(PredictionColumns(metadata))
                /\ Own(PredictionColumns(metadata)) \subseteq Range(frame.columns) =>
                      DOMAIN item.cells = Own(PredictionColumns(metadata))
    <3>1. /\ PredictionColumns(metadata) # <<>>
          /\ LabelsOf(P) = Range(PredictionColumns(metadata))
      BY <2>1, <2>8, <2>11, CompleteFit
    <3>2. Own(PredictionColumns(metadata)) \subseteq Range(frame.columns) =>
             Range(P) = Own(PredictionColumns(metadata))
      BY <2>2, <2>5, <3>1, ClassColumns
    <3> QED
      BY <2>9, <3>1, <3>2 DEF LabelsOf
  <2> QED
    BY <2>3, <2>10, <2>11 DEF Own
<1> QED
  BY <1>1, RouteInvHolds, PTL

-----------------------------------------------------------------------------
(* The answer without the extra columns *)

\* The columns of a frame are finitely many, so their orders are sequences.
LEMMA OrdersFacts ==
  ASSUME NEW columns \in Seq(Columns), NEW set, set \subseteq Range(columns),
         NEW order \in Orders(set)
  PROVE  /\ order \in Seq(Columns) /\ Range(order) = set
         /\ \A w : set = {w} => order = <<w>>
<1>1. DOMAIN columns = 1 .. Len(columns) /\ Len(columns) \in Nat
      /\ Range(columns) \subseteq Columns /\ columns \in [1 .. Len(columns) -> Columns]
  BY LenProperties, RangeOfSeq
<1>2. IsFiniteSet(Range(columns))
  <2>1. columns \in Surjection(1 .. Len(columns), Range(columns))
    BY <1>1, Fun_RangeProperties
  <2>2. IsFiniteSet(1 .. Len(columns))
    BY <1>1, FS_Interval
  <2> QED
    BY <2>1, <2>2, FS_Surjection
<1>3. Cardinality(set) \in Nat
  BY <1>2, FS_Subset, FS_CardinalityType
<1>4. order \in [1 .. Cardinality(set) -> set] /\ Range(order) = set
  BY DEF Orders
<1>5. order \in Seq(Columns)
  BY <1>1, <1>3, <1>4
<1>6. ASSUME NEW w, set = {w}
      PROVE  order = <<w>>
  <2>1. Cardinality({w}) = 1
    BY FS_Singleton
  <2>2. order \in [1 .. 1 -> {w}]
    BY <1>4, <1>6, <2>1
  <2>3. <<w>> \in [1 .. 1 -> {w}]
    OBVIOUS
  <2>4. order[1] = w /\ <<w>>[1] = w
    BY <2>2
  <2> QED
    BY <2>2, <2>3, <2>4
<1> QED
  BY <1>4, <1>5, <1>6

\* The predictions of a frame with extra columns are what the others are: one column,
\* or those of the labels.
Parted(m, columns, split) ==
    /\ m.targetType # "other"
    /\ split.extra = Range(columns) \ Range(split.predictions)
    /\ Range(split.predictions) \subseteq Range(columns)
    /\ split.predictions # <<>>
    /\ \/ /\ \E w : split.predictions = <<w>>
          /\ Classifies(m) => PredictionColumns(m) = <<>>
       \/ /\ Classifies(m) /\ PredictionColumns(m) # <<>>
          /\ Range(split.predictions) = Own(PredictionColumns(m))

\* An answer with extra output comes of such a split.
LEMMA ExtraParts ==
  ASSUME NEW m \in Metadata, NEW columns \in Seq(Columns), NEW split,
         SplitIs(m, columns, split), split.extra # {}
  PROVE  Parted(m, columns, split)
<1>1. CASE split = Whole(columns)
  BY <1>1 DEF Whole
<1>2. CASE OneColumn(m, columns, split)
  <2>1. PICK w \in Range(columns) :
            split = [predictions |-> <<w>>, extra |-> Range(columns) \ {w}]
    BY <1>2 DEF OneColumn
  <2>2. split.predictions = <<w>> /\ split.extra = Range(columns) \ {w} /\ Range(<<w>>) = {w}
    BY <2>1 DEF Range
  <2>3. <<w>> # <<>>
    OBVIOUS
  <2> QED
    BY <1>2, <2>2, <2>3 DEF OneColumn, Parted
<1>3. CASE LabelColumns(m, columns, split)
  <2> DEFINE labels == PredictionColumns(m)
  <2>1. Own(labels) # {}
    <3>1. labels \in Seq(Names) /\ labels # <<>>
      BY <1>3, MetadataFacts DEF LabelColumns
    <3>2. labels[1] \in Range(labels)
      BY <3>1, FirstOfSeq
    <3> QED
      BY <3>2 DEF Own
  <2>2. split.predictions # <<>>
    <3>1. Range(<<>>) = {}
      BY DEF Range
    <3> QED
      BY <1>3, <2>1, <3>1 DEF LabelColumns
  <2>3. m.targetType # "other"
    BY <1>3 DEF LabelColumns, Classifies
  <2> QED
    BY <1>3, <2>2, <2>3 DEF LabelColumns, Parted
<1> QED
  BY <1>1, <1>2, <1>3 DEF SplitIs

\* The same columns in some order, of which one column has only one.
Arranges(order, predictions) ==
    /\ order \in Seq(Columns) /\ Range(order) = Range(predictions)
    /\ \A w : Range(predictions) = {w} => order = <<w>>

\* A row without some of its columns.
Keeps(less, row, columns) == \A c \in Range(columns) : less[c] = row[c]

\* Those columns alone, in any order, are split into themselves.
LEMMA SplitAlone ==
  ASSUME NEW m \in Metadata, NEW columns \in Seq(Columns), NEW split,
         Parted(m, columns, split), NEW order, Arranges(order, split.predictions),
         NEW again, again = Split(m, order)
  PROVE  /\ ~SplitFails(m, order)
         /\ again.extra = {} /\ again.predictions = order
<1>0. /\ order \in Seq(Columns) /\ Range(order) = Range(split.predictions)
      /\ \A w : Range(split.predictions) = {w} => order = <<w>>
  BY DEF Arranges
<1>1. order # <<>>
  <2>1. order = <<>> => Range(order) = {}
    BY DEF Range
  <2>2. Range(split.predictions) # {}
    <3>1. CASE \E w : split.predictions = <<w>>
      <4>1. \A w : Range(<<w>>) = {w}
        BY DEF Range
      <4> QED
        BY <3>1, <4>1
    <3>2. CASE Range(split.predictions) = Own(PredictionColumns(m)) /\ PredictionColumns(m) # <<>>
      <4> DEFINE labels == PredictionColumns(m)
      <4>1. labels \in Seq(Names) /\ labels # <<>>
        BY <3>2, MetadataFacts
      <4>2. labels[1] \in Range(labels)
        BY <4>1, FirstOfSeq
      <4> QED
        BY <3>2, <4>2 DEF Own
    <3> QED
      BY <3>1, <3>2 DEF Parted
  <2> QED
    BY <1>0, <2>1, <2>2
<1>2. ~SplitFails(m, order)
  BY <1>1 DEF SplitFails
<1>3. SplitIs(m, order, again)
  BY <1>0, <1>2, SplitCases DEF SplitIs
<1>4. CASE again = Whole(order)
  BY <1>2, <1>4 DEF Whole
<1>5. CASE OneColumn(m, order, again)
  <2>1. PICK v \in Range(order) :
            again = [predictions |-> <<v>>, extra |-> Range(order) \ {v}]
    BY <1>5 DEF OneColumn
  <2>2. PICK w : split.predictions = <<w>>
    BY <1>5 DEF OneColumn, Parted
  <2>3. Range(<<w>>) = {w}
    BY DEF Range
  <2>4. order = <<w>> /\ Range(order) = {w} /\ v = w
    BY <1>0, <2>2, <2>3
  <2> QED
    BY <1>2, <2>1, <2>4
<1>6. CASE LabelColumns(m, order, again)
  <2>1. again.extra # {} /\ again.extra = Range(order) \ Own(PredictionColumns(m))
    BY <1>6 DEF LabelColumns
  <2>2. Range(order) = Own(PredictionColumns(m))
    BY <1>0, <1>6 DEF LabelColumns, Parted
  <2> QED
    BY <2>1, <2>2
<1> QED
  BY <1>3, <1>4, <1>5, <1>6 DEF SplitIs

\* A row is answered as the item says, but for the label of a tie.
AnswersAlike(m, order, less, item) ==
    /\ RowOutcome(m, order, less) = Ok
    /\ \/ Item(m, order, less) = item
       \/ Tied(item.cells) /\ Item(m, order, less).cells = item.cells

\* What a row is answered depends on its predictions only, and on their order only in
\* a tie.
LEMMA SameRow ==
  ASSUME NEW m \in Metadata, NEW columns \in Seq(Columns), NEW split,
         Parted(m, columns, split), split.predictions \in Seq(Columns),
         NEW order, Arranges(order, split.predictions),
         NEW row, NEW less, Keeps(less, row, order),
         NEW item, AnswersRow(m, split.predictions, row, item)
  PROVE  AnswersAlike(m, order, less, item)
<1> SUFFICES /\ RowOutcome(m, order, less) = Ok
             /\ \/ Item(m, order, less) = item
                \/ Tied(item.cells) /\ Item(m, order, less).cells = item.cells
  BY DEF AnswersAlike
<1>1. PICK P : P = split.predictions
  OBVIOUS
<1>0. /\ order \in Seq(Columns) /\ \A w : Range(P) = {w} => order = <<w>>
      /\ \A c \in Range(order) : less[c] = row[c]
  BY <1>1 DEF Arranges, Keeps
<1>2. /\ P \in Seq(Columns) /\ Range(order) = Range(P) /\ P # <<>>
      /\ RowOutcome(m, P, row) = Ok /\ item = Item(m, P, row)
      /\ m.targetType # "other"
  BY <1>1 DEF AnswersRow, Parted, Arranges
<1>3. CASE Scalar(m)
  <2>1. PICK w : P = <<w>>
    BY <1>1, <1>3 DEF Parted, Scalar, Classifies
  <2>2. Range(P) = {w} /\ ScalarColumn(P) = w
    <3>1. Range(P) = {w}
      BY <2>1 DEF Range
    <3> QED
      BY <2>1, <3>1 DEF ScalarColumn
  <2>3. order = P
    BY <1>0, <2>1, <2>2
  <2>4. less[w] = row[w]
    BY <1>0, <1>2, <2>2
  <2>5. RowOutcome(m, order, less) = RowOutcome(m, P, row)
    BY <1>3, <2>2, <2>3, <2>4 DEF RowOutcome
  <2>6. Item(m, order, less) = Item(m, P, row)
    <3>1. [c \in {w} |-> less[c]] = [c \in {w} |-> row[c]]
      BY <2>4
    <3>2. ~Classifies(m)
      BY <1>3 DEF Scalar, Classifies
    <3> QED
      BY <1>3, <2>2, <2>3, <3>1, <3>2 DEF Item
  <2> QED
    BY <1>0, <1>2, <2>5, <2>6
<1>4. CASE ~Scalar(m)
  <2>1. Classifies(m)
    BY <1>2, <1>4, MetadataFacts DEF TargetTypes, Scalar, Classifies
  <2>2. order # <<>>
    <3>1. 1 \in DOMAIN P /\ P[1] \in Range(P)
      BY <1>2, FirstOfSeq
    <3>2. Range(<<>>) = {}
      BY DEF Range
    <3> QED
      BY <1>2, <3>1, <3>2
  <2>3. /\ \A c \in Range(P) : row[c] \in Numbers
        /\ LabelsFit(m, P, Predicted(P, row))
    BY <1>2, <1>4, ClassFacts DEF RowOutcome
  <2>4. \A c \in Range(order) : less[c] \in Numbers
    BY <1>0, <1>2, <2>3
  <2>5. PICK c \in Range(P) : Predicted(P, row) = c.name /\ \A d \in Range(P) : row[d] <= row[c]
    BY <1>2, <2>3, PredictedFacts
  <2>6. PICK e \in Range(order) : /\ Predicted(order, less) = e.name
                                  /\ \A d \in Range(order) : less[d] <= less[e]
    BY <1>0, <2>2, <2>4, PredictedFacts
  <2>7. LabelsFit(m, order, Predicted(order, less))
    <3>1. LabelsOf(order) = LabelsOf(P)
      BY <1>2 DEF LabelsOf
    <3>2. Range(PredictionColumns(m)) # {} => e.name \in Range(PredictionColumns(m))
      <4>1. CASE PredictionColumns(m) = <<>>
        BY <4>1 DEF Range
      <4>2. CASE PredictionColumns(m) # <<>>
        <5>1. Range(P) = Own(PredictionColumns(m))
          BY <1>1, <2>1, <4>2 DEF Parted
        <5>2. PICK l \in Range(PredictionColumns(m)) : e = TextColumn(l)
          BY <1>2, <2>6, <5>1 DEF Own
        <5> QED
          BY <5>2 DEF TextColumn
      <4> QED
        BY <4>1, <4>2
    <3> QED
      BY <2>3, <2>6, <3>1, <3>2 DEF LabelsFit
  <2>8. RowOutcome(m, order, less) = Ok
    BY <1>0, <1>4, <2>2, <2>4, <2>7, ClassFacts DEF RowOutcome
  <2>9. Item(m, order, less).cells = item.cells
    <3>1. [d \in Range(order) |-> less[d]] = [d \in Range(P) |-> row[d]]
      BY <1>0, <1>2
    <3> QED
      BY <1>2, <1>4, <3>1 DEF Item
  <2>10. CASE e = c
    <3>1. Predicted(order, less) = Predicted(P, row)
      BY <2>5, <2>6, <2>10
    <3>2. [d \in Range(order) |-> less[d]] = [d \in Range(P) |-> row[d]]
      BY <1>0, <1>2
    <3>3. Item(m, order, less) = Item(m, P, row)
      BY <1>4, <3>1, <3>2 DEF Item
    <3> QED
      BY <1>2, <2>8, <3>3
  <2>11. CASE e # c
    <3>1. row[e] = row[c] /\ e \in Range(P)
      <4>1. less[e] = row[e] /\ less[c] = row[c] /\ e \in Range(P) /\ c \in Range(order)
        BY <1>0, <1>2, <2>5, <2>6
      <4>2. row[e] <= row[c] /\ row[c] <= row[e]
        BY <2>5, <2>6, <4>1
      <4>3. row[e] \in Nat /\ row[c] \in Nat
        BY <2>3, <4>1, BoundsAssumption DEF Numbers
      <4> QED
        BY <4>1, <4>2, <4>3
    <3>2. DOMAIN item.cells = Range(P) /\ \A d \in Range(P) : item.cells[d] = row[d]
      BY <1>1, <1>4 DEF AnswersRow, Answering
    <3>3. Tied(item.cells)
      BY <2>11, <3>1, <3>2 DEF Tied
    <3> QED
      BY <2>8, <2>9, <3>3
  <2> QED
    BY <2>10, <2>11
<1> QED
  BY <1>3, <1>4

\* The columns that go to the extra output do not decide anything.
THEOREM ExtraIsIdle == EndpointsSpec => []ExtraDecidesNothing
<1>1. RouteInv => ExtraDecidesNothing
  <2> SUFFICES ASSUME RouteInv, Answered, response.extra # {},
                      NEW columns \in Orders(Range(frame.columns) \ response.extra)
               PROVE  LET alone == [columns |-> columns,
                                    rows |-> [i \in DOMAIN frame.rows |->
                                                [c \in Range(columns) |-> frame.rows[i][c]]]]
                          again == Format(metadata, alone)
                      IN  /\ again.outcome = Ok
                          /\ \A i \in DOMAIN response.items :
                                LET item == response.items[i]
                                IN  again.items[i] = item
                                      \/ (Tied(item.cells) /\ again.items[i].cells = item.cells)
    BY DEF ExtraDecidesNothing
  <2>1. /\ metadata \in Metadata /\ Framed(frame)
        /\ response = Format(metadata, frame) /\ Format(metadata, frame).outcome = Ok
        /\ DOMAIN response.items = DOMAIN frame.rows
        /\ response.extra = Split(metadata, frame.columns).extra
    BY AnsweredFacts
  <2>2. PICK split : split = Split(metadata, frame.columns)
    OBVIOUS
  <2>3. SplitIs(metadata, frame.columns, split) /\ frame.columns \in Seq(Columns)
    BY <2>1, <2>2, AnswerFacts DEF Framed
  <2>4. Parted(metadata, frame.columns, split) /\ split.predictions \in Seq(Columns)
    BY <2>1, <2>2, <2>3, ExtraParts, PredictionsTyped
  <2>5. Range(frame.columns) \ response.extra = Range(split.predictions)
    BY <2>1, <2>2, <2>4 DEF Parted
  <2>6. Arranges(columns, split.predictions)
    <3>1. Range(split.predictions) \subseteq Range(frame.columns)
      BY <2>4 DEF Parted
    <3> QED
      BY <2>3, <2>5, <3>1, OrdersFacts DEF Arranges
  <2>7. PICK resplit : resplit = Split(metadata, columns)
    OBVIOUS
  <2>8. ~SplitFails(metadata, columns) /\ resplit.extra = {} /\ resplit.predictions = columns
    BY <2>1, <2>3, <2>4, <2>6, <2>7, SplitAlone
  <2> DEFINE less == [i \in DOMAIN frame.rows |-> [c \in Range(columns) |-> frame.rows[i][c]]]
             alone == [columns |-> columns, rows |-> less]
  <2>9. /\ DOMAIN less = DOMAIN frame.rows
         /\ \A i \in DOMAIN frame.rows : \A c \in Range(columns) : less[i][c] = frame.rows[i][c]
    OBVIOUS
  <2>10. alone.columns = columns /\ alone.rows = less
    OBVIOUS
  <2> HIDE DEF less, alone
  <2>11. ASSUME NEW i \in DOMAIN frame.rows
         PROVE  AnswersAlike(metadata, columns, less[i], response.items[i])
    <3>1. PICK item, row, short : item = response.items[i] /\ row = frame.rows[i] /\ short = less[i]
      OBVIOUS
    <3>2. AnswersRow(metadata, split.predictions, row, item)
      <4>1. /\ metadata \in Metadata /\ Framed(frame) /\ Format(metadata, frame).outcome = Ok
            /\ i \in DOMAIN frame.rows /\ item = Format(metadata, frame).items[i]
            /\ row = frame.rows[i] /\ split.predictions = Split(metadata, frame.columns).predictions
        BY <2>1, <2>2, <2>11, <3>1
      <4> QED
        BY <4>1, AnswerRow
    <3>3. Keeps(short, row, columns)
      BY <2>9, <3>1 DEF Keeps
    <3>4. AnswersAlike(metadata, columns, short, item)
      BY <2>1, <2>3, <2>4, <2>6, <3>2, <3>3, SameRow
    <3> QED
      BY <3>1, <3>4
  <2>12. RowsOutcome(metadata, columns, less) = Ok
    <3>1. metadata.targetType # "other"
      BY <2>4 DEF Parted
    <3>2. DOMAIN less = 1 .. Len(frame.rows) /\ Len(frame.rows) \in Nat
      BY <2>1, <2>9, LenProperties DEF Framed
    <3>3. \A i \in DOMAIN less : RowOutcome(metadata, columns, less[i]) = Ok
      BY <2>9, <2>11 DEF AnswersAlike
    <3> QED
      BY <3>1, <3>2, <3>3, RowsFacts
  <2>13. Format(metadata, alone) = [outcome |-> Ok,
                                    items |-> [i \in DOMAIN less |-> Item(metadata, columns, less[i])],
                                    extra |-> {}]
    BY <2>7, <2>8, <2>12, <2>10 DEF Format
  <2>14. /\ Format(metadata, alone).outcome = Ok
         /\ \A i \in DOMAIN less : Format(metadata, alone).items[i] = Item(metadata, columns, less[i])
    BY <2>13
  <2>15. \A i \in DOMAIN response.items :
            LET item == response.items[i]
            IN  Format(metadata, alone).items[i] = item
                  \/ (Tied(item.cells) /\ Format(metadata, alone).items[i].cells = item.cells)
    BY <2>1, <2>9, <2>11, <2>14 DEF AnswersAlike
  <2> QED
    BY <2>14, <2>15 DEF less, alone
<1> QED
  BY <1>1, RouteInvHolds, PTL
=============================================================================
