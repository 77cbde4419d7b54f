------------------------ MODULE PredictionResponse ------------------------
(***************************************************************************)
(* The answer of /predictions/ to the data frame the score hook returns:   *)
(* format_prediction_response of fastrag/validation.py splits the columns  *)
(* into predictions and extra model output, then builds one item per row   *)
(* as the target type wants it; the handler turns a ValueError into a 422  *)
(* and leaves any other exception to become a 500.                         *)
(*                                                                         *)
(* A column name may be a string or a number, as pandas allows, and two    *)
(* columns may print alike; no column occurs twice.  A cell is a number, a *)
(* text or a list of documents: what float(), str() and list do to it.     *)
(* NaN is left out, and so is a label configured twice.                    *)
(***************************************************************************)
EXTENDS Integers, Sequences, FiniteSetsExt, Functions

CONSTANTS
    Names,        \* the names of columns
    NumberNames,  \* the names that a number prints as
    Labels,       \* the labels of the model, the first two those of a binary one
    Targets,      \* the target names a model's metadata may have
    MaxValue,     \* the greatest number in a cell
    Text,         \* a cell that is a text, no number
    Documents,    \* a cell that is a list
    MaxColumns, MaxRows, MaxCells   \* bounds of the frames

ASSUME NamesAssumption == /\ NumberNames \subseteq Names
                          /\ {"prediction", "predictions"} \subseteq Names
                          /\ "" \notin Names
ASSUME LabelsAssumption == Labels \in Seq(Names) /\ IsInjective(Labels) /\ Len(Labels) >= 2
ASSUME BoundsAssumption == {MaxValue, MaxColumns, MaxRows, MaxCells} \subseteq Nat

Numbers == 0 .. MaxValue
Cells == Numbers \cup {Text, Documents}

TextColumn(name) == [name |-> name, text |-> TRUE]
Columns == {TextColumn(n) : n \in Names} \cup [name : NumberNames, text : {FALSE}]
Prediction == TextColumn("prediction")

TargetTypes == {"binary", "multiclass", "regression", "textgeneration", "vectordatabase", "other"}
Scalar(m) == m.targetType \in {"regression", "textgeneration", "vectordatabase"}
Classifies(m) == m.targetType \in {"binary", "multiclass"}

\* Metadata as it matters: "" and <<>> stand for what is not configured.
Metadata ==
    {m \in [targetType : TargetTypes, positive : {"", Labels[1]}, negative : {"", Labels[2]},
            classLabels : {<<>>, Labels}, targetName : Targets \cup {""}] :
        /\ m.targetType # "binary" => m.positive = "" /\ m.negative = ""
        /\ m.targetType # "multiclass" => m.classLabels = <<>>
        /\ m.targetType # "vectordatabase" => m.targetName = ""}

Frames ==
    LET Shapes == {d \in (0 .. MaxColumns) \X (0 .. MaxRows) : d[1] * d[2] <= MaxCells}
    IN  UNION {UNION {[columns : {c}, rows : [1 .. d[2] -> [Range(c) -> Cells]]]
                        : c \in {s \in [1 .. d[1] -> Columns] : IsInjective(s)}} : d \in Shapes}

-----------------------------------------------------------------------------
(* split_predictions_and_extra_output *)

\* The extra columns keep their order in the code; nothing depends on it.
Whole(columns) == [predictions |-> columns, extra |-> {}]

\* With prediction_columns: a frame that lacks one of them is left whole, and one
\* that has nothing else keeps its own order.
SplitByLabels(columns, labels) ==
    LET wanted == [i \in DOMAIN labels |-> TextColumn(labels[i])]
        extra  == Range(columns) \ Range(wanted)
    IN  IF Range(wanted) \subseteq Range(columns) /\ extra # {}
        THEN [predictions |-> wanted, extra |-> extra]
        ELSE Whole(columns)

\* A variant of SplitByTarget: the other columns are forgotten.
SplitOffTarget(columns, target) ==
    LET wanted == IF target = "" THEN TextColumn(columns[1].name) ELSE TextColumn(target)
    IN  Whole(IF wanted \in Range(columns) THEN <<wanted>> ELSE columns)

\* A variant of SplitByTarget: the predictions are taken by position.
SplitByPosition(columns, target) ==
    LET wanted == IF target = "" THEN TextColumn(columns[1].name) ELSE TextColumn(target)
    IN  IF Len(columns) = 1 \/ wanted \notin Range(columns)
        THEN Whole(columns)
        ELSE [predictions |-> <<columns[1]>>, extra |-> Range(columns) \ {wanted}]

\* With a target column, or without one the first, whose name is made a string:
\* a frame that lacks it is left whole.
SplitByTarget(columns, target) ==
    LET wanted == IF target = "" THEN TextColumn(columns[1].name) ELSE TextColumn(target)
    IN  IF Len(columns) = 1 \/ wanted \notin Range(columns)
        THEN Whole(columns)
        ELSE [predictions |-> <<wanted>>, extra |-> Range(columns) \ {wanted}]

Given(label) == IF label = "" THEN <<>> ELSE <<label>>

PredictionColumns(m) ==
    IF m.targetType = "binary" THEN Given(m.positive) \o Given(m.negative) ELSE m.classLabels

\* The configured name counts for a vector database only.
TargetColumn(m, columns) ==
    IF m.targetType = "vectordatabase" /\ TextColumn(m.targetName) \in Range(columns)
    THEN m.targetName
    ELSE IF Prediction \in Range(columns) THEN "prediction" ELSE ""

Split(m, columns) ==
    IF m.targetType = "other" THEN Whole(columns)
    ELSE IF Classifies(m) /\ PredictionColumns(m) # <<>>
         THEN SplitByLabels(columns, PredictionColumns(m))
         ELSE SplitByTarget(columns, IF Classifies(m) THEN "" ELSE TargetColumn(m, columns))

\* columns[0] of a frame that has none: an IndexError.
SplitFails(m, columns) ==
    columns = <<>> /\ (Scalar(m) \/ (Classifies(m) /\ PredictionColumns(m) = <<>>))

-----------------------------------------------------------------------------
(* The builders of items *)

Ok == "ok"
Unprocessable == "422"
ServerError == "500"

\* float() of a cell that is no number: a ValueError or a TypeError.
FloatError(cell) == IF cell = Text THEN Unprocessable ELSE ServerError

\* _extract_scalar_predictions
ScalarColumn(columns) == IF Prediction \in Range(columns) THEN Prediction ELSE columns[1]

\* A variant of ScalarOutcome: whatever is no number is taken for documents.
ScalarOutcomeUnchecked(m, cell) ==
    CASE m.targetType = "regression"     -> IF cell \in Numbers THEN Ok ELSE FloatError(cell)
      [] m.targetType = "vectordatabase" -> IF cell \in Numbers THEN Unprocessable ELSE Ok
      [] m.targetType = "textgeneration" -> Ok

\* The cast of a row's prediction, and _coerce_retrieved_documents.
ScalarOutcome(m, cell) ==
    CASE m.targetType = "regression"     -> IF cell \in Numbers THEN Ok ELSE FloatError(cell)
      [] m.targetType = "vectordatabase" -> IF cell = Documents THEN Ok ELSE Unprocessable
      [] m.targetType = "textgeneration" -> Ok

\* max() over the values: the first of the greatest.
Predicted(columns, row) ==
    LET best == CHOOSE i \in DOMAIN columns :
            /\ \A j \in DOMAIN columns : row[columns[j]] <= row[columns[i]]
            /\ \A j \in 1 .. i - 1 : row[columns[j]] < row[columns[i]]
    IN  columns[best].name

LabelsOf(columns) == {c.name : c \in Range(columns)}

\* A variant of LabelsFit: a label that is missing is noticed, one too many is not.
LabelsFitLoosely(m, columns, predicted) ==
    Range(PredictionColumns(m)) \subseteq LabelsOf(columns)

\* The checks of _build_binary_response and _build_multiclass_response.
LabelsFit(m, columns, predicted) ==
    LET labels   == LabelsOf(columns)
        expected == Range(PredictionColumns(m))
    IN  expected # {} =>
            /\ predicted \in expected
            /\ expected \subseteq labels
            /\ (m.targetType = "multiclass" \/ Cardinality(expected) = 2) => labels = expected

\* _build_classification_values of a row, then the checks; max() of nothing is a
\* ValueError.
ClassOutcome(m, columns, row) ==
    LET bad == {i \in DOMAIN columns : row[columns[i]] \notin Numbers}
    IN  IF bad # {} THEN FloatError(row[columns[Min(bad)]])
        ELSE IF columns # <<>> /\ LabelsFit(m, columns, Predicted(columns, row))
             THEN Ok ELSE Unprocessable

\* The predictions of any other target type have to validate as a list of numbers,
\* of texts, or of records with string keys; a frame of the one column
\* "predictions" is a list of records.
GenericOutcome(columns, rows) ==
    LET column == [i \in DOMAIN rows |-> rows[i][columns[1]]]
        valid == IF Len(columns) = 1 /\ columns[1] # TextColumn("predictions")
                 THEN Range(column) \subseteq Numbers \/ Range(column) = {Text}
                 ELSE \A c \in Range(columns) : c.text
    IN  IF rows = <<>> \/ valid THEN Ok ELSE Unprocessable

RowOutcome(m, columns, row) ==
    IF Scalar(m) THEN ScalarOutcome(m, row[ScalarColumn(columns)])
    ELSE ClassOutcome(m, columns, row)

Item(m, columns, row) ==
    [label |-> IF Classifies(m) THEN Predicted(columns, row) ELSE "",
     cells |-> IF Scalar(m) THEN [c \in {ScalarColumn(columns)} |-> row[c]]
               ELSE [c \in Range(columns) |-> row[c]]]

\* The first row that does not fit decides.
RowsOutcome(m, columns, rows) ==
    LET outcomes == [i \in DOMAIN rows |-> RowOutcome(m, columns, rows[i])]
        bad == {i \in DOMAIN rows : outcomes[i] # Ok}
    IN  IF m.targetType = "other" THEN GenericOutcome(columns, rows)
        ELSE IF bad = {} THEN Ok ELSE outcomes[Min(bad)]

-----------------------------------------------------------------------------
(* format_prediction_response *)

Failure(outcome) == [outcome |-> outcome, items |-> <<>>, extra |-> {}]

\* The extra output is validated first: its columns have to be strings.
Format(m, frame) ==
    LET split   == Split(m, frame.columns)
        outcome == RowsOutcome(m, split.predictions, frame.rows)
    IN  IF SplitFails(m, frame.columns) THEN Failure(ServerError)
        ELSE IF \E c \in split.extra : ~c.text THEN Failure(Unprocessable)
        ELSE IF outcome # Ok THEN Failure(outcome)
        ELSE [outcome |-> Ok,
              items |-> [i \in DOMAIN frame.rows |-> Item(m, split.predictions, frame.rows[i])],
              extra |-> split.extra]

VARIABLES metadata, frame, response, stage
vars == <<metadata, frame, response, stage>>

\* The handler's last step; the steps before it are those of Endpoints.
Predict ==
    /\ stage = "scored"
    /\ response' = Format(metadata, frame)
    /\ stage' = "formatted"
    /\ UNCHANGED <<metadata, frame>>

-----------------------------------------------------------------------------
(* Properties *)

Done == stage = "formatted"
Answered == Done /\ response.outcome = Ok

CellsInPlace ==
    /\ Len(response.items) = Len(frame.rows)
    /\ \A i \in DOMAIN response.items :
          LET cells == response.items[i].cells
          IN  /\ \A c \in DOMAIN cells : cells[c] = frame.rows[i][c]
              /\ response.extra \cap DOMAIN cells = {}
              /\ DOMAIN cells \cup response.extra = Range(frame.columns)

\* The first column's name is a number, so its string is looked up in vain (or
\* finds a column that prints alike).
NumberedFirst ==
    /\ Scalar(metadata)
    /\ frame.columns # <<>>
    /\ ~frame.columns[1].text

\* What the hook returned is answered whole: every row has its item, in order, and
\* every cell is either in its row's item or in the extra output, never in both -
\* with the exception of frames whose first column is named by a number.
CellsAreKept == Answered => CellsInPlace \/ NumberedFirst

\* A classification that is answered names a label with the greatest value of its
\* row; with a complete configuration the labels answered are the configured ones,
\* whatever order, extra or missing columns the hook chose, each with the value of
\* its own column if the frame has them all (if not, a column named by a number
\* stands in for the label it prints as, and two may stand for one).
ClassesAreTheModels ==
    Answered /\ Classifies(metadata) =>
        \A i \in DOMAIN response.items :
            LET item   == response.items[i]
                labels == PredictionColumns(metadata)
                own    == {TextColumn(l) : l \in Range(labels)}
            IN  /\ \E c \in DOMAIN item.cells :
                      c.name = item.label /\ \A d \in DOMAIN item.cells : item.cells[d] <= item.cells[c]
                /\ Len(labels) >= 2 =>
                      /\ {c.name : c \in DOMAIN item.cells} = Range(labels)
                      /\ own \subseteq Range(frame.columns) => DOMAIN item.cells = own

\* The sequences of a set of columns.
Orders(set) == {s \in [1 .. Cardinality(set) -> set] : Range(s) = set}

Tied(cells) == \E c, d \in DOMAIN cells : c # d /\ cells[c] = cells[d]

\* The columns that go to the extra output do not decide anything: without them,
\* and in whatever order the others come, the answer is the same, except that a
\* tie may be broken for another label.
ExtraDecidesNothing ==
    Answered /\ response.extra # {} =>
        \A columns \in Orders(Range(frame.columns) \ response.extra) :
            LET alone   == [columns |-> columns,
                            rows |-> [i \in DOMAIN frame.rows |->
                                        [c \in Range(columns) |-> frame.rows[i][c]]]]
                again   == Format(metadata, alone)
            IN  /\ again.outcome = Ok
                /\ \A i \in DOMAIN response.items :
                      LET item == response.items[i]
                      IN  again.items[i] = item
                            \/ (Tied(item.cells) /\ again.items[i].cells = item.cells)

\* The 500 of an unexpected exception is for a list where a number belongs and for
\* a frame without columns.
ErrorsAreClassified ==
    Done /\ response.outcome = ServerError =>
        frame.columns = <<>>
          \/ \E i \in DOMAIN frame.rows : Documents \in Range(frame.rows[i])

\* Numbers are answered as numbers and documents as documents, in every row.
RowsAreChecked ==
    Answered =>
        \A i \in DOMAIN response.items :
            LET cells == Range(response.items[i].cells)
            IN  CASE metadata.targetType = "regression" \/ Classifies(metadata) -> cells \subseteq Numbers
                  [] metadata.targetType = "vectordatabase" -> cells = {Documents}
                  [] OTHER -> TRUE

=============================================================================
