----------------------------- MODULE HumanForm -----------------------------
(***************************************************************************)
(* The question form of request_human_input: how the tool's arguments      *)
(* become a form (tools/human_interaction.py), how the keys fill it in     *)
(* (InteractionController in cli/interactions.py, tab and s-tab of         *)
(* cli/app.py), and the check of the answers when the run is resumed       *)
(* (validate_human_input_values).                                          *)
(*                                                                         *)
(* The value of every field is a sequence of answers: an empty text and an *)
(* empty selection are both <<>>.                                          *)
(***************************************************************************)
EXTENDS Naturals, Sequences, FiniteSets, SequencesExt

CONSTANTS Values,     \* values of options the model offers; "" is one too
          Texts,      \* what the user types, other than nothing
          MaxFields, MaxOptions

Types   == {"text", "textarea", "single_select", "multi_select", "boolean"}
Selects == {"single_select", "multi_select"}

VARIABLES
  declared,   \* the normalized fields the run waits for
  fields,     \* the same as the form shows them
  index, option, values, custom, customEntry,  \* InteractionController
  done        \* accept said the form is complete

vars == <<declared, fields, index, option, values, custom, customEntry, done>>

-----------------------------------------------------------------------------
(* From the tool's arguments to the fields of the form. *)

Offer(v, isCustom) == [value |-> v, custom |-> isCustom]
RawOptions == BoundedSeq([value : Values \cup {""}, custom : BOOLEAN], MaxOptions)
RawFields  == [type : Types \cup {"unknown"}, required : BOOLEAN, options : RawOptions]

\* The options at some places, in their order.
Picked(options, places) ==
  [k \in 1..Cardinality(places) |->
     options[CHOOSE i \in places : Cardinality({j \in places : j <= i}) = k]]

\* _normalize_options drops what has no value.
Kept(options) == Picked(options, {i \in DOMAIN options : options[i].value # ""})

\* The marker is lengthened until no option has it.
Marker(used) == IF "other" \in used THEN "other_" ELSE "other"

\* ensure_other_option: exactly one free answer, at the end.
EnsureOther(options) ==
  LET plain == Picked(options, {i \in DOMAIN options : ~options[i].custom})
  IN Append(plain, Offer(Marker({plain[i].value : i \in DOMAIN plain}), TRUE))

Normalized(raw) ==
  LET type == IF raw.type \in Types THEN raw.type ELSE "text"
  IN [type |-> type, required |-> raw.required,
      options |-> IF type \in Selects THEN EnsureOther(Kept(raw.options)) ELSE Kept(raw.options)]

\* InteractionController.human.
Human(field) ==
  [field EXCEPT !.options =
     IF field.type = "boolean" /\ @ = <<>> THEN <<Offer("False", FALSE), Offer("True", FALSE)>>
     ELSE IF field.type \in Selects THEN EnsureOther(@) ELSE @]

\* No field at all stands for one required text.
Default == <<[type |-> "text", required |-> TRUE, options |-> <<>>]>>
Declared(raw) ==
  IF raw = <<>> THEN Default ELSE [i \in DOMAIN raw |-> Normalized(raw[i])]

TypeOK ==
  /\ index \in DOMAIN fields
  /\ option \in Nat /\ (Len(fields[index].options) > 0 => option < Len(fields[index].options))
  /\ DOMAIN values = DOMAIN fields /\ DOMAIN custom = DOMAIN fields
  /\ customEntry \in BOOLEAN /\ done \in BOOLEAN
  /\ \A i \in DOMAIN fields : fields[i].type # "multi_select" => Len(values[i]) <= 1

Init ==
  /\ declared \in {Declared(raw) : raw \in BoundedSeq(RawFields, MaxFields)}
  /\ fields = [i \in DOMAIN declared |-> Human(declared[i])]
  /\ index = 1 /\ option = 0
  /\ values = [i \in DOMAIN declared |-> <<>>]
  /\ custom = [i \in DOMAIN declared |-> ""]
  /\ customEntry = FALSE /\ done = FALSE

-----------------------------------------------------------------------------
(* Filling it in. *)

Field   == fields[index]
Options == Field.options
Pointed == Options[option + 1]
OffersText(o) == o.custom

Set(v) == values' = [values EXCEPT ![index] = v]

\* Entering a field points at its first option.
Pointer == 0

Move(delta) ==
  /\ ~done /\ ~customEntry /\ Options # <<>>
  /\ option' = (option + delta) % Len(Options)
  /\ UNCHANGED <<declared, fields, index, values, custom, customEntry, done>>

\* list.remove takes the first, the free answer is taken out from the end.
RemoveLast(s, v) == Reverse(RemoveFirst(Reverse(s), v))

\* Space: the free answer opens the editor, or is taken back.
TakenBack == [custom EXCEPT ![index] = ""]

Toggle ==
  /\ ~done /\ ~customEntry /\ Field.type = "multi_select"
  /\ \/ /\ OffersText(Pointed) /\ custom[index] = ""
        /\ customEntry' = TRUE /\ UNCHANGED <<values, custom>>
     \/ /\ OffersText(Pointed) /\ custom[index] # ""
        /\ Set(RemoveLast(values[index], custom[index]))
        /\ custom' = TakenBack /\ UNCHANGED customEntry
     \/ /\ ~OffersText(Pointed)
        /\ Set(IF Contains(values[index], Pointed.value)
                 THEN RemoveFirst(values[index], Pointed.value)
                 ELSE Append(values[index], Pointed.value))
        /\ UNCHANGED <<custom, customEntry>>
  /\ UNCHANGED <<declared, fields, index, option, done>>

\* Mutant: only an empty text counts as no answer.
MissingText(v) == Field.required /\ v = <<>> /\ Field.type \notin Selects
Missing(v) == Field.required /\ v = <<>>

\* accept with the value of the field: refused, on to the next field, or done.
Advance(v) ==
  IF Missing(v) THEN UNCHANGED <<index, option, values, done>>
  ELSE /\ Set(v)
       /\ IF index < Len(fields)
            THEN index' = index + 1 /\ option' = Pointer /\ UNCHANGED done
            ELSE done' = TRUE /\ UNCHANGED <<index, option>>

Typed(text) == IF text = "" THEN <<>> ELSE <<text>>

\* The free answer of a selection; a multiple selection stays on its field.
AcceptCustom(text) ==
  /\ ~done /\ customEntry /\ text # ""
  /\ customEntry' = FALSE
  /\ custom' = [custom EXCEPT ![index] = text]
  /\ IF Field.type = "multi_select"
       THEN Set(Append(values[index], text)) /\ UNCHANGED <<index, option, done>>
       ELSE Advance(<<text>>)
  /\ UNCHANGED <<declared, fields>>

OpensEditor ==
  /\ Field.type \in Selects \cup {"boolean"} /\ Options # <<>> /\ OffersText(Pointed)
  /\ Field.type = "multi_select" => custom[index] = ""

AcceptOther ==
  /\ ~done /\ ~customEntry /\ OpensEditor
  /\ customEntry' = TRUE
  /\ UNCHANGED <<declared, fields, index, option, values, custom, done>>

Accept(text) ==
  /\ ~done /\ ~customEntry /\ ~OpensEditor
  /\ Advance(CASE Field.type \in {"text", "textarea"} -> Typed(text)
               [] Field.type = "multi_select" -> values[index]
               [] OTHER -> <<Pointed.value>>)
  /\ UNCHANGED <<declared, fields, custom, customEntry>>

\* s-tab and Esc leave the editor; s-tab goes back a field.
LeaveCustom ==
  /\ ~done /\ customEntry /\ customEntry' = FALSE
  /\ UNCHANGED <<declared, fields, index, option, values, custom, done>>

Back ==
  /\ ~done /\ ~customEntry /\ index > 1
  /\ index' = index - 1 /\ option' = Pointer
  /\ UNCHANGED <<declared, fields, values, custom, customEntry, done>>

Submitted == done /\ UNCHANGED vars

Next ==
  \/ \E delta \in {1} : Move(delta)
  \/ Toggle \/ AcceptOther \/ LeaveCustom \/ Back
  \/ \E text \in Texts \cup {""} : AcceptCustom(text) \/ Accept(text)
  \/ Submitted

Spec == Init /\ [][Next]_vars

-----------------------------------------------------------------------------
\* validate_human_input_values, on the fields as the run declared them.
Accepted == \A i \in DOMAIN declared : declared[i].required => values[i] # <<>>

\* A form the user completed is never refused by the run, in whatever order
\* fields were visited, toggled and left again.
SubmittedIsAccepted == done => Accepted

\* The options of a field that are no free answer.
OfferedBy(field) == {o.value : o \in {p \in ToSet(field.options) : ~p.custom}}

\* No answer to a selection is hidden: it is an option that was offered, which
\* is marked then, or the text that was typed behind "Other", which is marked
\* as long as there is such a text; it is never the marker of "Other" itself.
AnswersAreShown ==
  \A i \in DOMAIN fields : fields[i].type \in Selects =>
    \A j \in DOMAIN values[i] : values[i][j] \in OfferedBy(fields[i]) \cup {custom[i]}

\* The other way round, an "Other" that is marked is an answer.  It does not
\* hold: in a single selection "Other" stays marked after another option was
\* taken, and in a multiple one a text that is an option as well is taken away
\* with that option (README, section 5).
CheckedIsSelected ==
  \A i \in DOMAIN fields :
    fields[i].type \in Selects /\ custom[i] # "" => Contains(values[i], custom[i])

\* What is left of it: in a multiple selection the text behind a marked "Other"
\* that is no option is one of the answers, so that taking it back finds it.
CheckedUnlessOffered ==
  \A i \in DOMAIN fields :
    fields[i].type = "multi_select" /\ custom[i] \notin OfferedBy(fields[i]) \cup {""}
      => Contains(values[i], custom[i])

\* What is submitted was accepted and is shown; an "Other" marked in a multiple
\* selection is submitted, unless its text is an option too.  Nothing is said
\* of an "Other" marked in a single selection.
FormAnswers == SubmittedIsAccepted /\ AnswersAreShown /\ CheckedUnlessOffered
=============================================================================
