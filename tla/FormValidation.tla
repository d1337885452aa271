----------------------------- MODULE FormValidation -----------------------------
(***************************************************************************)
(* Client-side validation of a form of the web pages by the two scripts    *)
(* under wwwroot.  jquery.validate.unobtrusive makes rules of the data-val *)
(* attributes of the fields, hands them to a validator once, and puts the  *)
(* outcomes of its checks into the message containers and the summary.     *)
(* jquery.validate, the validator, checks the first shown field of each    *)
(* name, and nothing when a button that cancels the validation was used.   *)
(* Scripts of the page may add, show and hide fields.                      *)
(***************************************************************************)
EXTENDS Integers

CONSTANTS
  Fields,      \* the fields, numbered in document order
  Names,       \* the names fields may have
  NameOf,      \* the name of every field
  Attributes,  \* its data-val attributes
  Checkboxes,  \* the fields that are check boxes
  Replacing    \* names whose container has data-valmsg-replace

ASSUME FormAssumption ==
  /\ Fields \subseteq Nat
  /\ NameOf \in [Fields -> Names]
  /\ Attributes \in [Fields -> SUBSET {"required", "min", "max"}]
  /\ Checkboxes \subseteq Fields /\ Replacing \subseteq Names

VARIABLES
  page,      \* "loading", "ready", or the form is "sent", or sent "unchecked"
  dom,       \* the fields of the form
  hidden,    \* those that are not shown, or disabled
  late,      \* history: those added after the page was ready
  value,     \* the rules the value of a field violates
  options,   \* validationInfo(form).options.rules
  enforced,  \* settings.rules of the validator
  attached,  \* the form has a validator
  cancelSubmit,  \* the validator lets the next submission pass
  class,     \* the class of a name's container: field-validation-...
  text,      \* the names whose container shows a message
  summary    \* the class of the summary and the fields it lists

document == <<dom, hidden, late, value>>

rules == <<options, enforced, attached, cancelSubmit>>

messages == <<class, text, summary>>

vars == <<page, document, rules, messages>>

Rules == {"required", "min", "max", "range"}

\* "required" means "mandatory" for a check box, which is not what the attribute
\* means.
Required(f) == IF f \in Checkboxes THEN {} ELSE Attributes[f] \cap {"required"}

\* Both bounds together have a rule of their own.
MinMax(f) == IF {"min", "max"} \subseteq Attributes[f]
               THEN {"range"} ELSE Attributes[f] \cap {"min", "max"}

RulesOf(f) == Required(f) \cup MinMax(f)

Namesakes(f) == {g \in dom : NameOf[g] = NameOf[f]}

-----------------------------------------------------------------------------
(***************************************************************************)
(* Parsing.                                                                *)
(***************************************************************************)

\* parseElement assigns the rules of a name anew for every field that has it:
\* the last one of the document wins.
ParseElements(fs) ==
  options' = [n \in Names |->
    IF \E f \in fs : NameOf[f] = n
      THEN RulesOf(CHOOSE f \in fs : /\ NameOf[f] = n
                                     /\ \A g \in fs : NameOf[g] = n => g <= f)
      ELSE options[n]]

\* Mutant of AttachValidation: the validator takes the rules before the parsing.
AttachEarly ==
  /\ attached' = TRUE
  /\ enforced' = IF attached THEN enforced ELSE options

\* validate(options) returns the validator the form has, if it has one.
AttachValidation ==
  /\ attached' = TRUE
  /\ enforced' = IF attached THEN enforced ELSE options'

\* The document is parsed when it is ready; forms without fields are passed over.
Ready ==
  /\ page = "loading"
  /\ page' = "ready"
  /\ \/ dom # {} /\ ParseElements(dom) /\ AttachValidation
     \/ dom = {} /\ UNCHANGED <<options, enforced, attached>>
  /\ UNCHANGED <<document, cancelSubmit, messages>>

AddField(f) ==
  /\ page = "ready" /\ f \notin dom
  /\ dom' = dom \cup {f}
  /\ late' = late \cup {f}
  /\ UNCHANGED <<page, hidden, value, rules, messages>>

ShowOrHide(f) ==
  /\ page = "ready" /\ f \in dom
  /\ hidden' = IF f \in hidden THEN hidden \ {f} ELSE hidden \cup {f}
  /\ UNCHANGED <<page, dom, late, value, rules, messages>>

\* A script parses the fields it has added, or the whole document again.
Parse(fs) ==
  /\ page = "ready" /\ fs # {}
  /\ ParseElements(fs)
  /\ AttachValidation
  /\ UNCHANGED <<page, document, cancelSubmit, messages>>

-----------------------------------------------------------------------------
(***************************************************************************)
(* Checking.                                                               *)
(***************************************************************************)
Edit(f) ==
  /\ page = "ready" /\ f \in dom
  /\ \E violated \in SUBSET RulesOf(f) : value' = [value EXCEPT ![f] = violated]
  /\ UNCHANGED <<page, dom, hidden, late, rules, messages>>

\* elements: the first field of each name that is shown and has rules.
Checked == {f \in dom \ hidden : /\ enforced[NameOf[f]] # {}
                                 /\ \A g \in Namesakes(f) \ hidden : f <= g}

\* validationTargetFor: a check box stands for the first one of its name that is
\* shown, any other field for itself.
Targets(f) == IF f \in Checkboxes THEN Checked \cap Namesakes(f)
                                   ELSE {f} \ hidden

Invalid(f) == value[f] \cap enforced[NameOf[f]] # {}

\* Without "required" a field may be empty: check then counts it neither as wrong nor
\* as right (which of the other values is the empty one is left open).
Optional(f) == "required" \notin enforced[NameOf[f]]

NamesOf(fs) == {NameOf[f] : f \in fs}

\* Mutant of ShowLabels: the container is emptied after the error was put there.
EmptyLast(fs) ==
  \E empty \in SUBSET {f \in fs : ~Invalid(f) /\ Optional(f)} :
    LET bad == NamesOf({f \in fs : Invalid(f)})
        told == NamesOf(fs \ empty)
    IN /\ class' = [n \in Names |-> IF n \in bad THEN "error"
                                    ELSE IF n \in told THEN "valid" ELSE class[n]]
       /\ text' = text \ (told \cap Replacing)

\* onError fills the container of an invalid field; onSuccess, which follows an
\* onError of its own, empties the container of a valid one.
ShowLabels(fs) ==
  \E empty \in SUBSET {f \in fs : ~Invalid(f) /\ Optional(f)} :
    LET bad == NamesOf({f \in fs : Invalid(f)})
        told == NamesOf(fs \ empty)
    IN /\ class' = [n \in Names |-> IF n \in bad THEN "error"
                                    ELSE IF n \in told THEN "valid" ELSE class[n]]
       /\ text' = (text \ (told \cap Replacing)) \cup (bad \cap Replacing)

\* A field that is left, typed in or clicked is checked if it is shown, the first of
\* its name or not (which of these events lead to a check is left open).
CheckField(f) ==
  /\ page = "ready" /\ f \in dom \ hidden /\ enforced[NameOf[f]] # {}
  /\ ShowLabels(Targets(f))
  /\ UNCHANGED <<page, document, rules, summary>>

\* A button of class "cancel" or with formnovalidate is clicked.  A handler of its own
\* may keep the form from being submitted, but not the validator from remembering.
ClickCancel ==
  /\ page = "ready" /\ attached
  /\ cancelSubmit' = TRUE
  /\ UNCHANGED <<page, document, options, enforced, attached, messages>>

\* onErrors, for a form that may not be sent, is all that renews the summary.
ListErrors(bad) ==
  IF bad = {} THEN UNCHANGED summary
              ELSE summary' = [class |-> "errors", list |-> bad]

\* The handler of the submission, with the checks of Validator.form.
Submit ==
  LET bad == {f \in Checked : Invalid(f)}
  IN /\ page = "ready"
     /\ cancelSubmit' = FALSE
     /\ \/ /\ cancelSubmit
           /\ page' = "unchecked"
           /\ UNCHANGED messages
        \/ /\ ~cancelSubmit
           /\ ShowLabels(Checked)
           /\ ListErrors(bad)
           /\ page' = IF bad = {} THEN "sent" ELSE page
     /\ UNCHANGED <<document, options, enforced, attached>>

\* The values the form comes with: they violate everything they can.
Pristine == [f \in Fields |-> RulesOf(f)]

\* onReset repairs the classes; messages and list stay where they are, hidden.
Reset ==
  /\ page = "ready" /\ attached
  /\ value' = Pristine
  /\ class' = [n \in Names |-> "valid"]
  /\ summary' = [summary EXCEPT !.class = "valid"]
  /\ UNCHANGED <<page, dom, hidden, late, rules, text>>

Init ==
  /\ page = "loading"
  /\ dom \in SUBSET Fields /\ hidden \in SUBSET Fields
  /\ late = {}
  /\ value = Pristine
  /\ options = [n \in Names |-> {}]
  /\ enforced = [n \in Names |-> {}]
  /\ attached = FALSE /\ cancelSubmit = FALSE
  /\ class = [n \in Names |-> "valid"]
  /\ text = {}
  /\ summary = [class |-> "valid", list |-> {}]

Next ==
  \/ Ready
  \/ \E f \in Fields : AddField(f) \/ ShowOrHide(f) \/ Edit(f) \/ CheckField(f)
  \/ \E fs \in SUBSET dom : Parse(fs)
  \/ ClickCancel \/ Submit
  \/ Reset

Spec == Init /\ [][Next]_vars

-----------------------------------------------------------------------------
(***************************************************************************)
(* Properties.                                                             *)
(***************************************************************************)

\* Every variable has its type, and nothing is enforced before the attachment.
TypeOK ==
  /\ page \in {"loading", "ready", "sent", "unchecked"}
  /\ late \subseteq dom /\ dom \subseteq Fields /\ hidden \subseteq Fields
  /\ value \in [Fields -> SUBSET Rules]
  /\ options \in [Names -> SUBSET Rules] /\ enforced \in [Names -> SUBSET Rules]
  /\ attached \in BOOLEAN /\ cancelSubmit \in BOOLEAN
  /\ ~attached => \A n \in Names : enforced[n] = {}
  /\ class \in [Names -> {"valid", "error"}]
  /\ text \subseteq Replacing
  /\ summary \in [class : {"valid", "errors"}, list : SUBSET Fields]

\* A form that is not sent by a button that cancels the validation is sent with a
\* value that violates the attributes of its field only if the field is hidden, came
\* too late for the one attachment, or shares its name with another: no order of
\* editing, hiding, showing, checking, resetting, cancelling and parsing again lets
\* through a shown field of its own name that was there when the page was ready.
OnlyKnownEscapes ==
  page = "sent" =>
    \A f \in dom \ (late \cup hidden) : value[f] # {} => Namesakes(f) # {f}

\* What is marked as wrong says why, whatever came before: a container in the
\* error class that takes messages has one, a summary of errors lists some.
ErrorsAreExplained ==
  /\ \A n \in Replacing : class[n] = "error" => n \in text
  /\ summary.class = "errors" => summary.list # {}

\* The one attachment has given the validator the rules of every field of its own name
\* that was there when the page was ready.
RulesEnforced ==
  /\ page = "loading" => late = {} /\ ~attached
  /\ page # "loading" =>
       \A f \in dom \ late : Namesakes(f) = {f} => attached /\ enforced[NameOf[f]] = RulesOf(f)

\* A value violates nothing but what its field asks for.
ValuesViolateRules == \A f \in Fields : value[f] \subseteq RulesOf(f)

\* The inductive invariant behind the properties above.
FormInv ==
  /\ TypeOK /\ RulesEnforced /\ ValuesViolateRules
  /\ OnlyKnownEscapes /\ ErrorsAreExplained
=============================================================================
