-------------------------- MODULE FormValidationProofs --------------------------
(***************************************************************************)
(* The safety of FormValidation, for forms of any fields, names and        *)
(* attributes.                                                             *)
(***************************************************************************)
EXTENDS FormValidation, TLAPS

LEMMA RulesType ==
  ASSUME NEW f
  PROVE  RulesOf(f) \subseteq Rules
BY DEF RulesOf, Required, MinMax, Rules

\* The last field of a name in the document.
Last(fs, n) ==
  CHOOSE f \in fs : /\ NameOf[f] = n
                    /\ \A g \in fs : NameOf[g] = n => g <= f

\* A field of its own name hands its own rules to the options.
LEMMA OwnName ==
  ASSUME dom \subseteq Fields, ParseElements(dom), NEW f \in dom, Namesakes(f) = {f}
  PROVE  options'[NameOf[f]] = RulesOf(f)
<1> DEFINE n == NameOf[f]
<1>1. f \in Nat /\ n \in Names
  BY FormAssumption
<1>2. \A g \in dom : NameOf[g] = n => g = f
  BY DEF Namesakes
<1>3. Last(dom, n) = f
  <2>1. /\ NameOf[f] = n
        /\ \A g \in dom : NameOf[g] = n => g <= f
    BY <1>1, <1>2
  <2>2. \A h \in dom : NameOf[h] = n => h = f
    BY <1>2
  <2> QED
    BY <2>1, <2>2 DEF Last
<1>4. options' = [m \in Names |-> IF \E g \in dom : NameOf[g] = m
                                    THEN RulesOf(Last(dom, m)) ELSE options[m]]
  BY DEF ParseElements, Last
<1> QED
  BY <1>1, <1>3, <1>4

\* Whichever field of a name is the last, the options are rules.
LEMMA OptionsType ==
  ASSUME TypeOK, NEW fs, ParseElements(fs)
  PROVE  options' \in [Names -> SUBSET Rules]
<1>1. options' = [n \in Names |-> IF \E g \in fs : NameOf[g] = n
                                    THEN RulesOf(Last(fs, n)) ELSE options[n]]
  BY DEF ParseElements, Last
<1>2. \A n \in Names : RulesOf(Last(fs, n)) \in SUBSET Rules
  BY RulesType
<1> QED
  BY <1>1, <1>2 DEF TypeOK

LEMMA AttachedType ==
  ASSUME TypeOK, options' \in [Names -> SUBSET Rules], AttachValidation
  PROVE  enforced' \in [Names -> SUBSET Rules] /\ attached' /\ attached' \in BOOLEAN
<1>1. attached' = TRUE
  BY DEF AttachValidation
<1>2. enforced' = enforced \/ enforced' = options'
  BY DEF AttachValidation
<1> QED
  BY <1>1, <1>2 DEF TypeOK

\* Showing the outcome of a check keeps classes and messages together.
LEMMA LabelsShown ==
  ASSUME TypeOK, NEW fs, ShowLabels(fs)
  PROVE  /\ class' \in [Names -> {"valid", "error"}] /\ text' \subseteq Replacing
         /\ (\A n \in Replacing : class[n] = "error" => n \in text)
              => \A n \in Replacing : class'[n] = "error" => n \in text'
<1> DEFINE bad == NamesOf({f \in fs : Invalid(f)})
<1>0. PICK told :
        /\ class' = [n \in Names |-> IF n \in bad THEN "error"
                                     ELSE IF n \in told THEN "valid" ELSE class[n]]
        /\ text' = (text \ (told \cap Replacing)) \cup (bad \cap Replacing)
  BY DEF ShowLabels
<1>1. /\ class' = [n \in Names |-> IF n \in bad THEN "error"
                                   ELSE IF n \in told THEN "valid" ELSE class[n]]
      /\ text' = (text \ (told \cap Replacing)) \cup (bad \cap Replacing)
  BY <1>0
<1> HIDE DEF bad
<1>2. class' \in [Names -> {"valid", "error"}] /\ text' \subseteq Replacing
  BY <1>1 DEF TypeOK
<1>3. ASSUME \A n \in Replacing : class[n] = "error" => n \in text,
             NEW n \in Replacing, class'[n] = "error"
      PROVE  n \in text'
  BY <1>1, <1>3, FormAssumption
<1> QED
  BY <1>2, <1>3

LEMMA FormInit == Init => FormInv
<1> SUFFICES ASSUME Init PROVE FormInv
  OBVIOUS
<1>1. Pristine \in [Fields -> SUBSET Rules] /\ \A f \in Fields : Pristine[f] = RulesOf(f)
  BY RulesType DEF Pristine
<1>2. TypeOK
  BY <1>1 DEF Init, TypeOK
<1>3. ~attached
  BY DEF Init
<1>4. RulesEnforced
  BY <1>3 DEF Init, RulesEnforced
<1>5. OnlyKnownEscapes /\ ErrorsAreExplained
  BY FormAssumption DEF Init, OnlyKnownEscapes, ErrorsAreExplained
<1>6. ValuesViolateRules
  BY <1>1 DEF Init, ValuesViolateRules
<1> QED
  BY <1>2, <1>4, <1>5, <1>6 DEF FormInv

\* The document is parsed and the validator attached, unless the form has no fields.
LEMMA ReadyStep ==
  ASSUME FormInv, Ready
  PROVE  FormInv'
<1>1. /\ TypeOK /\ RulesEnforced /\ ValuesViolateRules /\ ErrorsAreExplained
      /\ page = "loading" /\ page' = "ready" /\ late = {} /\ ~attached
      /\ UNCHANGED <<dom, hidden, late, value, cancelSubmit, class, text, summary>>
  BY DEF FormInv, Ready, RulesEnforced, document, messages
<1>2. OnlyKnownEscapes' /\ ValuesViolateRules' /\ ErrorsAreExplained'
  BY <1>1 DEF OnlyKnownEscapes, ValuesViolateRules, ErrorsAreExplained
<1>3. CASE dom = {} /\ UNCHANGED <<options, enforced, attached>>
  <2>1. TypeOK'
    BY <1>1, <1>3 DEF TypeOK
  <2>2. RulesEnforced'
    BY <1>1, <1>3 DEF RulesEnforced
  <2> QED
    BY <1>2, <2>1, <2>2 DEF FormInv
<1>4. CASE ParseElements(dom) /\ AttachValidation
  <2>1. options' \in [Names -> SUBSET Rules]
    BY <1>1, <1>4, OptionsType
  <2>2. /\ enforced' \in [Names -> SUBSET Rules] /\ attached' /\ attached' \in BOOLEAN
    BY <1>1, <1>4, <2>1, AttachedType
  <2>3. enforced' = options'
    BY <1>1, <1>4 DEF AttachValidation
  <2>4. TypeOK'
    BY <1>1, <2>1, <2>2 DEF TypeOK
  <2>5. RulesEnforced'
    <3> SUFFICES ASSUME NEW f \in dom, Namesakes(f)' = {f}
                 PROVE  enforced'[NameOf[f]] = RulesOf(f)
      BY <1>1, <2>2 DEF RulesEnforced
    <3>1. Namesakes(f) = {f} /\ dom \subseteq Fields
      BY <1>1 DEF Namesakes, TypeOK
    <3> QED
      BY <1>4, <2>3, <3>1, OwnName
  <2> QED
    BY <1>2, <2>4, <2>5 DEF FormInv
<1> QED
  BY <1>3, <1>4 DEF Ready

\* Fields come, but the names of those that were there are shared for good.
LEMMA AddFieldStep ==
  ASSUME FormInv, NEW f \in Fields, AddField(f)
  PROVE  FormInv'
<1>1. /\ TypeOK /\ RulesEnforced /\ ValuesViolateRules /\ ErrorsAreExplained
      /\ page = "ready" /\ dom' = dom \cup {f} /\ late' = late \cup {f}
      /\ UNCHANGED <<page, hidden, value, options, enforced, attached, cancelSubmit,
                    class, text, summary>>
  BY DEF FormInv, AddField, rules, messages
<1>2. TypeOK'
  BY <1>1 DEF TypeOK
<1>3. RulesEnforced'
  <2> SUFFICES ASSUME NEW g \in dom \ late, Namesakes(g)' = {g}
               PROVE  attached /\ enforced[NameOf[g]] = RulesOf(g)
    BY <1>1 DEF RulesEnforced
  <2>1. Namesakes(g) = {g}
    BY <1>1 DEF Namesakes
  <2> QED
    BY <1>1, <2>1 DEF RulesEnforced
<1>4. OnlyKnownEscapes' /\ ValuesViolateRules' /\ ErrorsAreExplained'
  BY <1>1 DEF OnlyKnownEscapes, ValuesViolateRules, ErrorsAreExplained
<1> QED
  BY <1>2, <1>3, <1>4 DEF FormInv

\* Parsing again changes the options, which the validator has copied long since.
LEMMA ParseStep ==
  ASSUME FormInv, NEW fs \in SUBSET dom, Parse(fs)
  PROVE  FormInv'
<1>1. /\ TypeOK /\ RulesEnforced /\ ValuesViolateRules /\ ErrorsAreExplained
      /\ page = "ready" /\ ParseElements(fs) /\ AttachValidation
      /\ UNCHANGED <<page, dom, hidden, late, value, cancelSubmit, class, text, summary>>
  BY DEF FormInv, Parse, document, messages
<1>2. options' \in [Names -> SUBSET Rules]
  BY <1>1, OptionsType
<1>3. enforced' \in [Names -> SUBSET Rules] /\ attached' /\ attached' \in BOOLEAN
  BY <1>1, <1>2, AttachedType
<1>4. TypeOK'
  BY <1>1, <1>2, <1>3 DEF TypeOK
<1>5. RulesEnforced'
  <2> SUFFICES ASSUME NEW f \in dom \ late, Namesakes(f)' = {f}
               PROVE  enforced'[NameOf[f]] = RulesOf(f)
    BY <1>1, <1>3 DEF RulesEnforced
  <2>1. Namesakes(f) = {f}
    BY <1>1 DEF Namesakes
  <2>2. attached /\ enforced[NameOf[f]] = RulesOf(f)
    BY <1>1, <2>1 DEF RulesEnforced
  <2> QED
    BY <1>1, <2>2 DEF AttachValidation
<1>6. OnlyKnownEscapes' /\ ValuesViolateRules' /\ ErrorsAreExplained'
  BY <1>1 DEF OnlyKnownEscapes, ValuesViolateRules, ErrorsAreExplained
<1> QED
  BY <1>4, <1>5, <1>6 DEF FormInv

\* What neither edits nor resets leave as it is.
LEMMA ValuesStep ==
  ASSUME FormInv, page = "ready", value' \in [Fields -> SUBSET Rules], ValuesViolateRules',
         UNCHANGED <<page, dom, hidden, late, rules, text>>,
         \/ UNCHANGED <<class, summary>>
         \/ /\ class' = [n \in Names |-> "valid"]
            /\ summary' = [summary EXCEPT !.class = "valid"]
  PROVE  FormInv'
<1>1. /\ TypeOK /\ RulesEnforced /\ ErrorsAreExplained
      /\ UNCHANGED <<options, enforced, attached, cancelSubmit>>
  BY DEF FormInv, rules
<1>2. TypeOK' /\ ErrorsAreExplained'
  <2>1. CASE UNCHANGED <<class, summary>>
    BY <1>1, <2>1 DEF TypeOK, ErrorsAreExplained
  <2>2. CASE /\ class' = [n \in Names |-> "valid"]
             /\ summary' = [summary EXCEPT !.class = "valid"]
    <3>1. /\ summary' \in [class : {"valid", "errors"}, list : SUBSET Fields]
          /\ summary'.class = "valid"
      BY <1>1, <2>2 DEF TypeOK
    <3> QED
      BY <1>1, <2>2, <3>1, FormAssumption DEF TypeOK, ErrorsAreExplained
  <2> QED
    BY <2>1, <2>2
<1>3. RulesEnforced' /\ OnlyKnownEscapes'
  BY <1>1 DEF RulesEnforced, OnlyKnownEscapes, Namesakes
<1> QED
  BY <1>2, <1>3 DEF FormInv

LEMMA EditStep ==
  ASSUME FormInv, NEW f \in Fields, Edit(f)
  PROVE  FormInv'
<1>1. PICK violated \in SUBSET RulesOf(f) : value' = [value EXCEPT ![f] = violated]
  BY DEF Edit
<1>2. value \in [Fields -> SUBSET Rules] /\ ValuesViolateRules
  BY DEF FormInv, TypeOK
<1>3. value' \in [Fields -> SUBSET Rules] /\ ValuesViolateRules'
  BY <1>1, <1>2, RulesType DEF ValuesViolateRules
<1> QED
  BY <1>3, ValuesStep DEF Edit, messages

LEMMA ResetStep ==
  ASSUME FormInv, Reset
  PROVE  FormInv'
<1>1. value' \in [Fields -> SUBSET Rules] /\ ValuesViolateRules'
  BY RulesType DEF Reset, Pristine, ValuesViolateRules
<1> QED
  BY <1>1, ValuesStep DEF Reset

LEMMA CheckFieldStep ==
  ASSUME FormInv, NEW f \in Fields, CheckField(f)
  PROVE  FormInv'
<1>1. /\ TypeOK /\ RulesEnforced /\ ValuesViolateRules /\ ErrorsAreExplained
      /\ page = "ready" /\ ShowLabels(Targets(f))
      /\ UNCHANGED <<page, dom, hidden, late, value, options, enforced, attached,
                    cancelSubmit, summary>>
  BY DEF FormInv, CheckField, document, rules
<1>2. /\ class' \in [Names -> {"valid", "error"}] /\ text' \subseteq Replacing
      /\ \A n \in Replacing : class'[n] = "error" => n \in text'
  BY <1>1, LabelsShown DEF ErrorsAreExplained
<1>3. TypeOK' /\ ErrorsAreExplained'
  BY <1>1, <1>2 DEF TypeOK, ErrorsAreExplained
<1>4. RulesEnforced' /\ OnlyKnownEscapes' /\ ValuesViolateRules'
  BY <1>1 DEF RulesEnforced, OnlyKnownEscapes, ValuesViolateRules, Namesakes
<1> QED
  BY <1>3, <1>4 DEF FormInv

\* Fields come and go from sight, and the validator hears that it is to let a
\* submission pass, while nothing is sent.
LEMMA SightStep ==
  ASSUME FormInv, page = "ready", hidden' \subseteq Fields, cancelSubmit' \in BOOLEAN,
         UNCHANGED <<page, dom, late, value, options, enforced, attached, messages>>
  PROVE  FormInv'
<1>1. /\ TypeOK /\ RulesEnforced /\ ValuesViolateRules /\ ErrorsAreExplained
      /\ UNCHANGED <<class, text, summary>>
  BY DEF FormInv, messages
<1>2. TypeOK'
  BY <1>1 DEF TypeOK
<1>3. RulesEnforced'
  BY <1>1 DEF RulesEnforced, Namesakes
<1>4. OnlyKnownEscapes' /\ ValuesViolateRules' /\ ErrorsAreExplained'
  BY <1>1 DEF OnlyKnownEscapes, ValuesViolateRules, ErrorsAreExplained
<1> QED
  BY <1>2, <1>3, <1>4 DEF FormInv

LEMMA ShowOrHideStep ==
  ASSUME FormInv, NEW f \in Fields, ShowOrHide(f)
  PROVE  FormInv'
<1>1. hidden \subseteq Fields /\ cancelSubmit \in BOOLEAN
  BY DEF FormInv, TypeOK
<1>2. hidden' \subseteq Fields
  BY <1>1 DEF ShowOrHide
<1>3. UNCHANGED <<page, dom, late, value, options, enforced, attached, messages>>
  BY DEF ShowOrHide, rules
<1>4. cancelSubmit' \in BOOLEAN
  BY <1>1 DEF ShowOrHide, rules
<1> QED
  BY <1>2, <1>3, <1>4, SightStep DEF ShowOrHide

LEMMA ClickCancelStep ==
  ASSUME FormInv, ClickCancel
  PROVE  FormInv'
<1>1. hidden' \subseteq Fields
  BY DEF FormInv, TypeOK, ClickCancel, document
<1>2. UNCHANGED <<page, dom, late, value, options, enforced, attached, messages>>
  BY DEF ClickCancel, document
<1> QED
  BY <1>1, <1>2, SightStep DEF ClickCancel

\* Nothing is checked, and nothing but the page changes.
LEMMA UncheckedStep ==
  ASSUME FormInv, Submit, cancelSubmit, page' = "unchecked", UNCHANGED messages
  PROVE  FormInv'
<1>1. /\ TypeOK /\ RulesEnforced /\ ValuesViolateRules /\ ErrorsAreExplained
      /\ page = "ready" /\ cancelSubmit' = FALSE
      /\ UNCHANGED <<dom, hidden, late, value, options, enforced, attached,
                    class, text, summary>>
  BY DEF FormInv, Submit, document, messages
<1>2. TypeOK'
  BY <1>1 DEF TypeOK
<1>3. RulesEnforced'
  BY <1>1 DEF RulesEnforced, Namesakes
<1>4. OnlyKnownEscapes' /\ ValuesViolateRules' /\ ErrorsAreExplained'
  BY <1>1 DEF OnlyKnownEscapes, ValuesViolateRules, ErrorsAreExplained
<1> QED
  BY <1>2, <1>3, <1>4 DEF FormInv

\* A form is sent when nothing the validator looks at is wrong, and it looks at every
\* shown field of its own name that has rules.
LEMMA CheckedStep ==
  ASSUME FormInv, Submit, ShowLabels(Checked), ListErrors({f \in Checked : Invalid(f)}),
         page' = IF {f \in Checked : Invalid(f)} = {} THEN "sent" ELSE page
  PROVE  FormInv'
<1> DEFINE bad == {f \in Checked : Invalid(f)}
<1>1. /\ TypeOK /\ RulesEnforced /\ ValuesViolateRules /\ ErrorsAreExplained
      /\ page = "ready" /\ cancelSubmit' = FALSE
      /\ UNCHANGED <<dom, hidden, late, value, options, enforced, attached>>
  BY DEF FormInv, Submit, document
<1>2. /\ class' \in [Names -> {"valid", "error"}] /\ text' \subseteq Replacing
      /\ \A n \in Replacing : class'[n] = "error" => n \in text'
  BY <1>1, LabelsShown DEF ErrorsAreExplained
<1>3. bad \subseteq Fields
  BY <1>1 DEF Checked, TypeOK
<1>4. OnlyKnownEscapes'
  <2> SUFFICES ASSUME page' = "sent", NEW f \in dom \ (late \cup hidden), value[f] # {},
                      Namesakes(f) = {f}
               PROVE  FALSE
    BY <1>1 DEF OnlyKnownEscapes, Namesakes
  <2>1. f \in Fields /\ f \in Nat
    BY <1>1, FormAssumption DEF TypeOK
  <2>2. enforced[NameOf[f]] = RulesOf(f) /\ value[f] \subseteq RulesOf(f)
    BY <1>1, <2>1 DEF RulesEnforced, ValuesViolateRules
  <2>3. \A g \in Namesakes(f) \ hidden : f <= g
    BY <2>1
  <2>4. f \in Checked /\ Invalid(f)
    BY <2>1, <2>2, <2>3 DEF Checked, Invalid
  <2> QED
    BY <1>1, <2>4
<1>5. \/ bad = {} /\ page' = "sent" /\ UNCHANGED summary
      \/ bad # {} /\ UNCHANGED page /\ summary' = [class |-> "errors", list |-> bad]
  BY DEF ListErrors
<1> HIDE DEF bad
<1>6. TypeOK' /\ ErrorsAreExplained'
  <2>1. CASE bad = {} /\ page' = "sent" /\ UNCHANGED summary
    BY <1>1, <1>2, <2>1 DEF TypeOK, ErrorsAreExplained
  <2>2. CASE bad # {} /\ UNCHANGED page /\ summary' = [class |-> "errors", list |-> bad]
    <3>1. /\ summary' \in [class : {"valid", "errors"}, list : SUBSET Fields]
          /\ summary'.list # {}
      BY <1>3, <2>2
    <3> QED
      BY <1>1, <1>2, <2>2, <3>1 DEF TypeOK, ErrorsAreExplained
  <2> QED
    BY <1>5, <2>1, <2>2
<1>7. page' # "loading"
  BY <1>1, <1>5
<1>8. RulesEnforced' /\ ValuesViolateRules'
  BY <1>1, <1>7 DEF RulesEnforced, ValuesViolateRules, Namesakes
<1> QED
  BY <1>4, <1>6, <1>8 DEF FormInv

LEMMA SubmitStep ==
  ASSUME FormInv, Submit
  PROVE  FormInv'
<1>1. CASE cancelSubmit /\ page' = "unchecked" /\ UNCHANGED messages
  BY <1>1, UncheckedStep
<1>2. CASE /\ ShowLabels(Checked) /\ ListErrors({f \in Checked : Invalid(f)})
           /\ page' = IF {f \in Checked : Invalid(f)} = {} THEN "sent" ELSE page
  BY <1>2, CheckedStep
<1> QED
  BY <1>1, <1>2, Zenon DEF Submit

LEMMA FormStep == FormInv /\ [Next]_vars => FormInv'
<1> SUFFICES ASSUME FormInv, [Next]_vars PROVE FormInv'
  OBVIOUS
<1>1. CASE Next
  BY <1>1, ReadyStep, AddFieldStep, ShowOrHideStep, ParseStep, EditStep, ResetStep,
     CheckFieldStep, ClickCancelStep, SubmitStep DEF Next
<1>2. CASE UNCHANGED vars
  BY <1>2 DEF vars, document, rules, messages, FormInv, TypeOK, RulesEnforced, ValuesViolateRules,
     OnlyKnownEscapes, ErrorsAreExplained, Namesakes
<1> QED
  BY <1>1, <1>2

\* The inductive invariant of the form: the validator has the rules of every field of
\* its own name that was there when the page was ready.
THEOREM FormInvariant == Spec => []FormInv
<1> QED
  BY FormInit, FormStep, PTL DEF Spec

\* Every variable of the form has its type.
THEOREM FormTypeCorrect == Spec => []TypeOK
<1>1. FormInv => TypeOK
  BY DEF FormInv
<1> QED
  BY <1>1, FormInvariant, PTL

\* Validator.form and validationInfo: a form that is checked is sent with a value its
\* field forbids only if that field is hidden, came late or shares its name, for any form
\* and any order of edits, fields shown and hidden, checks, resets and parsings.
THEOREM OnlyKnownFieldsEscape == Spec => []OnlyKnownEscapes
<1>1. FormInv => OnlyKnownEscapes
  BY DEF FormInv
<1> QED
  BY <1>1, FormInvariant, PTL

\* onError, onErrors and onReset: what is marked as wrong says why.
THEOREM ErrorsAlwaysExplained == Spec => []ErrorsAreExplained
<1>1. FormInv => ErrorsAreExplained
  BY DEF FormInv
<1> QED
  BY <1>1, FormInvariant, PTL
=============================================================================
