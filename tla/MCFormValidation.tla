--------------------------- MODULE MCFormValidation ---------------------------
(* A form with two fields of one name, one of them with a range, and a check box. *)
EXTENDS FormValidation

FormNames == <<"a", "a", "b">>

FormAttributes == <<{"required"}, {"min", "max"}, {"required", "max"}>>
=============================================================================
