----------------------------- MODULE MCAdmission -----------------------------
(* Admission for TLC.  Three kinds of request: one that may succeed, one     *)
(* that pays for its refusal, and one that is refused at once.               *)
EXTENDS Admission

MCAsked == {Flawless, [op |-> "membership", flaws |-> {"claim"}],
            [op |-> "knowledge", flaws |-> {"challenge"}]}
=============================================================================
