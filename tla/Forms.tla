-------------------------------- MODULE Forms --------------------------------
(* The buttons of an Odoo form, as the views of every jinling module use them. *)

CONSTANT StaleForms  \* TRUE: forms opened while a row was a draft stay in use;
                     \* FALSE: every form shows the present state of its row

ASSUME ModeAssumption == StaleForms \in BOOLEAN

\* The form offers a button only in the states its view lists; what more the
\* handler asks for is a conjunct of its action.  Every row was a draft once,
\* so a form opened then and left open still offers the buttons of a draft.
Shown(states, s) == s \in states \/ (StaleForms /\ "draft" \in states)
=============================================================================
