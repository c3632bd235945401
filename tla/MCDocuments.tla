------------------------------ MODULE MCDocuments ------------------------------
(***************************************************************************)
(* The lines that are typed in the runs of Documents.tla.                  *)
(***************************************************************************)
EXTENDS Documents

A == <<97>>   \* a
A2 == <<97, 95, 95, 50>>   \* a__2
RequiredSections == {A}

(* A section twice, and one with the name that the second of them gets; a long *)
(* fence, which a short one does not close, and a short one indented by four.  *)
(* The text x counts as empty, a fence does not.                               *)
Typed == {Blank, Text("", TRUE), Text("x", TRUE),
          Heading(1, A, FALSE), Heading(2, A, TRUE), Heading(1, A2, FALSE),
          Fence("tick", 3, "", TRUE), Fence("tick", 4, "py", FALSE),
          Lookalike("tick", 3, "", FALSE)}
=================================================================================
