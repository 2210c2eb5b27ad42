--------------------------- MODULE MCSubmissions ---------------------------
(* Every form of the client, one at a time: two openings, two requests and *)
(* one change of the draft.                                                *)
EXTENDS Submissions
=============================================================================
