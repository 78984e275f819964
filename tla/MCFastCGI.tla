----------------------------- MODULE MCFastCGI ------------------------------
(* Requests and responses of the runs: records cannot be written in a .cfg. *)
EXTENDS FastCGI

Params == <<<<<<7, 8>>, <<9>>>>, <<<<6>>, <<>>>>>>

\* Eight bytes of parameters in one record, in two with padding that cut the
\* first pair, and none at all; kept connections and one post.
MCRequests ==
    {[keep |-> TRUE,  params |-> Params, ends |-> <<8>>,    body |-> <<>>],
     [keep |-> FALSE, params |-> Params, ends |-> <<3, 8>>, body |-> <<>>],
     [keep |-> TRUE,  params |-> <<>>,   ends |-> <<>>,     body |-> <<7, 8, 9>>]}

\* Headers and data, in one record and in several, the cut in either.
MCResponses == {<<2, 0>>, <<3, 2>>, <<3, 9>>, <<6, 1>>}
=============================================================================
