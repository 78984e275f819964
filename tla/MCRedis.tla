------------------------------ MODULE MCRedis -------------------------------
(* Replies of the run: a status, a number, an error, a string longer than   *)
(* the buffer, a nested array, and an array with a nil and a string.        *)
EXTENDS Redis

\* The theorems about Redis are about replies like these.
ASSUME SupportedReplies == Supported

MCReplies ==
    {<<Node("status", <<20, 21>>)>>,
     <<Node("long", <<4, 2>>)>>,
     <<Node("err", <<22, Space, 23>>)>>,
     <<Node("bulk", [i \in 1 .. Cap + 2 |-> 20 + i])>>,
     <<Node("arr", <<1>>), Node("arr", <<1>>), Node("long", <<4>>)>>,
     <<Node("arr", <<2>>), Null, Node("bulk", <<20>>)>>}
=============================================================================
