---------------------------- MODULE PollObjects ----------------------------
(***************************************************************************)
(* The two poll objects that keep arrays of their own, behind the          *)
(* interface of poll.h: the program is linked with one of them, which the  *)
(* variable `linked` stands for (ef_create_poll is an external symbol).    *)
(* Each is driven by every caller its module allows.                       *)
(***************************************************************************)
EXTENDS Epollet, PollSys

VARIABLE linked                 \* "epollet" or "poll"

objects == <<linked, vars, poll_vars>>

ef_create_poll == /\ linked \in {"epollet", "poll"}
                  /\ ef_epoll_create
                  /\ ef_poll_create

Step == \/ linked = "epollet" /\ Next /\ UNCHANGED <<linked, poll_vars>>
        \/ linked = "poll" /\ PollNext /\ UNCHANGED <<linked, vars>>

ObjectsSpec == ef_create_poll /\ [][Step]_objects
-----------------------------------------------------------------------------
(* Properties *)

\* Neither object touches memory beyond its arrays.
ArraysFit == WithinCapacity /\ PollWithinCapacity
=============================================================================
