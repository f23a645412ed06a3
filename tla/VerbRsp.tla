------------------------------- MODULE VerbRsp -------------------------------
(***************************************************************************)
(* What the router's response to a data-path verb says, and what the       *)
(* client library makes of it.                                             *)
(***************************************************************************)
EXTENDS Integers

(* A post answers ret_errno and bad_wr, the number the router computes as  *)
(* `bad_wr - wr', that is, 0-based; a poll answers rsp_size, counted here  *)
(* in completions.  accepted is how many of the n work requests the NIC    *)
(* took before it refused one.                                             *)
PostRsp(n, accepted) ==
  IF accepted = n THEN [ret_errno |-> 0, bad_wr |-> 0, rsp_size |-> 0]
                  ELSE [ret_errno |-> 1, bad_wr |-> accepted, rsp_size |-> 0]

PollRsp(count) == [ret_errno |-> 0, bad_wr |-> 0, rsp_size |-> count]

(* The position, counted from 1, of the work request that a post returns   *)
(* to its caller through bad_wr; 0 when it returns success.                *)
DecodeBadWr(r) ==
  CASE r.bad_wr # 0 -> r.bad_wr
    [] r.bad_wr = 0 /\ r.ret_errno # 0 -> 1
    [] OTHER -> 0
=============================================================================
