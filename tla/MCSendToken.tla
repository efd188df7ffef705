------------------------------ MODULE MCSendToken ------------------------------
(* The tokens around one write phase: the seed of the last one is asked for, *)
(* the new one is announced, and an address is noted without an answer.      *)
EXTENDS SendToken

\* recv_write_info, recv_random_seed, setaddress, send_write_info
MCArity == <<4, 1, 0, 0>>
MCNoAck == {3}
===============================================================================
