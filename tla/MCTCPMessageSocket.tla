------------------------- MODULE MCTCPMessageSocket -------------------------
(***************************************************************************)
(* What comments of asio_message_manager.cc say of a TCP socket; the runs  *)
(* of this module show where the code differs.                             *)
(***************************************************************************)
EXTENDS TCPMessageSocket

\* ~ASIOMessageSocket(): "The ownership is being released from the caller.  The
\* underlying impl object will be responsible for destructing itself."
ReleasedIsDeleted ==
    ~owned ~> status \in {"deleted", "threw", "crashed"}

\* recvdata_len_: "actual message length of the first message".
RecvLenIsMessageLength ==
    recvlen \in {0, FirstLength}

\* handleReadLength(): "hold others in the aux buffer only temporarily": of the
\* messages after the first, one at a time is held, since no more than one of
\* the buffers can still be reached from aux_recvbuf_.
OthersHeldTemporarily ==
    status = "live" => aux <= 1

=============================================================================
