---------------------------- MODULE MCRxReorder ----------------------------
(* RxReorder with a sequence space small enough to wrap many times.        *)
EXTENDS RxReorder

\* What tells states apart.  What a step handed up or freed is judged by the
\* step's own properties, and last_seq and pkt_count are not read once
\* check_start_win is false.
View ==
  <<IF t.check_start_win THEN Fresh
    ELSE [Fresh EXCEPT !.last_seq = DEFAULT_SEQ_NUM, !.pkt_count = 0],
    rx_seq, answer>>
=============================================================================
