-------------------------------- MODULE Lww --------------------------------
(***************************************************************************)
(* The last-writer-wins rules every replicated record of irchub goes       *)
(* through, as operators.  A stored record is abstracted to                *)
(*                                                                         *)
(*    [ts  |-> its stamp in seconds (0: the hub holds no such record),     *)
(*     act |-> TRUE for "...|add", FALSE for a "...|del" tombstone,        *)
(*     val |-> the payload: only its byte order matters, so a number]      *)
(*                                                                         *)
(* now is the clock of the hub that decides, ahead is LWW_MAX_FUTURE.      *)
(***************************************************************************)
EXTENDS Integers

(* What a hub holds for a record it has never stored.                      *)
Absent == [ts |-> 0, act |-> FALSE, val |-> 0]

(* A stamp too far past this hub's clock is refused on every store.        *)
ts_ahead(ts, now, ahead) == ts > now + ahead

(* Stamp of a local change: now, but always past the previous stamp.       *)
lww_next_ts(prev, now) == IF now > prev THEN now ELSE prev + 1

(* c|, users, masks: newer wins; on a tie a delete beats an add, and two   *)
(* adds with different payloads refuse each other.                         *)
lww_accepts(in, cur) ==
    \/ in.ts > cur.ts
    \/ in.ts = cur.ts /\ cur.act /\ ~in.act

(* C|, D|, B|: as above, and between two of the same kind the byte-wise    *)
(* greater value wins.                                                     *)
rec_accepts(in, cur) ==
    IF in.ts # cur.ts THEN in.ts > cur.ts
    ELSE IF in.act # cur.act THEN cur.act /\ ~in.act
    ELSE in.val > cur.val

(* opt|: one value, no add / del; a tie goes to the greater flag string.   *)
opt_accepts(in, cur) ==
    in.ts > cur.ts \/ (in.ts = cur.ts /\ in.val > cur.val)
=============================================================================
