----------------------------- MODULE OutputName -----------------------------
(***************************************************************************)
(* The names of the transcoder's files: get_next_filename (AVUtil.h) and   *)
(* init_output_filename (Transcode.c), on lengths.  The text of a name is  *)
(*     <fn> "-YYYY-MM-DD_HH:MM:SS" "." <ext> "\n"                          *)
(* of which snprintf stores what fits.  f and e are the lengths of fn and  *)
(* of ext, a time is in seconds.                                           *)
(***************************************************************************)
EXTENDS Integers

StampLen == 20                             \* "-YYYY-MM-DD_HH:MM:SS"
TextLen(f, e) == f + StampLen + 1 + e + 1

Least(a, b) == IF a <= b THEN a ELSE b
Clamp(k, top) == IF k < 0 THEN 0 ELSE Least(k, top)

(* Mutants: no wrap, one character less, or room for the whole text. *)
MaxSize_wide(f, e) == f + e + 18
MaxSize_less(f, e) == (f + e + 17) % 256
MaxSize_whole(f, e) == (f + e + 23) % 256

(* nMaxSize, an unsigned char. *)
MaxSize(f, e) == (f + e + 18) % 256

(* The length of the stored name; of a buffer of no bytes snprintf leaves  *)
(* what malloc left there, which ends somewhere, here at once.             *)
Kept(f, e) == Clamp(MaxSize(f, e) - 1, TextLen(f, e))

KeptStamp(f, e) == Clamp(Kept(f, e) - f, StampLen)
KeptExt(f, e) == Clamp(Kept(f, e) - f - StampLen - 1, e)

(* The part of the clock a name shows when its last digits are cut off:    *)
(* seconds, tens of seconds, minutes; a name that wraps shows nothing.     *)
Shown(f, e, t) ==
    LET k == KeptStamp(f, e)
    IN CASE k = 20         -> t
         [] k = 19         -> t \div 10
         [] k \in {17, 18} -> t \div 60
         [] k < 17         -> 0

(* Mutant: the terminating NUL is counted in. *)
Allocates_terminated(len, f, e) == len = -1 \/ len + 1 < MaxSize(f, e)

(* Whether get_next_filename takes a new buffer although it was given one  *)
(* that holds a name of len characters (-1: it was given none).            *)
Allocates(len, f, e) == len = -1 \/ len < MaxSize(f, e)
=============================================================================
