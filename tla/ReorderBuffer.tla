--------------------------- MODULE ReorderBuffer ---------------------------
(***************************************************************************)
(* What the receive reordering of the WiFi driver promises, with sequence  *)
(* numbers that never wrap and a buffer that is a set: frames of one       *)
(* station and one traffic class pass a window, and leave it in order.     *)
(* RecvReorder, with the driver's 12-bit numbers and sorted list,          *)
(* implements this specification.                                          *)
(***************************************************************************)
EXTENDS Integers, FiniteSetsExt

CONSTANTS Frames, WinSize, None

VARIABLES
  win,   \* the next frame to hand up, or None before any frame was seen
  buf,   \* the frames held back
  up,    \* the last frame handed up since the window last went back, or None
  fresh  \* a session was agreed on and none of its frames seen yet

absVars == <<win, buf, up, fresh>>

ReorderInit == win = None /\ buf = {} /\ up = None /\ fresh = FALSE

\* The end of the unbroken run of frames of F that starts at w.
EndOfRun(F, w) == CHOOSE k \in w..(w + Cardinality(F)) :
                    k \notin F /\ \A i \in w..(k - 1) : i \in F

NewestOf(F, u) == IF F = {} THEN u ELSE Max(F)

\* A frame beyond the end of the window that starts at w drags it along.
Dragged(n, w) == IF n > w + WinSize - 1 THEN n + 1 - WinSize ELSE w

(***************************************************************************)
(* Frame n arrives in the window that starts at w: what is then behind the *)
(* window, and the run that starts at it, is handed up.                    *)
(***************************************************************************)
Accept(n, w, u) ==
  LET held == buf \cup {n}
      end  == EndOfRun(held, Dragged(n, w))
      out  == {f \in held : f < end}
  IN  /\ n >= w /\ n \notin buf
      /\ win' = end
      /\ buf' = held \ out
      /\ up' = NewestOf(out, u)

\* A repetition of a held frame is dropped; the window takes note of it.
Duplicate(n, w, u) ==
  /\ n >= w /\ n \in buf
  /\ win' = IF n = w THEN n + 1 ELSE Dragged(n, w)
  /\ up' = u
  /\ UNCHANGED buf

\* The first frame of a session places the window; a frame behind it is dropped.
Arrive ==
  \E n \in Frames :
    LET first == fresh \/ win = None
        w     == IF first THEN n ELSE win
        u     == IF first THEN None ELSE up
    IN  /\ Accept(n, w, u) \/ Duplicate(n, w, u)
        /\ fresh' = FALSE

Renew == fresh' = TRUE /\ UNCHANGED <<win, buf, up>>

(***************************************************************************)
(* The window skips the missing frames before the oldest one held, which   *)
(* is handed up, and after it, one by one, what follows without a gap.     *)
(***************************************************************************)
Skip == buf # {} /\ win' = Min(buf) /\ UNCHANGED <<buf, up, fresh>>

HandUp ==
  /\ buf # {} /\ win # None /\ Min(buf) <= win
  /\ buf' = buf \ {Min(buf)}
  /\ up' = Min(buf)
  /\ win' = IF Min(buf) = win THEN win + 1 ELSE win
  /\ UNCHANGED fresh

(***************************************************************************)
(* The sender moves the window.  Moved back, it admits frames that have    *)
(* been handed up before.                                                  *)
(***************************************************************************)
Move == /\ win' \in Int
        /\ up' = IF up # None /\ win' <= up THEN None ELSE up
        /\ UNCHANGED <<buf, fresh>>

\* Outside a session frames pass by the buffer, in the order they come.
Bypass == win' \in Int /\ up' = None /\ UNCHANGED <<buf, fresh>>

ReorderNext == Arrive \/ Renew \/ Skip \/ HandUp \/ Move \/ Bypass

ReorderSpec == ReorderInit /\ [][ReorderNext]_absVars
============================================================================
