------------------------------- MODULE BasicAuth -------------------------------
(***************************************************************************)
(* Basic authentication (authBasic of libesphttpd/core/auth.c) on top of   *)
(* base64 (libesphttpd/core/base64.c). The Authorization header is what a  *)
(* browser makes of a user name and a password; the function compares it   *)
(* with a list of users.                                                   *)
(***************************************************************************)
EXTENDS Integers, SequencesExt

CONSTANTS
  NameBytes,   \* bytes of names and passwords
  MaxName,     \* AUTH_MAX_USER_LEN and AUTH_MAX_PASS_LEN, less the terminator
  Users        \* the list of <<user, password>>

Colon == 58
ErrorLen == -1

\* sizeof(userpass).
UserPassSize == 2 * (MaxName + 1) + 2

\* What may come in the header: no header, another scheme, or a user's entry; "broken" stands for
\* base64 text with a foreign character in its middle.
Names == BoundedSeq(NameBytes, MaxName)
Inputs == [scheme : {"none", "Other", "Basic", "broken"}, user : Names, pass : Names]
----------------------------------------------------------------------------
(***************************************************************************)
(* base64: a digit is its value, "=" is Pad, anything else Foreign.        *)
(***************************************************************************)

Pad == 64
Foreign == 65
Pow2(n) == 2 ^ n

\* base64_encode; the number of bits in hand is below 14, v keeps 32 of them.
Encode(bytes) ==
  LET put(st, n) ==   \* n digits of the bits in hand
        [v |-> st.v, rem |-> st.rem - 6 * n,
         out |-> st.out \o [k \in 1 .. n |-> (st.v \div Pow2(st.rem - 6 * k)) % 64]]
      take(st, b) ==
        LET rem == st.rem + 8
        IN  put([st EXCEPT !.v = ((@ % Pow2(14)) * 256 + b), !.rem = rem], rem \div 6)
      all == FoldLeft(take, [v |-> 0, rem |-> 0, out |-> <<>>], bytes)
      digits == IF all.rem = 0 THEN all.out
                ELSE Append(all.out, (all.v * Pow2(6 - all.rem)) % 64)
  IN  digits \o [k \in 1 .. (4 - (Len(digits) % 4)) % 4 |-> Pad]

\* Mutant of Decode: what is left of a group at its end is a byte, too.
DecodeKeepsRest(digits, outLen) ==
  LET take(st, d) ==
        IF st.stop THEN st
        ELSE IF d \in {Pad, Foreign}
        THEN [st EXCEPT !.stop = TRUE,
                        !.out = IF st.rem > 0 THEN Append(@, st.v % Pow2(st.rem)) ELSE @]
        ELSE LET v == (st.v % Pow2(14)) * 64 + d
                 rem == st.rem + 6
             IN  IF rem < 8 THEN [st EXCEPT !.v = v, !.rem = rem]
                 ELSE IF Len(st.out) >= outLen THEN [st EXCEPT !.stop = TRUE, !.error = TRUE]
                 ELSE [st EXCEPT !.v = v, !.rem = rem - 8,
                                 !.out = Append(@, (v \div Pow2(rem - 8)) % 256)]
      all == FoldLeft(take, [v |-> 0, rem |-> 0, out |-> <<>>, stop |-> FALSE, error |-> FALSE],
                      digits)
  IN  [len |-> IF all.error THEN ErrorLen ELSE Len(all.out), out |-> all.out]

\* base64_decode: it stops at padding or at a foreign character and keeps the whole bytes it has;
\* output that does not fit is an error.
Decode(digits, outLen) ==
  LET take(st, d) ==
        IF st.stop THEN st
        ELSE IF d \in {Pad, Foreign} THEN [st EXCEPT !.stop = TRUE]
        ELSE LET v == (st.v % Pow2(14)) * 64 + d
                 rem == st.rem + 6
             IN  IF rem < 8 THEN [st EXCEPT !.v = v, !.rem = rem]
                 ELSE IF Len(st.out) >= outLen THEN [st EXCEPT !.stop = TRUE, !.error = TRUE]
                 ELSE [st EXCEPT !.v = v, !.rem = rem - 8,
                                 !.out = Append(@, (v \div Pow2(rem - 8)) % 256)]
      all == FoldLeft(take, [v |-> 0, rem |-> 0, out |-> <<>>, stop |-> FALSE, error |-> FALSE],
                      digits)
  IN  [len |-> IF all.error THEN ErrorLen ELSE Len(all.out), out |-> all.out]
----------------------------------------------------------------------------
\* What is in the header behind the name of the scheme.
Sent(in) ==
  LET digits == Encode(in.user \o <<Colon>> \o in.pass)
      middle == Len(digits) \div 2
  IN  IF in.scheme = "broken" THEN [digits EXCEPT ![middle] = Foreign] ELSE digits

\* authBasic: TRUE for HTTPD_CGI_AUTHENTICATED, FALSE for a 401 answer.
Authenticated(in) ==
  LET r == Decode(Sent(in), UserPassSize)
      userpass == IF r.len = ErrorLen THEN <<>> ELSE r.out
      matches(u) ==
        /\ Len(userpass) = Len(u[1]) + Len(u[2]) + 1
        /\ SubSeq(userpass, 1, Len(u[1])) = u[1]
        /\ userpass[Len(u[1]) + 1] = Colon
        /\ SubSeq(userpass, Len(u[1]) + 2, Len(userpass)) = u[2]
  IN  in.scheme \in {"Basic", "broken"} /\ \E u \in Users : matches(u)
----------------------------------------------------------------------------
\* Those get in who are on the list, with any name and password that fit; of broken text counts
\* what is in front of the foreign character.
Allowed(in) ==
  LET entry == in.user \o <<Colon>> \o in.pass
      whole == ((Len(Sent(in)) \div 2 - 1) * 6) \div 8
      read == IF in.scheme = "broken" THEN SubSeq(entry, 1, whole) ELSE entry
  IN  in.scheme \in {"Basic", "broken"} /\ \E u \in Users : read = u[1] \o <<Colon>> \o u[2]
=============================================================================
