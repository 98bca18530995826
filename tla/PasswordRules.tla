--------------------------- MODULE PasswordRules ---------------------------
(***************************************************************************)
(* What a new password may be: validNewPassword of the gate, which decodes *)
(* UTF-8 byte by byte, and the checks of the client's forms, which work on *)
(* code points with QRegularExpression (PCRE2).  The limits 10 and 128 are *)
(* the constants MinLen and MaxLen.                                        *)
(***************************************************************************)
EXTENDS Naturals, Sequences, FiniteSets, SequencesExt

CONSTANTS
  MinLen, MaxLen,
  Texts,   \* passwords typed into a form: sequences of code points
  Raw,     \* passwords as they can reach the gate otherwise: sequences of bytes
  None

LengthConstants == MinLen \in Nat \ {0} /\ MaxLen \in Nat /\ MinLen <= MaxLen

VARIABLES
  text,         \* what was typed, or None
  password,     \* the bytes the gate receives
  offset, code_points,
  verdict       \* "running", "accept" or "refuse"

vars == <<text, password, offset, code_points, verdict>>

-----------------------------------------------------------------------------
(* The client: QString::toUtf8 within the JSON body, PCRE2's \s, and the   *)
(* checks of the three forms.                                              *)
Low(cp, n) == 128 + ((cp \div n) % 64)
Utf8(cp) ==
  IF cp < 128 THEN <<cp>>
  ELSE IF cp < 2048 THEN <<192 + (cp \div 64), Low(cp, 1)>>
  ELSE IF cp < 65536 THEN <<224 + (cp \div 4096), Low(cp, 64), Low(cp, 1)>>
  ELSE <<240 + (cp \div 262144), Low(cp, 4096), Low(cp, 64), Low(cp, 1)>>
toUtf8(t) == FlattenSeq([i \in DOMAIN t |-> Utf8(t[i])])

AsciiSpace == {9, 10, 11, 12, 13, 32}
\* With UseUnicodePropertiesOption: what \h, \v or the category Z match.
UnicodeSpace == AsciiSpace \cup {133, 160, 5760, 6158, 8232, 8233, 8239, 8287, 12288} \cup (8192 .. 8202)
None_of(t, space) == \A i \in DOMAIN t : t[i] \notin space
LengthOK(t) == Len(t) >= MinLen /\ Len(t) <= MaxLen

RegisterAccepts(t) == LengthOK(t) /\ None_of(t, UnicodeSpace)
LoginAscii(t) == LengthOK(t) /\ None_of(t, AsciiSpace)  \* the option is forgotten
LoginAccepts(t) == LengthOK(t) /\ None_of(t, UnicodeSpace)
ResetAccepts(t) == LengthOK(t) /\ None_of(t, AsciiSpace)  \* no UseUnicodePropertiesOption

-----------------------------------------------------------------------------
(* The gate: validNewPassword.                                             *)
Byte(i) == password[i + 1]
Done(v) == verdict' = v /\ UNCHANGED <<text, password, offset, code_points>>

Width(lead) ==
  CASE lead <= 127 -> 1
    [] lead >= 194 /\ lead <= 223 -> 2
    [] lead >= 224 /\ lead <= 239 -> 3
    [] lead >= 240 /\ lead <= 244 -> 4
    [] OTHER -> 0

\* The bits of the lead byte, then six of every byte that follows.
Value(w) ==
  LET bits == <<128, 32, 16, 8>>[w] IN
  FoldLeft(LAMBDA v, i : v * 64 + (Byte(offset + i) % 64), Byte(offset) % bits, [i \in 1 .. w - 1 |-> i])

OverlongKept(w, v) == v > 1114111 \/ (v >= 55296 /\ v <= 57343)  \* short characters in long encodings pass

Malformed(w, v) ==
  \/ (w = 2 /\ v < 128) \/ (w = 3 /\ v < 2048) \/ (w = 4 /\ v < 65536)
  \/ v > 1114111 \/ (v >= 55296 /\ v <= 57343)

Whitespace(v) ==
  \/ (v >= 9 /\ v <= 13) \/ v \in {32, 133, 160, 5760}
  \/ (v >= 8192 /\ v <= 8202) \/ v \in {8232, 8233, 8239, 8287, 12288}

Init ==
  /\ \/ text \in Texts /\ password = toUtf8(text)
     \/ text = None /\ password \in Raw
  /\ offset = 0 /\ code_points = 0
  /\ verdict = IF password = << >> \/ Len(password) > MaxLen * 4 THEN "refuse" ELSE "running"

\* One round of the loop.
Decode ==
  /\ verdict = "running" /\ offset < Len(password)
  /\ LET w == Width(Byte(offset)) IN
     IF w = 0 \/ offset + w > Len(password) \/ (\E i \in 1 .. w - 1 : Byte(offset + i) \div 64 # 2)
     THEN Done("refuse")
     ELSE LET v == Value(w) IN
          IF Malformed(w, v) \/ Whitespace(v) \/ code_points + 1 > MaxLen THEN Done("refuse")
          ELSE /\ code_points' = code_points + 1 /\ offset' = offset + w
               /\ UNCHANGED <<text, password, verdict>>

Finish ==
  /\ verdict = "running" /\ offset = Len(password)
  /\ Done(IF code_points >= MinLen THEN "accept" ELSE "refuse")

Next == Decode \/ Finish
Spec == Init /\ [][Next]_vars /\ WF_vars(Next)

-----------------------------------------------------------------------------
\* The offset stays on the boundaries the loop has found, within the password.
TypeOK ==
  /\ verdict \in {"running", "accept", "refuse"} /\ offset \in 0 .. Len(password)
  /\ code_points \in 0 .. MaxLen /\ code_points <= offset /\ offset <= 4 * code_points

\* The well-formed byte sequences of one code point (the Unicode Standard,
\* table 3-7), and the code points that are white space (White_Space).
Cont == 128 .. 191
WellFormedChar(s) ==
  \/ Len(s) = 1 /\ s[1] \in 0 .. 127
  \/ Len(s) = 2 /\ s[1] \in 194 .. 223 /\ s[2] \in Cont
  \/ /\ Len(s) = 3 /\ s[3] \in Cont
     /\ \/ s[1] = 224 /\ s[2] \in 160 .. 191
        \/ s[1] \in 225 .. 236 \cup {238, 239} /\ s[2] \in Cont
        \/ s[1] = 237 /\ s[2] \in 128 .. 159
  \/ /\ Len(s) = 4 /\ s[3] \in Cont /\ s[4] \in Cont
     /\ \/ s[1] = 240 /\ s[2] \in 144 .. 191
        \/ s[1] \in 241 .. 243 /\ s[2] \in Cont
        \/ s[1] = 244 /\ s[2] \in 128 .. 143
White_Space == {Utf8(cp) : cp \in (9 .. 13) \cup (8192 .. 8202)
                                    \cup {32, 133, 160, 5760, 8232, 8233, 8239, 8287, 12288}}

\* ends is a way to cut the password into characters.
Characters(ends) ==
  \A e \in ends : LET before == {d \in ends \cup {0} : d < e}
                      from == CHOOSE d \in before : \A x \in before : x <= d
                      char == SubSeq(password, from + 1, e)
                  IN WellFormedChar(char) /\ char \notin White_Space

\* The decoder accepts exactly the well-formed UTF-8 texts of MinLen to MaxLen
\* code points without white space, whatever bytes it is given: overlong and
\* surrogate encodings, truncated and stray bytes are refused.
DecoderIsExact ==
  verdict # "running" =>
    (verdict = "accept" <=>
       \E ends \in SUBSET (1 .. Len(password)) :
         /\ Len(password) \in ends /\ Cardinality(ends) \in MinLen .. MaxLen /\ Characters(ends))

\* What the registration and login forms let through, the gate does not refuse
\* as a password (RegisterDialog.cpp:239, LoginDialog.cpp:253).
FormIsNoLaxer ==
  text # None /\ verdict = "refuse" => ~RegisterAccepts(text) /\ ~LoginAccepts(text)

\* The same of the form that resets a password (LogicSystem.cpp:37,
\* ResetDialog.cpp:124).
ResetFormIsNoLaxer == text # None /\ verdict = "refuse" => ~ResetAccepts(text)
=============================================================================
