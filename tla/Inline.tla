------------------------------- MODULE Inline -------------------------------
(***************************************************************************)
(* What of a content is shown inline: encode of the MCP server             *)
(* (internal/mcp/content.go) and encodeContent of the plugin               *)
(* (dsh-plugin-readproof/src/content.ts), which is to mirror it.           *)
(*                                                                         *)
(* A byte is one of its classes: "ascii", "nul", the lead byte of a        *)
(* sequence of two, three or four ("lead2" ...), "cont", a continuation    *)
(* byte, or "bad", which UTF-8 has not.  The marker appended to a          *)
(* truncated text is left out: it tells shown, total and the hash.         *)
(*                                                                         *)
(* X_bug is X as a plausible mistake would have it, used by no             *)
(* specification; the README names the property it breaks.                 *)
(***************************************************************************)
EXTENDS Integers, Sequences, FiniteSets, FiniteSetsExt

CONSTANT
    DefaultMaxInlineBytes  \* shown of a content when no cap is configured

ASSUME SomeBytesAreShown == DefaultMaxInlineBytes \in Nat \ {0}

ByteClasses == {"ascii", "nul", "lead2", "lead3", "lead4", "cont", "bad"}

ContentTypes ==
    {"text/plain", "application/json", "image/svg+xml", "image/png",
     "application/octet-stream", ""}

\* Bytes in the sequence that a byte opens.
sequenceLength(byte) ==
    CASE byte = "lead2" -> 2 [] byte = "lead3" -> 3 [] byte = "lead4" -> 4
      [] OTHER -> 1

Prefix(b, n) == SubSeq(b, 1, n)

IsRune(s) ==
    /\ s[1] \notin {"cont", "bad"}
    /\ Len(s) = sequenceLength(s[1])
    /\ \A i \in 2 .. Len(s) : s[i] = "cont"

\* utf8.DecodeLastRune finds a rune at the end.
EndsWithRune(b) ==
    \E k \in 1 .. 4 : k <= Len(b) /\ IsRune(SubSeq(b, Len(b) - k + 1, Len(b)))

\* The lengths at which whole runes end.
RuneEnds(b) ==
    LET ends[n \in 0 .. Len(b)] ==
            \/ n = 0
            \/ \E k \in 1 .. 4 : k <= n /\ IsRune(SubSeq(b, n - k + 1, n))
                                        /\ ends[n - k]
    IN  {n \in 0 .. Len(b) : ends[n]}

\* utf8.Valid
Valid(b) == Len(b) \in RuneEnds(b)

-----------------------------------------------------------------------------
(* content.go *)

\* A type that says nothing lets the bytes decide.
isTextual(contentType, content) ==
    \/ contentType \in {"text/plain", "application/json", "image/svg+xml"}
    \/ /\ contentType \in {"", "application/octet-stream"}
       /\ Valid(content)
       /\ \A i \in DOMAIN content : content[i] # "nul"

\* Bytes are dropped until the last rune is whole.
trimToRuneBoundary(b) ==
    Prefix(b, Max({0} \cup {n \in 1 .. Len(b) : EndsWithRune(Prefix(b, n))}))

Limit(maxBytes) == IF maxBytes > 0 THEN maxBytes ELSE DefaultMaxInlineBytes

encode_sniffsPrefix(content, contentType, maxBytes) ==
    LET truncated == Len(content) > Limit(maxBytes)
        capped    == IF truncated THEN Prefix(content, Limit(maxBytes)) ELSE content
        textual   == isTextual(contentType, capped)
    IN  [encoding   |-> IF textual THEN "utf-8" ELSE "base64",
         shown      |-> IF textual /\ truncated THEN trimToRuneBoundary(capped)
                        ELSE capped,
         truncated  |-> truncated,
         totalBytes |-> Len(content)]

encode(content, contentType, maxBytes) ==
    LET truncated == Len(content) > Limit(maxBytes)
        capped    == IF truncated THEN Prefix(content, Limit(maxBytes)) ELSE content
        textual   == isTextual(contentType, content)
    IN  [encoding   |-> IF textual THEN "utf-8" ELSE "base64",
         shown      |-> IF textual /\ truncated THEN trimToRuneBoundary(capped)
                        ELSE capped,
         truncated  |-> truncated,
         totalBytes |-> Len(content)]

-----------------------------------------------------------------------------
(* content.ts.  The SDK has decoded the bytes to a text, so these are the  *)
(* bytes of a valid one.                                                   *)

\* Back over continuation bytes, at most three; the sequence that starts there
\* is dropped when it does not end within the cap.
trimToBoundary(b) ==
    LET stops == {p \in 1 .. Len(b) : p <= Len(b) - 3 \/ b[p] # "cont"}
        lead  == Max({0} \cup stops)
    IN  IF lead = 0 \/ lead - 1 + sequenceLength(b[lead]) <= Len(b) THEN b
        ELSE Prefix(b, lead - 1)

encodeContent(content, maxBytes) ==
    IF Len(content) <= Limit(maxBytes)
    THEN [encoding |-> "utf-8", shown |-> content, truncated |-> FALSE,
          totalBytes |-> Len(content)]
    ELSE [encoding |-> "utf-8", shown |-> trimToBoundary(Prefix(content, Limit(maxBytes))),
          truncated |-> TRUE, totalBytes |-> Len(content)]

-----------------------------------------------------------------------------
(* Properties *)

\* Of a text both show the longest prefix of whole runes within the cap, at most
\* three bytes short of it, and say that it is one exactly when it is; of other
\* bytes the server shows the prefix that the cap allows.  Whether they are text
\* is decided by all of them, not by what is shown.
ContentIsShown(content, contentType, maxBytes) ==
    LET go    == encode(content, contentType, maxBytes)
        ts    == encodeContent(content, maxBytes)
        whole == {n \in RuneEnds(content) : n <= Limit(maxBytes)}
    IN  /\ go.totalBytes = Len(content)
        /\ go.truncated <=> go.shown # content
        /\ contentType = "" =>
              (go.encoding = "utf-8"
                  <=> Valid(content) /\ \A i \in DOMAIN content : content[i] # "nul")
        /\ Valid(content) =>
              /\ go.encoding = "utf-8" =>
                    /\ go.shown = Prefix(content, Max(whole))
                    /\ go.truncated => Len(go.shown) > Limit(maxBytes) - 4
                    /\ ts = go
              /\ ts.shown = Prefix(content, Max(whole))
        /\ go.encoding = "base64" =>
              go.shown = Prefix(content, Min({Len(content), Limit(maxBytes)}))
=============================================================================
