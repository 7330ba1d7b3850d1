------------------------------ MODULE UrlList ------------------------------
(***************************************************************************)
(* packages/shared/src/url.ts: what counts as a URL, its normal form, and  *)
(* parseUrlList.                                                           *)
(*                                                                         *)
(* A text is the sequence of its pieces, as split at newlines and commas.  *)
(* A piece is Blank or a record of the parts the code tells apart: the     *)
(* scheme, the host and whether it is written with capitals, the port, the *)
(* path ("more" is any but "/"), the query ("empty" is a bare "?") and     *)
(* whether there is a fragment.  A normal form is such a record too, for   *)
(* the worker parses it again.                                             *)
(***************************************************************************)
EXTENDS Naturals, Sequences, SequencesExt

CONSTANTS
  Hosts,  \* host names, in lower case
  Blank   \* a piece of white space or nothing

Written == [scheme   : {"none", "http", "https", "other"},
            host     : Hosts,
            capitals : BOOLEAN,
            port     : {"none", "80", "443", "other", "malformed"},
            path     : {"none", "/", "more"},
            query    : {"none", "empty", "some"},
            fragment : BOOLEAN]

ASSUME BlankAssumption == Blank \notin Written

Pieces == Written \cup {Blank}

\* What .filter leaves of a sequence.  (A recursive function, as the proofs need;
\* SelectSeq is opaque to the prover.)
Kept(list, x, dropped) == IF x = dropped THEN list ELSE Append(list, x)

Without(s, dropped) ==
  LET kept[n \in 0 .. Len(s)] == IF n = 0 THEN <<>> ELSE Kept(kept[n - 1], s[n], dropped)
  IN  kept[Len(s)]

-----------------------------------------------------------------------------
(* normalizeUrl *)

\* https:// is put before a piece that names no scheme.
WithScheme(p) == IF p.scheme = "none" THEN [p EXCEPT !.scheme = "https"] ELSE p

DefaultPort(u) == \/ u.scheme = "https" /\ u.port = "443"
                  \/ u.scheme = "http" /\ u.port = "80"

\* new URL(...) of a text with a scheme throws, or gives a host in lower
\* case, no default port, and a path.
Parses(u) == u.scheme # "none" /\ u.port # "malformed"
Parsed(u) ==
  [u EXCEPT !.capitals = FALSE,
            !.port = IF DefaultPort(u) THEN "none" ELSE u.port,
            !.path = IF u.path = "none" THEN "/" ELSE u.path]

\* ALLOWED_PROTOCOLS
Allowed(scheme) == scheme \in {"http", "https"}

Valid(p) == p # Blank /\ Parses(WithScheme(p)) /\ Allowed(WithScheme(p).scheme)

\* The slash of a bare path goes, unless a query follows.  (A bare "?" is an
\* empty search, but the text then does not end in a slash.)
Stripped(u) ==
  IF u.path = "/" /\ u.query = "none" THEN [u EXCEPT !.path = "none"] ELSE u

\* Mutant of Normal: the fragment stays.
NormalWithFragment(p) == Stripped(Parsed(WithScheme(p)))

\* Mutant of Normal: what is parsed is the piece as it was written.
NormalAsWritten(p) == [Stripped(Parsed(p)) EXCEPT !.fragment = FALSE]

Normal(p) == Stripped([Parsed(WithScheme(p)) EXCEPT !.fragment = FALSE])

-----------------------------------------------------------------------------
(* parseUrlList *)

Lines(text) == Without(text, Blank)

NothingParsed == [valid |-> <<>>, invalid |-> <<>>, duplicates |-> <<>>, seen |-> {}]

ParsedLine(list, p) ==
  IF ~Valid(p) THEN [list EXCEPT !.invalid = Append(@, p)]
  ELSE IF Normal(p) \in list.seen
       THEN [list EXCEPT !.duplicates = Append(@, Normal(p))]
       ELSE [list EXCEPT !.valid = Append(@, [url |-> p, normalized |-> Normal(p)]),
                         !.seen = @ \cup {Normal(p)}]

ParseUrlList(text) ==
  LET lines == Lines(text)
      list[n \in 0 .. Len(lines)] ==
        IF n = 0 THEN NothingParsed ELSE ParsedLine(list[n - 1], lines[n])
  IN  list[Len(lines)]

=============================================================================
