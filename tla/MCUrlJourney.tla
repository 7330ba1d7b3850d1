---------------------------- MODULE MCUrlJourney ----------------------------
EXTENDS UrlJourney

Piece(scheme, host, port, path) ==
  [scheme |-> scheme, host |-> host, capitals |-> FALSE, port |-> port,
   path |-> path, query |-> "none", fragment |-> FALSE]

\* Spellings of two URLs, and some that are none.
Plain    == Piece("none", "a.com", "none", "none")
Spelled  == [Piece("https", "a.com", "443", "/") EXCEPT !.capitals = TRUE, !.fragment = TRUE]
Queried  == [Piece("https", "a.com", "none", "/") EXCEPT !.query = "empty"]
Other    == Piece("http", "b.com", "none", "more")
Third    == Piece("http", "a.com", "443", "none")
Ftp      == Piece("other", "a.com", "none", "none")
Script   == Piece("none", "b.com", "malformed", "none")

MCHosts == {"a.com", "b.com", "localhost", "8.8.8.8", "10.0.0.1"}

MCTexts == {<<Plain, Blank, Spelled, Other>>, <<Plain, Queried, Third, Third>>,
            <<Ftp, Script>>, <<Blank>>, <<Blank, Blank>>}
MCBodies == {<<>>, << <<>>, <<Plain>> >>, << <<Plain, Other>>, <<Spelled, Queried>> >>,
             << <<Spelled>>, <<Script>>, <<Plain>> >>, << <<Ftp>> >>,
             << <<Plain>>, <<Other>>, <<Queried>>, <<Third>> >>,
             << <<Plain>>, <<Plain>>, <<Plain>>, <<Plain>>, <<Plain>> >>}

File(kind, header, records) == [kind |-> kind, header |-> header, records |-> records]
MCFiles == {File("tooLarge", <<>>, <<>>), File("csv", <<"url">>, <<>>),
            File("csv", <<"other", "url">>, << << <<Blank>>, <<Plain>> >>, << <<Ftp>> >>,
                                             << <<Blank>>, <<Other, Spelled>> >> >>),
            File("csv", <<"other", "url">>, << << <<Ftp>> >>, << <<Ftp>>, <<Plain>> >> >>),
            File("csv", <<"other">>, << << <<Plain>>, <<Ftp>> >>, << <<Other>> >> >>),
            File("csv", <<"URL", "url">>, << << <<Plain>>, <<Ftp>> >>, << <<Other>> >> >>),
            File("csv", <<"url", "url">>, << << <<Ftp>>, <<Plain>> >>, << <<Other>> >> >>)}

MCLocalHosts == {"localhost"}
V4(a, b, c) == [kind |-> "ipv4", first |-> a, second |-> b, third |-> c]
V6(first, second, rest) ==
  [kind |-> "ipv6", first |-> first, second |-> second, rest |-> rest]
Eights == V4(8, 8, 8)
Tens   == V4(10, 0, 0)
MCLiterals == [h \in {"8.8.8.8", "10.0.0.1"} |-> IF h = "8.8.8.8" THEN Eights ELSE Tens]

\* Both sides of every boundary that the guard or the registry draws.
Boundaries ==
  {V4(x[1], x[2], x[3]) : x \in
     ({0, 1, 9, 10, 11, 126, 127, 128, 223, 224, 255} \X {0, 255} \X {0, 255})
     \cup ({100} \X {63, 64, 127, 128} \X {0, 255})
     \cup ({169} \X {253, 254, 255} \X {0, 255})
     \cup ({172} \X {15, 16, 31, 32} \X {0, 255})
     \cup ({192} \X {0} \X {0, 1, 2, 3, 255}) \cup ({192} \X {1, 167, 168, 169} \X {0, 255})
     \cup ({192} \X {88} \X {98, 99, 100}) \cup ({198} \X {51} \X {99, 100, 101})
     \cup ({203} \X {0} \X {112, 113, 114}) \cup ({198} \X {17, 18, 19, 20} \X {0, 255})
     \cup {<<99, 64, 0>>, <<173, 16, 0>>, <<191, 168, 0>>}}
  \cup {[V4(a, 0, 0) EXCEPT !.kind = "mapped"] : a \in {8, 10}}
  \cup {V6(g, 0, r) : g \in {0, 252, 8191, 8192, 16382, 16384, 64511, 64512, 65023, 65024,
                             65151, 65152, 65215, 65216, 65279, 65280, 65535}, r \in {0, 1, 2}}
  \cup {V6(0, 1, 0), V6(8194, 65535, 2), V6(8195, 0, 2)}
  \cup {V6(8193, s, 2) : s \in {0, 511, 512, 3511, 3512, 3513}}
  \cup {V6(16383, s, 2) : s \in {4095, 4096}}
MCAnswers == {{}, {Eights, V6(9728, 0, 2)}, {Eights, Tens}} \cup {{x} : x \in Boundaries}

MCLocations ==
  {Piece("https", "8.8.8.8", "none", "/"), Piece("http", "10.0.0.1", "none", "/"),
   Piece("https", "b.com", "none", "/"), Piece("http", "localhost", "none", "/"),
   Piece("none", "a.com", "none", "more"), Ftp, Piece("https", "b.com", "malformed", "/")}
=============================================================================
