---------------------------- MODULE MCWindowSync ----------------------------
EXTENDS WindowSync

Span(id, readable, at, model, i, o) ==
  [id |-> id, readable |-> readable, at |-> at, model |-> model, input |-> i, output |-> o]
Says(shape, lasts, i, o, spans) ==
  [shape |-> shape, lasts |-> lasts, input |-> i, output |-> o, spans |-> spans]

\* Row 1 grows, by a second span that starts at its end, and its usage has to
\* be salvaged and its content clipped; row 2 is corrupt beyond rescue; the
\* summary of row 3 has no roll-up, and one of its spans does not parse; row 4
\* is too large and row 5 has no instant. Rows 1 to 3 start together: two pages
\* of them, the second one shared with row 4.
MCStartOf == <<0, 0, 0, 1, 1>>
MCWritesOf ==
  <<<<Says("whole", 0, -1, 0, {Span(1, TRUE, 0, "m1", 1, 0)}),
      Says("whole", 1, -1, 1, {Span(1, TRUE, 0, "m1", 1, 0), Span(2, TRUE, 1, "m2", 1, 1)})>>,
    <<Says("whole", 0, 1, -1, {Span(3, TRUE, 0, "m1", 1, 0)})>>,
    <<Says("whole", 1, 0, 1, {Span(4, TRUE, 1, "m1", 2, 0), Span(5, FALSE, 0, "m2", 1, 0)})>>,
    <<Says("whole", 0, 1, 1, {Span(6, TRUE, 1, "m2", 1, 1)})>>,
    <<Says("undated", 0, 1, 1, {})>>>>
Bytes(s, c, e, r) == [spans |-> s, content |-> c, errors |-> e, rest |-> r]
MCBytesOf == <<Bytes(2, 2, 1, 2), Bytes(1, 0, 0, 1), Bytes(1, 1, 0, 1), Bytes(0, 0, 3, 4), Bytes(1, 1, 1, 1)>>
MCWindows == {[from |-> 0, to |-> 2]}
=============================================================================
