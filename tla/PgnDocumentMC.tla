---------------------------- MODULE PgnDocumentMC ----------------------------
(* A game with two variations of one move, one of them with a note and a       *)
(* variation of its own, and with a comment after its result.                  *)
EXTENDS PgnDocument

CONSTANTS m1, m2, m3, m4, m5, m6, hint, remark, won, drawn, event, other

Numbered == Line(<<Move(m3, TRUE, 0), Move(m4, FALSE, 1)>>, <<hint>>, drawn)

Unmarked == Line(<<Move(m5, FALSE, 0)>>, <<hint>>, None)

Game == [tag |-> event, result |-> won,
         line |-> (<<>> :> [Line(<<Move(m1, TRUE, 0), Move(m2, FALSE, 2)>>, <<>>, won)
                               EXCEPT !.trail = <<remark>>])
               @@ (<<<<2, 1>>>> :> Numbered)
               @@ (<<<<2, 1>>, <<2, 1>>>> :> Line(<<Move(m6, TRUE, 0)>>, <<>>, None))
               @@ (<<<<2, 2>>>> :> Unmarked)]

TheDocument == <<Game>>

Pasted == {<<[tag |-> event, result |-> drawn,
              line |-> <<>> :> Line(<<Move(m1, TRUE, 0)>>, <<>>, drawn)]>>}

NewLines == {<<>> :> Line(<<Move(m5, TRUE, 0)>>, <<>>, None)}

NewNotes == {<<>>, <<hint>>}
=============================================================================
