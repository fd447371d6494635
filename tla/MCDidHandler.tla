---------------------------- MODULE MCDidHandler ----------------------------
EXTENDS DidHandler

GuiDoes(r, w, a, s) == [reads |-> r, writes |-> w, aborts |-> a, shows |-> s]

ReadsOnly  == {GuiDoes(2, 0, 0, 0)}
WritesOnly == {GuiDoes(0, 2, 0, 0)}
Together   == {GuiDoes(2, 0, 1, 0), GuiDoes(2, 0, 0, 1), GuiDoes(1, 1, 0, 0), GuiDoes(0, 2, 0, 0)}
=============================================================================
