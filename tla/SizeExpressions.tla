--------------------------- MODULE SizeExpressions ---------------------------
(***************************************************************************)
(* The strings in which the client keeps the size of a buffer, and what    *)
(* the rewritten application makes of them: names are replaced by values   *)
(* in the text, and the text is then parsed and evaluated.                 *)
(*                                                                         *)
(* A string is a sequence of tokens: numbers, operators and brackets, and  *)
(* letters, of which a name is a sequence, since a name may occur within   *)
(* another.  Numbers are unbounded; '/' is left out, as isl prints none.   *)
(***************************************************************************)
EXTENDS Integers, SequencesExt

Num(k)    == <<"num", k>>
Op(c)     == <<"op", c>>
Letter(c) == <<"letter", c>>

LeftBracket  == Op("(")
RightBracket == Op(")")
Minus        == Op("-")

IsNum(t)  == t[1] = "num"
NULLString == << >>

(* std::to_string *)
Decimal(v) == IF v < 0 THEN <<Minus, Num(-v)>> ELSE <<Num(v)>>

InBrackets(s) == <<LeftBracket>> \o s \o <<RightBracket>>

(* std::string::find: the positions at which name occurs in s. *)
Occurrences(s, name) ==
  {i \in 1 .. Len(s) - Len(name) + 1 : SubSeq(s, i, i + Len(name) - 1) = name}

(* The loop that replaces a name as long as it is found.  The replacement  *)
(* starts with a bracket and contains no name, so the loop is one pass     *)
(* from left to right, whether or not the name is part of another one.     *)
(* from[i] is the text from position i on after that.                      *)
ReplaceName(s, name, by) ==
  LET at == Occurrences(s, name)
      from[i \in 1 .. Len(s) + 1] ==
        LET next == {j \in at : i <= j}
        IN  IF next = {} THEN SubSeq(s, i, Len(s))
            ELSE SubSeq(s, i, Min(next) - 1) \o by \o from[Min(next) + Len(name)]
  IN  from[1]

(* replaceWithValue *)
replaceWithValue(s, var_str, var_val) ==
  ReplaceName(s, var_str, InBrackets(Decimal(var_val)))
-----------------------------------------------------------------------------
(* TermExp: std::stol reads the number a text starts with and ignores the  *)
(* rest; a text that starts with none is 0.                                *)
TermExp(s) ==
  CASE Len(s) >= 1 /\ IsNum(s[1])                  -> s[1][2]
    [] Len(s) >= 2 /\ s[1] = Minus /\ IsNum(s[2])  -> -s[2][2]
    [] OTHER                                       -> 0

(* NodeExp::eval *)
NodeExp(op, left, right) ==
  CASE op = Op("+") -> left + right
    [] op = Op("-") -> left - right
    [] op = Op("*") -> left * right

(* The positions of a text that are in no bracket.                         *)
Closed(s, i)  == Cardinality({j \in i + 1 .. Len(s) : s[j] = RightBracket})
Opened(s, i)  == Cardinality({j \in i + 1 .. Len(s) : s[j] = LeftBracket})
OutOfBrackets(s) == {i \in DOMAIN s : Closed(s, i) = Opened(s, i)}
TopLevel(s) == {i \in OutOfBrackets(s) : s[i] \notin {LeftBracket, RightBracket}}

Sums(s) == {i \in TopLevel(s) : i # 1 /\ s[i] \in {Op("+"), Op("-")}}

(* braket_mul: an opening bracket behind anything that is no operator.     *)
braket_mul(s) ==
  {k \in DOMAIN s : /\ s[k] = LeftBracket
                    /\ Closed(s, k) = Opened(s, k) + 1
                    /\ k > 1
                    /\ s[k - 1] \notin {Op("+"), Op("-"), Op("*")}}

(* The positions at which the second loop splits the text: at a '*', or    *)
(* behind what stands to the left of such a bracket.                       *)
Products(s) ==
  {i \in TopLevel(s) : s[i] = Op("*") \/ \E k \in braket_mul(s) : i < k}

(* The bracket that closes the first one of a text with matching brackets. *)
ClosingBracket(s) ==
  Min({i \in DOMAIN s : s[i] = RightBracket /\ Closed(s, i) = Opened(s, i)})

(* createASTfromScopString and eval: the last sum outside brackets, else   *)
(* the last product, else the first bracket, else a number.                *)
Eval(text) ==
  LET value[s \in Seq(ToSet(text))] ==
        IF Sums(s) # {} THEN
          LET i == Max(Sums(s))
          IN  NodeExp(s[i], value[SubSeq(s, 1, i - 1)], value[SubSeq(s, i + 1, Len(s))])
        ELSE IF Products(s) # {} THEN
          LET i == Max(Products(s))
              bracket == \E k \in braket_mul(s) : i < k
          IN  NodeExp(Op("*"), value[SubSeq(s, 1, IF bracket THEN i ELSE i - 1)],
                               value[SubSeq(s, i + 1, Len(s))])
        ELSE IF s # NULLString /\ Head(s) = LeftBracket THEN
          value[SubSeq(s, 2, ClosingBracket(s) - 1)]
        ELSE TermExp(s)
  IN  value[text]

evaluateExpression(s) == Eval(s)
=============================================================================
