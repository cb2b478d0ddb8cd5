----------------------------- MODULE MCJsonText -----------------------------
(***************************************************************************)
(* JsonText for TLC: beginnings that reach into lists, strings and         *)
(* comments, and every continuation of them by a few pieces.               *)
(***************************************************************************)
EXTENDS JsonText

A   == <<97>>
One == <<49>>
Key == <<Quote, 97, Quote, Colon>>

MCSeeds ==
  {<<>>, <<239, 187, 191>>, <<LBracket>>, <<LBrace>>, <<Quote>>, <<LBracket, 49, Comma>>,
   <<LBrace>> \o Key, <<LBrace>> \o Key \o <<LBracket>>, <<LBrace>> \o Key \o <<49, Comma>>,
   <<LBracket, LBracket>>, <<LBracket, Quote, Backslash>>,
   <<LBracket, Quote, Backslash, Backslash, Backslash>>,
   <<LBracket, Slash>>, <<LBracket, Slash, 42>>, <<LBracket, Quote, Slash>>}

MCPieces ==
  {<<LBracket>>, <<RBracket>>, <<LBrace>>, <<RBrace>>, <<Comma>>, <<Colon>>, <<Quote>>, <<Backslash>>,
   <<32>>, <<1>>, <<10>>, <<Slash>>, <<42, Slash>>, <<Minus>>, One, A, <<110>>, Literals.null, Key,
   <<Backslash, 117, 100, 56, 48, 48>>, <<Backslash, 117, 100, 99, 48, 48>>,  \* \ud800, \udc00
   <<Backslash, 117, 50, 48, 97, 99>>, <<Backslash, 117, 48, 48, 48, 48>>}    \* \u20ac, \u0000

=============================================================================
