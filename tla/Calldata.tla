------------------------------ MODULE Calldata ------------------------------
(***************************************************************************)
(* The calldata the swap builder encodes and the executor patches.         *)
(*                                                                         *)
(* Calldata is a four byte selector followed by 32 byte words.  A call is  *)
(* a record; the numeric words that matter are kept by name in .words, the *)
(* addresses in .tokenIn, .tokenOut and .recipient.  The executor does not *)
(* know the names: it overwrites whatever word starts at a byte offset, so *)
(* the position of each word is part of the model.                         *)
(***************************************************************************)
EXTENDS Integers, Sequences

(* Words by position, for each function the builder encodes a call of.     *)
Layout ==
  [ v2       |-> << "amountIn", "amountOutMin", "path", "to", "deadline",
                    "pathLength", "tokenIn", "tokenOut" >>,
    v3       |-> << "tokenIn", "tokenOut", "fee", "recipient", "deadline",
                    "amountIn", "amountOutMin", "sqrtPriceLimit" >>,
    v3r02    |-> << "tokenIn", "tokenOut", "fee", "recipient",
                    "amountIn", "amountOutMin", "sqrtPriceLimit" >>,
    deposit  |-> << >>,
    withdraw |-> << "amountIn" >> ]

Kinds     == {"v2", "v3", "v3r02", "deposit", "withdraw"}
SwapKinds == {"v2", "v3", "v3r02"}

(* The words whose value the model keeps.                                  *)
Numbers == {"amountIn", "amountOutMin", "deadline"}

DataLength(kind) == 4 + 32 * Len(Layout[kind])

(* The name of the word that starts at the byte offset; an offset that is  *)
(* not the start of a word straddles two of them.                          *)
WordAt(kind, offset) ==
  IF (offset - 4) % 32 = 0 THEN Layout[kind][(offset - 4) \div 32 + 1] ELSE "straddled"

(* mstore(data + 32 + offset, amount): the word at the offset, whichever   *)
(* it is, now holds the amount.                                            *)
Overwrite(c, amount) ==
  [w \in Numbers |-> IF w = WordAt(c.kind, c.injectOffset) THEN amount ELSE c.words[w]]
=============================================================================
