-------------------------------- MODULE Lexer --------------------------------
(***************************************************************************)
(* lexer/Lexer.cpp: tokenize, one action per kind of token.  A token is    *)
(* its text.  Each action first skips white space and comments, as the     *)
(* loop of tokenize does.                                                  *)
(***************************************************************************)
EXTENDS Syntax, FiniteSetsExt

CONSTANT Sources         \* the texts, strings

VARIABLES text, at,      \* the text and the position in it
          out,           \* the tokens so far
          lexed          \* "lexing", "lexed" or "lexical error"

lexVars == <<text, at, out, lexed>>

(* peek; the empty string stands for the character 0 past the end.         *)
Char(p) == IF p =< Len(text) THEN SubSeq(text, p, p) ELSE ""
End == Len(text) + 1

(* White space that a TLA+ string can hold, and a character of no token.   *)
Blanks == {" ", "\t", "\r", "\n", "\f"}
Unknown == {"@"}

Digits == DOMAIN Digit
Punctuation == {"(", ")", "{", "}", ";", ",", "+", "-", "*", "/", "%", "=", "!", "<", ">"}
Second == [c \in {"=", "!", "<", ">", "&", "|"} |-> IF c \in {"&", "|"} THEN c ELSE "="]
Marks == Blanks \cup Unknown \cup Punctuation \cup DOMAIN Second \cup {""}

IsDigit(c) == c \in Digits
IsAlpha(c) == c \notin Digits \cup Marks

(* Where what starts at p ends.                                            *)
EndOfLine(p) == CHOOSE q \in p .. End :
                  (q = End \/ Char(q) = "\n") /\ \A r \in p .. q - 1 : Char(r) # "\n"

Closes(q) == Char(q) = "*" /\ Char(q + 1) = "/"
EndOfComment(p) == CHOOSE q \in p .. Max({p, End}) :
                     (q >= End \/ Closes(q)) /\ \A r \in p .. q - 1 : ~Closes(r)

EndOfDigits(p) == CHOOSE q \in p .. End :
                    ~IsDigit(Char(q)) /\ \A r \in p .. q - 1 : IsDigit(Char(r))

IsAlnum(c) == IsAlpha(c) \/ IsDigit(c)
EndOfWord(p) == CHOOSE q \in p .. End :
                  ~IsAlnum(Char(q)) /\ \A r \in p .. q - 1 : IsAlnum(Char(r))

RECURSIVE SkipTrivia(_)

(* Where the next token starts; past the end in an unterminated comment.   *)
SkipTrivia_Overlap(p) ==                \* mutant: the opening star may close the comment
  CASE Char(p) \in Blanks -> SkipTrivia(p + 1)
    [] Char(p) = "/" /\ Char(p + 1) = "/" -> SkipTrivia(EndOfLine(p))
    [] Char(p) = "/" /\ Char(p + 1) = "*" -> SkipTrivia(EndOfComment(p + 1) + 2)
    [] OTHER -> p

SkipTrivia(p) ==
  CASE Char(p) \in Blanks -> SkipTrivia(p + 1)
    [] Char(p) = "/" /\ Char(p + 1) = "/" -> SkipTrivia(EndOfLine(p))
    [] Char(p) = "/" /\ Char(p + 1) = "*" -> SkipTrivia(EndOfComment(p + 2) + 2)
    [] OTHER -> p

(* The next token is the text up to position q.                            *)
Push(p, q) ==
  /\ out' = Append(out, SubSeq(text, p, q - 1))
  /\ at' = q
  /\ UNCHANGED <<text, lexed>>

Starting == IF lexed = "lexing" THEN {SkipTrivia(at)} ELSE {}

TakeWord ==
  \E p \in Starting : IsAlpha(Char(p)) /\ Push(p, EndOfWord(p))

TakeNumber ==
  \E p \in Starting : IsDigit(Char(p)) /\ Push(p, EndOfDigits(p))

Doubled(p) == Char(p) \in DOMAIN Second /\ Char(p + 1) = Second[Char(p)]

TakeDouble ==
  \E p \in Starting : Doubled(p) /\ Push(p, p + 2)

TakeSingle ==
  \E p \in Starting : Char(p) \in Punctuation /\ ~Doubled(p) /\ Push(p, p + 1)

EndOfText ==
  /\ End \in Starting
  /\ out' = Append(out, Eof) /\ lexed' = "lexed" /\ at' = End
  /\ UNCHANGED text

(* A comment that does not end, or a character no token starts with.       *)
LexicalError ==
  /\ \E p \in Starting :
       \/ p > End
       \/ p < End /\ Char(p) \in Marks \ Punctuation /\ ~Doubled(p)
  /\ lexed' = "lexical error"
  /\ UNCHANGED <<text, at, out>>

LexInit == text \in Sources /\ at = 1 /\ out = << >> /\ lexed = "lexing"

LexNext == TakeWord \/ TakeNumber \/ TakeDouble \/ TakeSingle \/ EndOfText \/ LexicalError
=============================================================================
