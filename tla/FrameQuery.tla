---------------------------- MODULE FrameQuery ----------------------------
(***************************************************************************)
(* ParseFrameQuery: a query such as "1,5:8,42" becomes the list of the     *)
(* frames it asks for.  Splitting and trimming are done before the loop    *)
(* starts, so a query is the sequence of its tokens, and a token is the    *)
(* sequence of the texts between its colons: << >> for an empty token,     *)
(* <<n>> for a number, <<b, e>> for a range.  A text is its value, which   *)
(* may be too large for a uint32_t, or NotANumber.                         *)
(***************************************************************************)
EXTENDS Integers, Sequences, SequencesExt

CONSTANTS
    UIntMax,          \* largest uint32_t
    Queries           \* the queries that may be typed; << >> is the empty one

NotANumber == -1      \* an empty text, or one with a character that is no digit

VARIABLES
    query,
    frames,           \* the frames stored so far, in the caller's vector
    error,            \* what the message is about, "none" if there is none
    pc,               \* "idle", "tokens", "range", "accepted" or "rejected"
    index,            \* the token at hand
    frame             \* the counter of the loop over a range

queryVars == <<query, frames, error, pc, index, frame>>

Init ==
    /\ query = << >>
    /\ frames = << >>
    /\ error = "none"
    /\ pc = "idle"
    /\ index = 1
    /\ frame = 0

(* ParseUint32 accepts a text. *)
ParsesAsUint32(text) == text \in 0 .. UIntMax

(* Both output parameters are cleared first. *)
Call(q) ==
    /\ pc \in {"idle", "accepted", "rejected"}
    /\ query' = q
    /\ frames' = << >>
    /\ index' = 1
    /\ frame' = 0
    /\ \/ q = << >> /\ error' = "empty query" /\ pc' = "rejected"
       \/ q # << >> /\ error' = "none" /\ pc' = "tokens"

Token == query[index]
AtToken == pc = "tokens" /\ index <= Len(query)

(* What is wrong with a token, if anything; the code tests in this order. *)
Complaint(token) ==
    CASE token = << >> -> "empty token"
      [] Len(token) = 1 /\ ~ ParsesAsUint32(token[1]) -> "invalid frame"
      [] Len(token) > 2 -> "only one colon"
      [] Len(token) = 2 /\ ~ (ParsesAsUint32(token[1]) /\ ParsesAsUint32(token[2])) -> "invalid range"
      [] Len(token) = 2 /\ token[1] > token[2] -> "range begin greater"
      [] OTHER -> "none"

(* The frames of the tokens before stay in the vector. *)
RejectToken ==
    /\ AtToken
    /\ Complaint(Token) # "none"
    /\ error' = Complaint(Token)
    /\ pc' = "rejected"
    /\ UNCHANGED <<query, frames, index, frame>>

SingleFrame ==
    /\ AtToken
    /\ Complaint(Token) = "none"
    /\ Len(Token) = 1
    /\ frames' = Append(frames, Token[1])
    /\ index' = index + 1
    /\ UNCHANGED <<query, error, pc, frame>>

StartRange ==
    /\ AtToken
    /\ Complaint(Token) = "none"
    /\ Len(Token) = 2
    /\ frame' = Token[1]
    /\ pc' = "range"
    /\ UNCHANGED <<query, frames, error, index>>

Incremented == (frame + 1) % (UIntMax + 1)

(* Mutant: the loop has no break; it ends only when the counter has passed *)
(* the end of the range.                                                   *)
RangeEndsByCondition == Incremented > Token[2]

(* The loop over a range is left after this frame: by the break at the     *)
(* largest number, or because the counter passes the end.                  *)
RangeEnds == frame = UIntMax \/ Incremented > Token[2]

RangeFrame ==
    /\ pc = "range"
    /\ ~ RangeEnds
    /\ frames' = Append(frames, frame)
    /\ frame' = Incremented
    /\ UNCHANGED <<query, error, pc, index>>

LastRangeFrame ==
    /\ pc = "range"
    /\ RangeEnds
    /\ frames' = Append(frames, frame)
    /\ index' = index + 1
    /\ pc' = "tokens"
    /\ UNCHANGED <<query, error, frame>>

Accept ==
    /\ pc = "tokens"
    /\ index > Len(query)
    /\ pc' = "accepted"
    /\ UNCHANGED <<query, frames, error, index, frame>>

Step == RejectToken \/ SingleFrame \/ StartRange \/ RangeFrame \/ LastRangeFrame \/ Accept
Next == (\E q \in Queries : Call(q)) \/ Step

QuerySpec == Init /\ [][Next]_queryVars

-----------------------------------------------------------------------------
(* A number, or a range that does not run backwards.                       *)
WellFormed(token) ==
    /\ Len(token) \in {1, 2}
    /\ \A i \in 1 .. Len(token) : token[i] \in 0 .. UIntMax
    /\ Len(token) = 2 => token[1] <= token[2]

(* The frames a well-formed token asks for, in order. *)
Denoted(token) ==
    IF Len(token) = 1 THEN token ELSE [i \in 1 .. token[2] - token[1] + 1 |-> token[1] + i - 1]

(* The position of the first token that is not well-formed, 0 if all are.  *)
FirstBad == SelectInSeq(query, LAMBDA token : ~ WellFormed(token))

(* What the tokens before the first bad one ask for. *)
Expansion ==
    LET good == IF FirstBad = 0 THEN query ELSE SubSeq(query, 1, FirstBad - 1)
    IN  FlattenSeq([i \in DOMAIN good |-> Denoted(good[i])])

(* At no time is there a frame in the vector that was not asked for, or    *)
(* one out of place, up to the largest uint32_t.  A query is accepted      *)
(* exactly if all of it is well-formed, and has then been expanded in      *)
(* full; of a rejected one the tokens before the first bad one have been,  *)
(* and there is a message.                                                 *)
ExpandsInOrder ==
    /\ IsPrefix(frames, Expansion)
    /\ pc = "accepted" =>
          query # << >> /\ FirstBad = 0 /\ frames = Expansion /\ error = "none"
    /\ pc = "rejected" =>
          (query = << >> \/ FirstBad # 0) /\ frames = Expansion /\ error # "none"

(* The numbers the first n tokens ask for. *)
AskedBy(n) ==
    UNION {IF Len(query[i]) = 1 THEN {query[i][1]} ELSE query[i][1] .. query[i][2] : i \in 1 .. n}

(* An accepted query has yielded every frame it asks for and no other.     *)
AcceptedAsksForAll ==
    pc = "accepted" => {frames[i] : i \in 1 .. Len(frames)} = AskedBy(Len(query))
=============================================================================
