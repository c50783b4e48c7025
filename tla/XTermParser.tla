----------------------------- MODULE XTermParser -----------------------------
(***************************************************************************)
(* The parser of the terminal's output (EscapeSequenceParser of xterm.js)  *)
(* over a stream that the server and the socket cut anywhere.  Between two *)
(* calls of parse the parser keeps its state and loses the rest: where the *)
(* run of text, or of DCS data, it is in the middle of began.              *)
(*                                                                         *)
(* Two parsers read the same stream: "whole" gets it in one call, "cut" in *)
(* any pieces.  What they have handed to the handlers is kept for the part *)
(* that only one of them has handed over.                                  *)
(***************************************************************************)
EXTENDS XTermTable

CONSTANTS
  LongestRun, \* bound of the model: of a pending run and of DCS data
  Longest     \* bound of the model: of an OSC string, parameters and collected characters

VARIABLES whole, cut

parserVars == <<whole, cut>>

-----------------------------------------------------------------------------
\* What a handler is called with.  A DCS handler (DECRQSS) puts the data of
\* its hook together and uses it at the unhook.
Event(kind, code, params, text) == [kind |-> kind, code |-> code, params |-> params, text |-> text]

\* print and dcs are the pending runs, empty for -1.
Initial ==
  [state |-> 0, osc |-> <<>>, params |-> <<0>>, collect |-> <<>>,
   print |-> <<>>, dcs |-> <<>>, data |-> <<>>, out |-> <<>>]

\* A run is handed over as it is in the data, codes without a transition in it
\* included.
Printed(run) == [i \in DOMAIN run |-> Event("print", run[i], <<>>, <<>>)]

\* Mutant: the run is not handed over at the end of a call.
EndLost(p) == [p EXCEPT !.print = <<>>, !.dcs = <<>>]

\* The end of parse(data).
End(p) ==
  [p EXCEPT !.out = IF p.state = 0 THEN @ \o Printed(p.print) ELSE @,
            !.data = IF p.state = 13 THEN @ \o p.dcs ELSE @,
            !.print = <<>>, !.dcs = <<>>]

Param(params, c) ==
  IF c = 59 THEN Append(params, 0)
  ELSE [params EXCEPT ![Len(params)] = @ * 10 + c - 48]

\* One code, as the loop of parse handles it.  What is kept of DCS data that
\* CAN or another string broke off is left out: the next hook forgets it.
parse(p, c) ==
  LET action == Transitions[p.state][c][1]
      text == action = "error" /\ c >= 160
      state == IF text THEN (IF p.state \in {0, 6, 8, 11, 13} THEN p.state ELSE 0)
               ELSE IF action \in {"osc_end", "dcs_unhook"} /\ c = 27 THEN 1
               ELSE Transitions[p.state][c][2]
      flush == action \in {"execute", "ignore", "clear", "osc_start"}
      finish == action \in {"clear", "osc_end", "dcs_unhook"}
      prints == action = "print" \/ (text /\ state = 0 /\ p.state = 0)
      call == CASE action = "execute"      -> <<Event("execute", c, <<>>, <<>>)>>
                [] action = "csi_dispatch" -> <<Event("csi", c, p.params, p.collect)>>
                [] action = "esc_dispatch" -> <<Event("esc", c, <<>>, p.collect)>>
                [] action = "dcs_hook"     -> <<Event("hook", c, p.params, p.collect)>>
                [] action = "dcs_unhook"   -> <<Event("unhook", 0, <<>>, p.data \o p.dcs)>>
                [] action = "osc_end" /\ p.osc # <<>> /\ c \notin {24, 26}
                                           -> <<Event("osc", 0, <<>>, p.osc)>>
                [] OTHER                   -> <<>>
  IN  [state |-> state,
       osc |-> IF finish \/ action = "osc_start" THEN <<>>
               ELSE IF state = 8 /\ (text \/ action = "osc_put") THEN Append(p.osc, c)
               ELSE p.osc,
       params |-> IF finish THEN <<0>> ELSE IF action = "param" THEN Param(p.params, c) ELSE p.params,
       collect |-> IF finish THEN <<>> ELSE IF action = "collect" THEN Append(p.collect, c) ELSE p.collect,
       print |-> IF flush THEN <<>> ELSE IF prints \/ p.print # <<>> THEN Append(p.print, c) ELSE <<>>,
       dcs |-> IF state # 13 \/ action \in {"ignore", "dcs_hook"} THEN <<>> ELSE Append(p.dcs, c),
       data |-> IF state # 13 \/ action = "dcs_hook" THEN <<>>
                ELSE IF action = "ignore" THEN p.data \o p.dcs ELSE p.data,
       out |-> p.out \o (IF flush THEN Printed(p.print) ELSE <<>>) \o call]

-----------------------------------------------------------------------------
\* A code of no width and without a transition: behind text of the same call
\* print puts it into the cell of that text, elsewhere the parser ignores it.
Joins(call) == call.kind = "print" /\ call.code \in 28 .. 31

\* What the handlers are given, apart from those codes.
Seen(calls) ==
  LET upTo[i \in 0 .. Len(calls)] ==
        IF i = 0 THEN <<>>
        ELSE IF Joins(calls[i]) THEN upTo[i - 1] ELSE Append(upTo[i - 1], calls[i])
  IN  upTo[Len(calls)]

\* Only what one of the two has handed over is kept.
Rest(p, q) ==
  LET s == Seen(p.out)
      t == Seen(q.out)
      common == CHOOSE n \in 0 .. Len(s) :
                  /\ IsPrefix(SubSeq(s, 1, n), t)
                  /\ n < Len(s) => ~IsPrefix(SubSeq(s, 1, n + 1), t)
  IN  [p EXCEPT !.out = SubSeq(s, common + 1, Len(s))]

Short(p) ==
  /\ Len(p.print) <= LongestRun /\ Len(p.dcs) <= LongestRun /\ Len(p.data) <= LongestRun
  /\ Len(p.osc) <= Longest /\ Len(p.collect) <= Longest /\ Len(p.params) <= Longest
  /\ \A i \in DOMAIN p.params : p.params[i] < 10

ParserInit == whole = Initial /\ cut = Initial

Read ==
  \E c \in Bytes :
    LET p == parse(whole, c)
        q == parse(cut, c)
    IN  /\ Short(p) /\ Short(q)
        /\ whole' = Rest(p, q) /\ cut' = Rest(q, p)

CutHere == cut' = Rest(End(cut), whole) /\ whole' = Rest(whole, End(cut))

ParserNext == Read \/ CutHere

ParserSpec == ParserInit /\ [][ParserNext]_parserVars

-----------------------------------------------------------------------------
\* Where the stream is cut makes no difference to the handlers, but for one
\* thing: at the end of a call both have been given the same text, the same
\* sequences with the same parameters, and the same DCS data, in the same order,
\* apart from the codes 28 to 31.  Those reach print only if text of the same
\* call comes before them, so they do depend on the cut.
CutsUnseen ==
  /\ Seen(End(whole).out) = Seen(End(cut).out)
  /\ whole.state = cut.state /\ whole.osc = cut.osc
  /\ whole.params = cut.params /\ whole.collect = cut.collect
=============================================================================
