---------------------------- MODULE MCLogManager ----------------------------
(***************************************************************************)
(* LogManager for TLC, with two bits per level and two levels, so that a   *)
(* counter overflows with the fourth name of its level.  Numbers are       *)
(* written in binary, so that sink s1 of file 1 and sink s of file 3 have  *)
(* one key.                                                                *)
(***************************************************************************)
EXTENDS LogManager

MCLexical(n) == <<"1", "10", "11", "100", "101", "110", "111", "1000",
                  "1001">>[n]

Sink(name) == [name |-> name, bad |-> FALSE]
Logger(name, names) == [name |-> name, leaf |-> TRUE, sinks |-> names,
                        bad |-> FALSE]
BadLogger(name) == [name |-> name, leaf |-> TRUE, sinks |-> {"s"}, bad |-> TRUE]
Section(name) == [name |-> name, leaf |-> FALSE, sinks |-> {}, bad |-> FALSE]
Config(ss, ls) == [open |-> TRUE, sinks |-> ss, loggers |-> ls]

Core == Config(<<Sink("s")>>, <<Logger(Root, {"s"})>>)
Feeder == Config(<<Sink("s"), Sink("t")>>,
               <<Section(<<"A">>), Logger(<<"A", "x">>, {"s", "t"}),
                 Logger(<<"B">>, {"t", "u"})>>)
Upper == Config(<<Sink("t")>>, <<Logger(<<"A">>, {"t"}),
                               Section(<<"B">>), Logger(<<"B", "y">>, {"t"})>>)
Many == Config(<<Sink("t")>>,
             <<Section(<<"A">>), Logger(<<"A", "y">>, {"t"}),
               Logger(<<"A", "z">>, {}),
               Section(<<"C">>), Logger(<<"C", "x">>, {"t"})>>)
Top == Config(<<Sink("t")>>, <<Logger(<<"C">>, {"t"}), Logger(<<"D">>, {"t"})>>)
Broken == Config(<<Sink("t")>>,
               <<Section(<<"A">>), Logger(<<"A", "y">>, {"t"}),
                 BadLogger(<<"B">>)>>)
BadRoot == Config(<<Sink("s")>>, <<BadLogger(Root)>>)
BadSink == Config(<<Sink("s"), [name |-> "t", bad |-> TRUE]>>, <<>>)
Numbered == Config(<<Sink("s1")>>, <<Logger(<<"D">>, {"s1"})>>)
Deep == Config(<<>>, <<Section(<<"A">>), Section(<<"A", "x">>),
                     Logger(<<"A", "x", "q">>, {"s"})>>)
BadNumbered == Config(<<Sink("s1"), [name |-> "t", bad |-> TRUE]>>, <<>>)
Empty == Config(<<>>, <<>>)
Bare == Config(<<>>, <<Logger(<<"D">>, {"s"})>>)
Unreadable == [open |-> FALSE, sinks |-> <<>>, loggers |-> <<>>]

MCConfigs == {<<Core, Feeder>>, <<Feeder, Unreadable, Upper>>, <<Core>>,
              <<Upper, Feeder>>, <<Feeder>>, <<Many>>, <<Top>>, <<Broken>>,
              <<BadRoot>>, <<BadSink>>, <<Numbered, Core>>, <<Deep>>,
              <<BadNumbered>>, <<Empty, Bare>>}

MCNames == {Root, <<"A">>, <<"A", "x">>, <<"A", "y", "p">>, <<"B", "y">>,
            <<"C">>, <<"D">>, <<"", "A">>}
=============================================================================
