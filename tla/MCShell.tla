------------------------------ MODULE MCShell -------------------------------
(* Lines of every kind the shell tells apart, for three processes.          *)
EXTENDS Shell

Lines ==
  {<<"cat">>, <<"cat", "|", "cat">>, <<"run", "|", "cat", "|", "cat">>,
   <<"cat", "<", "f", "&">>, <<"noexec", ">", "f">>,
   <<"run", "|", "nosuch">>, <<"run", "|", ">">>, <<"|", "run">>, <<"&">>, <<>>,
   <<"cat", "<", "missing">>,
   <<"fg">>, <<"bg">>, <<"pwd">>, <<"exit">>}
=============================================================================
