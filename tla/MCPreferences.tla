---------------------------- MODULE MCPreferences ----------------------------
\* Constants for TLC: five options of two components, one of every kind and a
\* list, and a list of methods with a row in the settings dialog and one without.
EXTENDS Preferences
MCWords == STRING
Opt(type, level, component) ==
  [type |-> type, level |-> level, component |-> component, list |-> type = "SPIN",
   optional |-> type = "OPT_ENTRY", default |-> NoValue]
MCOption ==
  [o \in {"auto-key-locate", "keyserver", "verbose", "log", "attribute"} |->
     CASE o = "auto-key-locate" -> Opt("ENTRY", 1, "gpg")
       [] o = "keyserver" -> Opt("ENTRY", 0, "gpg")
       [] o = "verbose" -> Opt("SPIN", 0, "agent")
       [] o = "log" -> Opt("OPT_ENTRY", 1, "agent")
       [] OTHER -> [Opt("ENTRY", 1, "agent") EXCEPT !.list = TRUE]]
Conf(methods, server, count, log) ==
  [o \in DOMAIN MCOption |->
     CASE o = "auto-key-locate" -> methods
       [] o = "keyserver" -> server
       [] o = "verbose" -> count
       [] o = "log" -> log
       [] OTHER -> << <<"a">>, <<"b">> >>]
MCFirstConf ==
  {Conf(<< <<"local", "wkd">> >>, NoValue, << <<"2">> >>, << <<>> >>),
   Conf(NoValue, << <<"hkp://b">> >>, NoValue, << <<"a", "">> >>)}
MCTyped ==
  [o \in DOMAIN MCOption |->
     CASE o = "auto-key-locate" -> {<<"wkd">>}
       [] o = "keyserver" -> {<<"hkp://b">>}
       [] o = "attribute" -> {<<"a", "">>}
       [] OTHER -> {<<"file">>}]
MCServersFile == <<"hkp://b">>
MCBuiltIn == <<"hkp://a", "hkps://b">>
Host(scheme, host, path) ==
  [scheme |-> scheme, slashes |-> 2, auth |-> "", host |-> host, port |-> "", path |-> path]
MCUri ==
  [w \in {"hkp://a", "hkp://b", "hkps://b", "kdns"} |->
     CASE w = "hkp://a" -> Host("hkp", "a", "")
       [] w = "hkp://b" -> Host("hkp", "b", "")
       [] w = "hkps://b" -> Host("hkps", "b", "")
       [] OTHER -> Host("kdns", "192.0.2.1", kdnscert)]
==============================================================================
