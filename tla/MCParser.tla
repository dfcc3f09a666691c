------------------------------ MODULE MCParser ------------------------------
EXTENDS IdlText

Int32 == <<"basic", "int32">>
Field(anns, ty, name) == <<"field", anns, ty, name, <<>> >>

\* Fields of every kind of type.
StructFile ==
  [includes |-> << <<"quoted", <<"'a.idl'">> >>, <<"system", <<"b", ".", "idl">> >> >>,
   definitions |->
     << <<"struct", << <<"final", <<>> >> >>, "S", <<"A", "B">>,
          << Field(<< <<"key", <<>> >>, <<"x", <<>> >> >>, Int32, "a"),
             Field(<<>>, <<"sequence", <<"named", <<"A", "T">> >>, 2>>, "b"),
             Field(<<>>, <<"array", <<"basic", "uint64">>, 3>>, "c"),
             Field(<<>>, <<"string", 3>>, "d") >> >> >>]

\* Annotations with parameters.
AnnotatedFile ==
  [includes |-> <<>>,
   definitions |->
     << <<"struct", <<>>, "S", <<>>,
          << <<"field", << <<"range", << <<"min", "1">>, <<"max", "3">> >> >>,
                           <<"id", << <<"value", "2">> >> >>, <<"x", <<>> >> >>,
               Int32, "a", <<2>> >> >> >> >>]

ModuleFile ==
  [includes |-> <<>>,
   definitions |->
     << <<"module", "M",
          << <<"enum", <<>>, "E", << <<"X", <<>> >>, <<"Y", <<2>> >> >> >>,
             <<"module", "N", << <<"typedef", <<"array", <<"basic", "int64">>, 2>>, "T">> >> >>,
             <<"const", <<"basic", "uint16">>, "C", <<"1", "+", "X">> >> >> >>,
        <<"struct", <<>>, "Z", <<>>, <<>> >> >>]

UnionFile ==
  [includes |-> <<>>,
   definitions |->
     << <<"union", <<>>, "U", <<"named", <<"M", "E">> >>,
          << << << <<"1">>, <<"M", "X">> >>, <<"basic", "boolean">>, "u">>,
             << << <<"2">> >>, <<"basic", "uint32">>, "w">> >>,
          << << <<"string", 0>>, "v">> >> >> >>]

MCFiles == {StructFile, AnnotatedFile, ModuleFile, UnionFile}

\* Include guards and declarations that are skipped.
GuardedText ==
  <<"#", "ifndef", "G", "#", "define", "G", "interface", "I", ":", "J", "{", "a", "{",
    "}", ";", "}", ";", "valuetype", "V", ";", "enum", "E", "{", "X", "=", "0x2", "}",
    ";", "#", "endif">>

\* Texts that are accepted and come back as others: an array that is built
\* inside out, and a default case in place of an earlier one.
ArraysText ==
  <<"struct", "S", "{", "long", "a", "[", "2", "]", "[", "3", "]", ";", "}", ";">>
DefaultsText ==
  <<"union", "U", "switch", "(", "long", ")", "{", "default", ":", "long", "u", ";",
    "default", ":", "long", "v", ";", "}", ";">>

Texts == {FileText(f) : f \in MCFiles} \cup {GuardedText, ArraysText, DefaultsText}
Wrong == {"{", "}", ";", ":", "<", "@", "#", "X", "1"}
MCInputs == Texts \cup UNION {Damaged(s, Wrong) : s \in Texts}
=============================================================================
