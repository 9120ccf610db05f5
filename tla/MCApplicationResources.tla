----------------------- MODULE MCApplicationResources ------------------------
(* Five carousels: two files in two directories (the DDMT in two sections);*)
(* an update of the DAMT in place that changes one file and drops the      *)
(* other; a new session with another MPU that replaces it, the directories *)
(* in two sections again; an index that changes under its download id and  *)
(* drops a file; and both tables changed at once, with that file back.     *)
EXTENDS ApplicationResources

Ddmt(session, version, number, last, base, tag, path) ==
  [kind |-> "ddmt", source |-> 1, session |-> session, version |-> version,
   number |-> number, last |-> last, next |-> FALSE, base |-> base,
   directories |-> << [tag |-> tag, path |-> path] >>]

Damt(session, version, transaction, download, sequence, nodes, node) ==
  [kind |-> "damt", source |-> 1, session |-> session, version |-> version,
   number |-> 0, last |-> 0, next |-> FALSE, component |-> 64,
   transaction |-> transaction, download |-> download,
   mpus |-> << [sequence |-> sequence, index |-> 9, nodes |-> nodes, node |-> node] >>]

Listed(item, size, version, name) ==
  [item |-> item, size |-> size, version |-> version, name |-> name,
   compression |-> Absent, original |-> Absent]

Deflated(item, size, version, name, original) ==
  [Listed(item, size, version, name) EXCEPT !.compression = 0, !.original = original]

DataUnit(sequence, item, download, size, records, content) ==
  [mpu |-> << 64, sequence >>, item |-> item, download |-> download, size |-> size,
   inflated |-> 3, records |-> records, content |-> content]

App(control) ==
  [id |-> 1, control |-> control, entry |-> << "top", "main" >>,
   transports |-> {[absolute |-> FALSE, path |-> << "a", "" >>],
                   [absolute |-> TRUE, path |-> << "c" >>]}]

First1 ==
  [tables |-> {Ddmt(1, 1, 0, 1, << "", "a" >>, 7, << "top" >>),
               Ddmt(1, 1, 1, 1, << "", "b" >>, 8, << ".", "more" >>),
               Damt(1, 1, 10, 20, 5, << 7, 8 >>, Absent)},
   units |-> {DataUnit(5, 9, 20, 2, << Listed(1, 1, 1, << "main" >>),
                                       Listed(2, 2, 1, << "old" >>) >>, "index"),
              DataUnit(5, 1, 20, 1, Absent, "one"), DataUnit(5, 2, 20, 2, Absent, "two")},
   applications |-> {App(1)}]

InPlace ==
  [tables |-> {Ddmt(1, 1, 0, 1, << "", "a" >>, 7, << "top" >>),
               Ddmt(1, 1, 1, 1, << "", "b" >>, 8, << ".", "more" >>),
               Damt(1, 2, 11, 21, 5, << 7 >>, Absent)},
   units |-> {DataUnit(5, 9, 21, 1, << Listed(1, 1, 2, << "main" >>) >>, "index"),
              DataUnit(5, 1, 21, 1, Absent, "uno")},
   applications |-> {App(5)}]

Replaced ==
  [tables |-> {Ddmt(2, 1, 0, 1, << "a" >>, 7, << "top" >>),
               Ddmt(2, 1, 1, 1, << "d" >>, 8, << >>),
               Damt(2, 1, 12, 22, 6, << >>, 7)},
   units |-> {DataUnit(6, 9, 22, 2, << Listed(1, 1, 1, << "main" >>),
                                       Deflated(3, 2, 1, << "new" >>, 3),
                                       Listed(4, 1, 1, << "..", "out" >>) >>, "index"),
              DataUnit(6, 1, 22, 1, Absent, "eins"), DataUnit(6, 3, 22, 2, Absent, "drei")},
   applications |-> {App(1)}]

Indexed ==
  [Replaced EXCEPT !.units =
     {DataUnit(6, 9, 22, 1, << Listed(1, 1, 2, << "main" >>) >>, "index"),
      DataUnit(6, 1, 22, 1, Absent, "eins")}]

Returned ==
  [tables |-> {Ddmt(2, 2, 0, 0, << "e" >>, 7, << "top" >>), Damt(2, 2, 13, 23, 6, << >>, 7)},
   units |-> {DataUnit(6, 9, 23, 2, << Listed(1, 1, 2, << "main" >>),
                                       Listed(3, 2, 2, << "new" >>) >>, "index"),
              DataUnit(6, 1, 23, 1, Absent, "un"), DataUnit(6, 3, 23, 2, Absent, "trois")},
   applications |-> {}]

MCCarousels == << First1, InPlace, Replaced, Indexed, Returned >>
=============================================================================
