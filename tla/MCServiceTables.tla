--------------------------- MODULE MCServiceTables ---------------------------
(* Two services; tables that swap the roles of packet ids, replace assets, *)
(* list an id twice and change or drop the application service; sub-tables *)
(* of one and of two sections in two versions.                             *)
EXTENDS ServiceTables

Entry(pid, asset) == [pid |-> pid, asset |-> asset]

MptOf(version, services, tracks, data) ==
  [version |-> version, services |-> services, tracks |-> tracks, data |-> data]

Service(pid, format) == [ait |-> pid, format |-> format]

Plain    == MptOf(1, << Service("ait", 1) >>, << Entry("v", "hevc") >>, << Entry("d", "files") >>)
Swapped  == MptOf(1, << Service("ait", 2) >>, << Entry("d", "hevc") >>, << Entry("v", "files") >>)
Replaced == MptOf(2, << Service(NoPid, 1) >>, << Entry("v", "other") >>, << >>)
Twice    == MptOf(2, << Service("ait", 1) >>,
                  << Entry("v", "hevc"), Entry("v", "other") >>, << Entry("v", "files") >>)

MCTables == << {Plain, Swapped, Replaced, Twice}, {}, {} >>

Section(type, version, number, last, apps) ==
  [pid |-> "ait", type |-> type, next |-> TRUE, version |-> version,
   number |-> number, last |-> last, apps |-> apps]

App(id, code) == [id |-> id, code |-> code]

MCSections ==
  << {Section(Html5, 1, 1, 1, {App("a", 1)}),
      Section(16, 1, 0, 1, {App("b", 1)}), Section(16, 1, 1, 1, {App("c", 1)}),
      Section(16, 1, 1, 1, {}), Section(16, 2, 1, 1, {App("c", 3)})},
     {}, {} >>

MCSelections == {1, NoService}
=============================================================================
