------------------------------ MODULE SeedData ------------------------------
(***************************************************************************)
(* The data of prisma/seed.ts: who takes part in the thirteen projects,    *)
(* the expenses with their keys, and how each is split.  Amounts are in    *)
(* cents.  Names, dates, categories, descriptions and budgets are left     *)
(* out.                                                                    *)
(***************************************************************************)
EXTENDS Integers, Sequences

\* The keys 1 to 10 of the participants are their places in this sequence.
SeedPeople == <<"Steve", "Aurore", "Ludo", "Jerem", "Sophie",
                "Marco", "Lea", "Thomas", "Nina", "Paul">>

\* key: the id the script looks for; shares: one for each person of the
\* project, in the order of its people, 0 for those left out of the split.
Expense(key, payer, amount, shares) ==
    [key |-> key, payer |-> payer, amount |-> amount, shares |-> shares]

\* alert: the id of the project's alert, 0 when it has none.
Project(owner, people, alert, expenses) ==
    [owner |-> owner, people |-> people, alert |-> alert, expenses |-> expenses]

Milan ==
    Project("Steve", <<"Steve", "Aurore", "Ludo">>, 1,
      <<Expense(1, "Steve", 13500, <<4500, 4500, 4500>>),
        Expense(2, "Steve", 13500, <<4500, 4500, 4500>>),
        Expense(3, "Steve", 7500, <<2500, 2500, 2500>>),
        Expense(4, "Steve", 7500, <<2500, 2500, 2500>>),
        Expense(5, "Aurore", 8400, <<4200, 0, 4200>>),
        Expense(6, "Ludo", 5400, <<1800, 1800, 1800>>),
        Expense(7, "Aurore", 3900, <<1300, 1300, 1300>>),
        Expense(8, "Steve", 1800, <<600, 600, 600>>),
        Expense(9, "Ludo", 2700, <<900, 900, 900>>),
        Expense(10, "Steve", 3600, <<1200, 1200, 1200>>),
        Expense(11, "Aurore", 1500, <<500, 500, 500>>),
        Expense(12, "Ludo", 3000, <<1000, 1000, 1000>>),
        Expense(13, "Steve", 1200, <<400, 400, 400>>),
        Expense(14, "Aurore", 1800, <<600, 600, 600>>),
        Expense(15, "Steve", 6600, <<2200, 2200, 2200>>)>>)

Coloc ==
    Project("Steve", <<"Steve", "Ludo", "Jerem">>, 2,
      <<Expense(20, "Steve", 90000, <<30000, 30000, 30000>>),
        Expense(21, "Steve", 90000, <<30000, 30000, 30000>>),
        Expense(22, "Steve", 5800, <<1934, 1933, 1933>>),
        Expense(23, "Steve", 6200, <<2067, 2067, 2066>>),
        Expense(24, "Jerem", 3999, <<1333, 1333, 1333>>),
        Expense(25, "Jerem", 3999, <<1333, 1333, 1333>>),
        Expense(26, "Ludo", 8740, <<2914, 2913, 2913>>),
        Expense(27, "Steve", 6420, <<2140, 2140, 2140>>),
        Expense(28, "Ludo", 9260, <<3087, 3087, 3086>>),
        Expense(29, "Jerem", 2850, <<950, 950, 950>>),
        Expense(30, "Steve", 3100, <<1034, 1033, 1033>>),
        Expense(31, "Steve", 12000, <<4000, 4000, 4000>>),
        Expense(32, "Ludo", 1799, <<600, 600, 599>>),
        Expense(33, "Ludo", 1799, <<600, 600, 599>>),
        Expense(34, "Jerem", 4200, <<1400, 1400, 1400>>)>>)

Anniv ==
    Project("Steve", <<"Steve", "Aurore", "Ludo", "Jerem">>, 3,
      <<Expense(40, "Aurore", 12000, <<4000, 2000, 2000, 4000>>),
        Expense(41, "Jerem", 9500, <<2375, 2375, 2375, 2375>>),
        Expense(42, "Ludo", 3800, <<950, 950, 950, 950>>)>>)

Raclette ==
    Project("Steve", <<"Steve", "Jerem", "Lea", "Thomas">>, 0,
      <<Expense(50, "Steve", 5200, <<1300, 1300, 1300, 1300>>),
        Expense(51, "Jerem", 2800, <<700, 700, 700, 700>>),
        Expense(52, "Lea", 2000, <<500, 500, 500, 500>>)>>)

Seminaire ==
    Project("Steve", <<"Steve", "Thomas", "Lea", "Marco">>, 0,
      <<Expense(60, "Steve", 88000, <<22000, 22000, 22000, 22000>>),
        Expense(61, "Thomas", 34000, <<8500, 8500, 8500, 8500>>),
        Expense(62, "Lea", 12750, <<3188, 3187, 3187, 3188>>),
        Expense(63, "Steve", 21000, <<5250, 5250, 5250, 5250>>)>>)

Bretagne ==
    Project("Steve", <<"Steve", "Sophie", "Marco", "Lea">>, 0,
      <<Expense(70, "Steve", 32000, <<8000, 8000, 8000, 8000>>),
        Expense(71, "Marco", 24000, <<8000, 8000, 8000, 0>>),
        Expense(72, "Lea", 15000, <<0, 0, 0, 15000>>),
        Expense(73, "Sophie", 17850, <<4463, 4462, 4462, 4463>>),
        Expense(74, "Steve", 12000, <<3000, 3000, 3000, 3000>>)>>)

Cuisine ==
    Project("Steve", <<"Steve", "Sophie", "Nina", "Paul">>, 0,
      <<Expense(80, "Sophie", 6730, <<1683, 1682, 1682, 1683>>),
        Expense(81, "Steve", 5490, <<1373, 1372, 1372, 1373>>),
        Expense(82, "Nina", 7100, <<1775, 1775, 1775, 1775>>)>>)

Reno ==
    Project("Steve", <<"Steve", "Marco">>, 0,
      <<Expense(90, "Steve", 28000, <<14000, 14000>>),
        Expense(91, "Marco", 120000, <<60000, 60000>>),
        Expense(92, "Steve", 45000, <<22500, 22500>>)>>)

Festival ==
    Project("Steve", <<"Steve", "Jerem", "Thomas">>, 0,
      <<Expense(100, "Steve", 45000, <<15000, 15000, 15000>>),
        Expense(101, "Jerem", 9000, <<3000, 3000, 3000>>),
        Expense(102, "Thomas", 13800, <<4600, 4600, 4600>>)>>)

Espagne ==
    Project("Steve", <<"Steve", "Aurore", "Ludo", "Sophie">>, 0,
      <<Expense(110, "Steve", 48000, <<12000, 12000, 12000, 12000>>),
        Expense(111, "Aurore", 84000, <<21000, 21000, 21000, 21000>>),
        Expense(112, "Ludo", 32000, <<8000, 8000, 8000, 8000>>)>>)

ColocAurore ==
    Project("Aurore", <<"Aurore", "Nina", "Paul">>, 4,
      <<Expense(120, "Aurore", 90000, <<30000, 30000, 30000>>),
        Expense(121, "Nina", 7800, <<2600, 2600, 2600>>),
        Expense(122, "Paul", 24500, <<8167, 8167, 8166>>)>>)

Lyon ==
    Project("Aurore", <<"Aurore", "Ludo", "Sophie">>, 0,
      <<Expense(130, "Aurore", 10800, <<3600, 3600, 3600>>),
        Expense(131, "Sophie", 21000, <<7000, 7000, 7000>>),
        Expense(132, "Ludo", 9300, <<3100, 3100, 3100>>)>>)

Repas ==
    Project("Aurore", <<"Aurore", "Sophie", "Nina">>, 0,
      <<Expense(140, "Aurore", 7500, <<2500, 2500, 2500>>),
        Expense(141, "Sophie", 6900, <<2300, 2300, 2300>>),
        Expense(142, "Nina", 4800, <<1600, 1600, 1600>>)>>)
\* The keys of the projects are their places in this sequence.
SeedProjects == <<Milan, Coloc, Anniv, Raclette, Seminaire, Bretagne, Cuisine,
                  Reno, Festival, Espagne, ColocAurore, Lyon, Repas>>
=============================================================================
