SPECIFICATION MiddlewareSpec
CONSTANTS
    Requests = {r1, r2, r3, r4}
    Scrapes = {r4}
SYMMETRY Symmetry
INVARIANTS MiddlewareTypeOK LineOfItsTime OneIdPerRequest ScrapeComplete
