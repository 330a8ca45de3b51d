SPECIFICATION ScanSpec
CONSTANTS
  Conns = {c1, c2}
  MaxAps = 2
  MaxScans = 3
PROPERTY BusyMeansScanning
